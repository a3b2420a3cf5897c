------------------------ MODULE ServerPackMigration ------------------------
(***************************************************************************)
(* The Server Pack migration of one Minecraft instance: the provisioning   *)
(* executor's transaction, the operation journal that bars every other     *)
(* operation while a migration is unsettled, the root-only recovery of     *)
(* local_cli.py, the finalization worker of a committed migration, the     *)
(* daemon that reports and clears the result, and operators (modules       *)
(* minecraft_serverpack_* and runtime_operations.py of agents/linux).      *)
(* All of them take the instance's lock; a crash of the Agent releases it  *)
(* while the privileged helper, a unit of its own, goes on.                *)
(***************************************************************************)
EXTENDS ServerPackSwap

CONSTANTS
  MaxAttempts,  \* bound on migrations requested
  MaxFaults,    \* bound on crashes, failed helper steps, stops that hang and failed restarts of the worker
  MaxTimeouts   \* bound on clients that stop waiting for the helper

ASSUME MigrationAssumption == MaxAttempts \in Nat /\ MaxFaults \in Nat /\ MaxTimeouts \in Nat

VARIABLES
  outer,      \* the instance's operation journal, as far as migrations go
  evidence,   \* the attempt in the recovery-evidence file, 0 without one
  lock,       \* who holds the instance's lock
  executor,   \* the provisioning executor
  original,   \* the server's state when the transaction stopped it
  result,     \* the provisioning result file of the latest attempt
  attempts,   \* migrations requested so far
  cli,        \* cap instance recover-serverpack
  worker,     \* the finalization worker
  faults,     \* crashes, breaks and hangs so far
  timeouts    \* clients that gave up so far

boundVars == <<attempts, faults, timeouts>>
clientVars == <<executor, original, cli, worker>>
vars == <<swapVars, server, outer, evidence, lock, clientVars, result, boundVars>>

\* "unrestored": the rollback failed as well; "safe": a failure before the swap that
\* the recovery recognises by its message.
OuterStates == {"none", "running", "interrupted", "failed", "pending", "completed", "recovered"}
Errors == {"none", "safe", "other", "unrestored"}

\* Mutant: an interrupted migration does not bar.
BarredUnlessInterrupted == outer.status \in {"running", "failed", "pending"}

Barred == outer.status \in {"running", "interrupted", "failed", "pending"}

ExecutorPC == {"idle", "preflight", "lock", "check", "stop", "backup", "candidate", "again",
               "undo", "revive", "restore", "report", "inputs", "build", "prepare", "switch",
               "commit", "archive", "recover"}
ResultStates == {"none", "running", "pending", "completed", "failed", "cleared"}

TypeOK ==
  /\ SwapTypeOK
  /\ outer \in [status : OuterStates, attempt : 0 .. MaxAttempts, error : Errors]
  /\ evidence \in 0 .. MaxAttempts
  /\ lock \in {"none", "executor", "cli", "worker"}
  /\ executor \in [pc : ExecutorPC, called : BOOLEAN, error : Errors, final : ResultStates]
  /\ original \in {"inactive", "active", "failed"}
  /\ result \in ResultStates
  /\ attempts \in 0 .. MaxAttempts
  /\ cli \in {"idle", "prove", "wait"}
  /\ worker \in {"idle", "resume", "wait", "restart", "publish", "release"}
  /\ faults \in 0 .. MaxFaults /\ timeouts \in 0 .. MaxTimeouts

Resting == [pc |-> "idle", called |-> FALSE, error |-> "none", final |-> "none"]

Init ==
  /\ SwapInit
  /\ outer = [status |-> "none", attempt |-> 0, error |-> "none"]
  /\ evidence = 0
  /\ lock = "none"
  /\ executor = Resting
  /\ original = "inactive"
  /\ result = "none"
  /\ attempts = 0
  /\ cli = "idle" /\ worker = "idle"
  /\ faults = 0 /\ timeouts = 0

Fault == faults < MaxFaults /\ faults' = faults + 1

Runs(state) == server' = state /\ dirs' = [dirs EXCEPT !["active"].clean = @ /\ state # "active"]

\* A recovered migration is preserved before the journal's only slot is used again; a
\* different one already preserved refuses the operation.
Preservable == outer.status = "recovered" => evidence \in {0, outer.attempt}
Preserve == evidence' = IF outer.status = "recovered" THEN outer.attempt ELSE evidence

-----------------------------------------------------------------------------
(* The executor *)

Go(pc) == executor' = [executor EXCEPT !.pc = pc, !.called = FALSE]
Fail(error) == executor' = [executor EXCEPT !.pc = "undo", !.called = FALSE, !.error = error]

Request ==
  /\ executor.pc = "idle" /\ result \in {"none", "cleared"} /\ attempts < MaxAttempts
  /\ attempts' = attempts + 1
  /\ result' = "running"
  /\ executor' = [Resting EXCEPT !.pc = "preflight"]
  /\ UNCHANGED <<swapVars, server, outer, evidence, lock, original, cli, worker, faults, timeouts>>

\* Before the lock: no trace of an earlier transaction, and the loader to migrate from.
SlotEmpty == NoJournal /\ checkpoint = "none" /\ Empty({"stage", "rollback", "failed"})

Preflight ==
  /\ executor.pc = "preflight"
  /\ executor' = IF SlotEmpty /\ dirs["active"].build = "old"
                 THEN [executor EXCEPT !.pc = "lock"]
                 ELSE [executor EXCEPT !.pc = "report", !.final = "failed"]
  /\ UNCHANGED <<swapVars, server, outer, evidence, lock, original, result, cli, worker, boundVars>>

\* runtime_operation: the lock, the barrier, the evidence, and the new journal.
Lock ==
  /\ executor.pc = "lock"
  /\ IF lock = "none" /\ ~Barred /\ Preservable
     THEN /\ lock' = "executor" /\ Go("check")
          /\ outer' = [status |-> "running", attempt |-> attempts, error |-> "none"]
          /\ Preserve
     ELSE /\ executor' = [executor EXCEPT !.pc = "report", !.final = "failed"]
          /\ UNCHANGED <<outer, evidence, lock>>
  /\ UNCHANGED <<swapVars, server, original, result, cli, worker, boundVars>>

\* The context exits: the journal is written, then the lock is free.
Exit(status, error, final) ==
  /\ outer' = [outer EXCEPT !.status = status, !.error = error]
  /\ lock' = "none"
  /\ executor' = [executor EXCEPT !.pc = "report", !.final = final]

\* The evidence and the capacity are checked again, outside the transaction's try.
Check ==
  /\ executor.pc = "check"
  /\ \/ Go("stop") /\ UNCHANGED <<outer, lock>>
     \/ Exit("failed", "other", "failed")
  /\ UNCHANGED <<swapVars, server, evidence, original, result, cli, worker, boundVars>>

Stop ==
  /\ executor.pc = "stop"
  /\ original' = server
  /\ \/ server # "failed" /\ Go("backup") /\ server' = "inactive" /\ UNCHANGED faults
     \/ server = "failed" /\ Fail("other") /\ UNCHANGED <<server, faults>>
     \/ server = "active" /\ Fault /\ Fail("other") /\ UNCHANGED server
  /\ UNCHANGED <<swapVars, outer, evidence, lock, result, attempts, cli, worker, timeouts>>

Backup ==
  /\ executor.pc = "backup"
  /\ Go("inputs") \/ Fail("other")
  /\ UNCHANGED <<swapVars, server, outer, evidence, lock, original, result, cli, worker, boundVars>>

\* A hook that runs a phase of the helper calls it and waits.
Call ==
  /\ executor.pc \in Phases /\ ~executor.called
  /\ Invoke(executor.pc)
  /\ executor' = [executor EXCEPT !.called = TRUE]
  /\ UNCHANGED <<server, outer, evidence, lock, original, result, cli, worker, boundVars>>

\* What follows a phase that succeeded; a rollback does not look at its status.
AfterPhase(phase) ==
  CASE phase = "inputs" -> "build" [] phase = "build" -> "prepare" [] phase = "prepare" -> "switch"
    [] phase = "switch" -> "candidate" [] phase = "commit" -> "archive"
    [] phase = "archive" -> "restore" [] OTHER -> "revive"

Return ==
  /\ executor.pc \in Phases /\ executor.called /\ HelperIdle
  /\ IF helper.answer # "failed" THEN Go(AfterPhase(executor.pc)) /\ UNCHANGED <<outer, lock>>
     ELSE CASE executor.pc = "recover" -> Exit("failed", "unrestored", "failed")
            [] executor.pc = "archive" -> Exit("pending", "none", "pending")
            [] executor.pc \in {"inputs", "build"} ->
                 \E e \in {"safe", "other"} : Fail(e) /\ UNCHANGED <<outer, lock>>
            [] OTHER -> Fail("other") /\ UNCHANGED <<outer, lock>>
  /\ UNCHANGED <<swapVars, server, evidence, original, result, cli, worker, boundVars>>

\* The inputs cannot be prepared: the quarantined archive is gone.
InputsMissing ==
  /\ executor.pc = "inputs" /\ ~executor.called
  /\ Fail("safe")
  /\ UNCHANGED <<swapVars, server, outer, evidence, lock, original, result, cli, worker, boundVars>>

\* systemctl start gives up after an hour; the helper does not.
GiveUp ==
  /\ ~HelperIdle /\ timeouts < MaxTimeouts /\ timeouts' = timeouts + 1
  /\ executor.pc \in Phases /\ executor.called
  /\ CASE executor.pc = "recover" -> Exit("failed", "unrestored", "failed")
       [] executor.pc = "archive" -> Exit("pending", "none", "pending")
       [] OTHER -> Fail("other") /\ UNCHANGED <<outer, lock>>
  /\ UNCHANGED <<swapVars, server, evidence, original, result, attempts, cli, worker, faults>>

\* The readiness probe, once after the swap and again before the commit when the
\* server was running: start, wait, and stop whatever came of it.
Launch ==
  /\ executor.pc \in {"candidate", "again"} /\ ~executor.called
  /\ Runs("active")
  /\ executor' = [executor EXCEPT !.called = TRUE]
  /\ UNCHANGED <<journal, temp, checkpoint, filed, helper, outer, evidence, lock, original, result, cli, worker, boundVars>>

Probe ==
  /\ executor.pc \in {"candidate", "again"} /\ executor.called
  /\ \/ /\ server = "active" /\ server' = "inactive"
        /\ Go(IF executor.pc = "candidate" /\ original = "active" THEN "again" ELSE "commit")
        /\ UNCHANGED faults
     \/ server' = "inactive" /\ Fail("other") /\ UNCHANGED faults
     \/ executor.pc = "again" /\ Fail("other") /\ UNCHANGED <<server, faults>>
     \/ server = "active" /\ Fault /\ Fail("other") /\ UNCHANGED server
  /\ UNCHANGED <<swapVars, outer, evidence, lock, original, result, attempts, cli, worker, timeouts>>

\* The rollback hook: never touch the tree while the candidate may run.
Undo ==
  /\ executor.pc = "undo"
  /\ \/ server' = "inactive" /\ Go("recover") /\ UNCHANGED <<outer, lock, faults>>
     \/ server = "active" /\ Fault /\ Exit("failed", "unrestored", "failed") /\ UNCHANGED server
  /\ UNCHANGED <<swapVars, evidence, original, result, attempts, cli, worker, timeouts>>

\* The original availability comes back, after a rollback or after the archival; a
\* server that does not become ready is left as it is.
Restart(ready, failing) ==
  IF original # "active" THEN ready /\ UNCHANGED <<server, dirs>>
  ELSE \/ Runs("active") /\ ready
       \/ \E state \in {"active", "failed"} :
            /\ server' = state /\ dirs' = [dirs EXCEPT !["active"].clean = FALSE] /\ failing

Revive ==
  /\ executor.pc = "revive"
  /\ Restart(Exit("failed", executor.error, "failed"), Exit("failed", "unrestored", "failed"))
  /\ UNCHANGED <<journal, temp, checkpoint, filed, helper, evidence, original, result, cli, worker, boundVars>>

Restore ==
  /\ executor.pc = "restore"
  /\ Restart(Exit("completed", "none", "completed"), Exit("pending", "none", "pending"))
  /\ UNCHANGED <<journal, temp, checkpoint, filed, helper, evidence, original, result, cli, worker, boundVars>>

\* Mutant: the result repeats the operation journal's status of the moment.
ReportOuter ==
  /\ executor.pc = "report"
  /\ result' = outer.status
  /\ executor' = Resting
  /\ UNCHANGED <<swapVars, server, outer, evidence, lock, original, cli, worker, boundVars>>

\* The result file follows the operation journal.
ReportResult ==
  /\ executor.pc = "report"
  /\ result' = executor.final
  /\ executor' = Resting
  /\ UNCHANGED <<swapVars, server, outer, evidence, lock, original, cli, worker, boundVars>>

ExecutorStep == Preflight \/ Lock \/ Check \/ Stop \/ Backup \/ Call \/ Return \/ InputsMissing \/ GiveUp
                \/ Launch \/ Probe \/ Undo \/ Revive \/ Restore \/ ReportResult

-----------------------------------------------------------------------------
(* cap instance recover-serverpack, run by root *)

CliLock ==
  /\ cli = "idle" /\ lock = "none" /\ outer.status \in {"failed", "interrupted"}
  /\ lock' = "cli" /\ cli' = "prove"
  /\ UNCHANGED <<swapVars, server, outer, evidence, executor, original, result, worker, boundVars>>

Recovered ==
  /\ outer' = [outer EXCEPT !.status = "recovered", !.error = "none"]
  /\ lock' = "none" /\ cli' = "idle"
CliRefuses == lock' = "none" /\ cli' = "idle" /\ UNCHANGED outer

\* Without a trace of the swap only a recognised early failure is proved harmless;
\* everything else is the helper's to recover.
CliProve ==
  /\ cli = "prove"
  /\ IF NoJournal /\ outer.status = "failed" /\ outer.error = "safe"
     THEN /\ IF Empty({"stage", "rollback", "failed"}) THEN Recovered ELSE CliRefuses
          /\ UNCHANGED swapVars
     ELSE cli' = "wait" /\ Invoke("recover") /\ UNCHANGED <<outer, lock>>
  /\ UNCHANGED <<server, evidence, executor, original, result, worker, boundVars>>

\* Mutant: an answer of the helper is success whatever it says.
CliFinishUnread ==
  /\ cli = "wait" /\ HelperIdle
  /\ IF helper.answer # "failed" THEN Recovered ELSE CliRefuses
  /\ UNCHANGED <<swapVars, server, evidence, executor, original, result, worker, boundVars>>

CliFinish ==
  /\ cli = "wait" /\ HelperIdle
  /\ IF helper.answer = "recovered" THEN Recovered ELSE CliRefuses
  /\ UNCHANGED <<swapVars, server, evidence, executor, original, result, worker, boundVars>>

CliStep == CliLock \/ CliProve \/ CliFinish

-----------------------------------------------------------------------------
(* The finalization worker of a committed migration *)

WorkerLock ==
  /\ worker = "idle" /\ lock = "none" /\ outer.status = "pending" /\ result \in {"pending", "completed"}
  /\ lock' = "worker"
  /\ worker' = IF result = "completed" THEN "release" ELSE "resume"
  /\ UNCHANGED <<swapVars, server, outer, evidence, executor, original, result, cli, boundVars>>

\* The committed journal, in place or filed with the tree it replaced.
Committed == journal = "committed"
Archived == journal = "none" /\ checkpoint = "saved" /\ filed /\ dirs["rollback"] = None /\ dirs["history"] # None

WorkerQuits == lock' = "none" /\ worker' = "idle"

WorkerResume ==
  /\ worker = "resume"
  /\ CASE original # "failed" /\ Committed /\ checkpoint # "temp" /\ server = "inactive" ->
            Invoke("archive") /\ worker' = "wait" /\ UNCHANGED lock
       [] original # "failed" /\ Archived /\ server # "failed" ->
            worker' = "restart" /\ UNCHANGED <<swapVars, lock>>
       [] OTHER -> WorkerQuits /\ UNCHANGED swapVars
  /\ UNCHANGED <<server, outer, evidence, executor, original, result, cli, boundVars>>

WorkerArchived ==
  /\ worker = "wait" /\ HelperIdle
  /\ IF helper.answer = "done" /\ Archived THEN worker' = "restart" /\ UNCHANGED lock ELSE WorkerQuits
  /\ UNCHANGED <<swapVars, server, outer, evidence, executor, original, result, cli, boundVars>>

\* The server is brought back to its state before the migration.
WorkerRestart ==
  /\ worker = "restart"
  /\ CASE server = original -> worker' = "publish" /\ UNCHANGED <<server, dirs, lock, faults>>
       [] server = "inactive" /\ original = "active" ->
            \/ Runs("active") /\ worker' = "publish" /\ UNCHANGED <<lock, faults>>
            \/ Fault /\ \E state \in {"active", "failed"} :
                 /\ server' = state /\ dirs' = [dirs EXCEPT !["active"].clean = FALSE] /\ WorkerQuits
       [] OTHER -> WorkerQuits /\ UNCHANGED <<server, dirs, faults>>
  /\ UNCHANGED <<journal, temp, checkpoint, filed, helper, outer, evidence, executor, original, result, cli, attempts, timeouts>>

\* Success is published first and the barrier released second.
WorkerPublish ==
  /\ worker = "publish"
  /\ result' = "completed" /\ worker' = "release"
  /\ UNCHANGED <<swapVars, server, outer, evidence, lock, executor, original, cli, boundVars>>

WorkerRelease ==
  /\ worker = "release"
  /\ outer' = [outer EXCEPT !.status = "completed"]
  /\ WorkerQuits
  /\ UNCHANGED <<swapVars, server, evidence, executor, original, result, cli, boundVars>>

WorkerStep == WorkerLock \/ WorkerResume \/ WorkerArchived \/ WorkerRestart \/ WorkerPublish \/ WorkerRelease

-----------------------------------------------------------------------------
(* The daemon, operators and the environment *)

\* A final result is reported with a heartbeat and its file removed.
ClearResult ==
  /\ result \in {"completed", "failed"} /\ executor.pc = "idle"
  /\ result' = "cleared"
  /\ UNCHANGED <<swapVars, server, outer, evidence, lock, clientVars, boundVars>>

\* start and stop are runtime operations; they take over the operation journal.
Operate ==
  /\ lock = "none" /\ ~Barred /\ Preservable
  /\ Preserve
  /\ outer' = [outer EXCEPT !.status = "none", !.error = "none"]
  /\ \/ server = "active" /\ server' = "inactive" /\ UNCHANGED dirs
     \/ server # "active" /\ dirs["active"] # None /\ Runs("active")
  /\ UNCHANGED <<journal, temp, checkpoint, filed, helper, lock, clientVars, result, boundVars>>

\* The game server exits or crashes; its unit is not restarted.
ServerExits ==
  /\ server = "active"
  /\ server' \in {"inactive", "failed"}
  /\ UNCHANGED <<swapVars, outer, evidence, lock, clientVars, result, boundVars>>

Break ==
  /\ Fault /\ HelperBreaks
  /\ UNCHANGED <<server, outer, evidence, lock, clientVars, result, attempts, timeouts>>

\* The Agent's service restarts: its processes die, locks go, and the boot marks the
\* operation that was running.
AgentDies ==
  /\ executor' = Resting /\ worker' = "idle"
  /\ outer' = IF outer.status = "running" THEN [outer EXCEPT !.status = "interrupted"] ELSE outer

AgentCrash ==
  /\ Fault /\ AgentDies
  /\ lock' = IF lock = "cli" THEN "cli" ELSE "none"
  /\ UNCHANGED <<swapVars, server, evidence, original, cli, result, attempts, timeouts>>

HostCrash ==
  /\ Fault /\ AgentDies /\ HelperDies
  /\ lock' = "none" /\ cli' = "idle"
  /\ server' = "inactive"
  /\ UNCHANGED <<evidence, original, result, attempts, timeouts>>

Helper == (HelperStep \/ HelperAnswers) /\ UNCHANGED <<server, outer, evidence, lock, clientVars, result, boundVars>>

Next == Request \/ ExecutorStep \/ CliStep \/ WorkerStep \/ ClearResult \/ Operate \/ ServerExits
        \/ Helper \/ Break \/ AgentCrash \/ HostCrash

Spec == Init /\ [][Next]_vars

\* Processes run, administrators recover what they are shown, the worker is enabled;
\* nothing makes users, operators, game servers or faults act.
FairSpec == /\ Spec
            /\ WF_vars(ExecutorStep) /\ WF_vars(Helper) /\ WF_vars(CliStep)
            /\ WF_vars(WorkerStep) /\ WF_vars(ClearResult)

-----------------------------------------------------------------------------
(* Properties *)

\* A barrier that is lifted leaves nothing half done: a completed migration has the new
\* build active and the intact original filed with its journal, a recovered one has the
\* original build active and no transaction left (runtime_operations.py:147-195,
\* minecraft_serverpack_migration_recovery.py:88-154, finalization_completion.py:20-97).
SettledWhenLifted ==
  /\ outer.status = "completed" => Archived /\ dirs["active"].build = "new" /\ Intact("history", "old")
  /\ outer.status = "recovered" => /\ dirs["active"].build = "old" /\ dirs["rollback"] = None
                                   /\ journal \in {"none", "recovered"} /\ ~temp /\ HelperIdle

\* From the journal's first phase to the end of the archival the original tree is kept
\* unchanged in one directory, whatever crashes between two renames, and the runtime
\* directory is only ever missing behind the barrier
\* (minecraft_serverpack_migration_swap.py:147-240).
OriginalIntact ==
  /\ journal \in {"prepared", "swapping", "swapped", "checked", "recovering"} =>
       (\E d \in {"active", "rollback"} : Intact(d, "old")) \/ (journal = "prepared" /\ timeouts > 0)
  /\ journal = "committed" \/ filed => \E d \in {"rollback", "history"} : Intact(d, "old")
  /\ dirs["active"] = None => Barred

\* A migration that failed and was rolled back left the original build active and nothing
\* committed, as long as no client stopped waiting for the helper
\* (minecraft_serverpack_migration_transaction.py:236-265).
FailureKeepsOld ==
  outer.status = "failed" /\ outer.error # "unrestored" /\ timeouts = 0 =>
    dirs["active"].build = "old" /\ journal # "committed"

\* Success is reported to the Controller only for an archived migration behind which
\* nothing failed (minecraft_serverpack_finalization_coordinator.py:17-80).
CompletedIsArchived ==
  result = "completed" => Archived /\ outer.status \notin {"running", "interrupted", "failed"}

\* What the operation journal and the Controller are told of a migration is so: lifted
\* leaves nothing half done, failed leaves the old build, completed leaves the new one
\* archived (runtime_operations.py:147-195, transaction.py:236-265, coordinator.py:17-80).
OutcomesAreTrue == SettledWhenLifted /\ FailureKeepsOld /\ CompletedIsArchived

\* The game server is never started on a runtime directory between two renames, nor on a
\* swap whose readiness checkpoint is missing (materialize_instance.py:329-352).
StartsOnlyWhole ==
  [][server # "active" /\ server' = "active" =>
       journal \notin {"swapping", "swapped", "recovering"} /\ dirs["active"].build \in {"old", "new"}]_vars

\* The runtime directory is never replaced under a running game server, whoever started
\* the helper and whoever died meanwhile (materialize_instance.py:228-239).
NeverMovesUnderServer ==
  [][dirs'["active"].build # dirs["active"].build => server = "inactive" /\ server' = "inactive"]_vars

\* After the commit the new build stays the active one: no crash, recovery or finalization
\* rolls a committed migration back (minecraft_serverpack_migration_swap.py:205-208).
VerdictIsFinal ==
  [][journal = "committed" \/ filed =>
       dirs'["active"].build = "new" /\ (journal' = "committed" \/ (filed' /\ journal' = "none"))]_vars

\* What no command of the product lifts: an early failure whose message is not
\* recognised, a committed journal behind a failed or interrupted operation, a recovered
\* original that has run since, a directory that ran under a forgotten checksum, and a
\* game server that runs or has failed behind the barrier that bars stopping it;
ProvedEarly == outer.status = "failed" /\ outer.error = "safe" /\ NoJournal /\ Empty({"stage", "rollback", "failed"})
Unrecoverable ==
  /\ outer.status \in {"failed", "interrupted"} /\ HelperIdle
  /\ ~ProvedEarly
  /\ server # "inactive" \/ journal = "none" \/ ~CanRecover

\* and a pending finalization whose result file never said so or was already cleared,
\* or that finds the server in another state than the one it may act on.
Unfinishable ==
  /\ outer.status = "pending" /\ HelperIdle
  /\ \/ result \notin {"pending", "completed"}
     \/ server = "failed" \/ temp \/ checkpoint = "temp"
     \/ server = "active" /\ (Committed \/ original = "inactive")

\* Every other barrier is lifted in the end (the recovery of the administrators and the
\* worker of the daemon, agent.py:341-374).
BarrierLiftsUnlessStuck == Barred ~> (~Barred \/ Unrecoverable \/ Unfinishable)

\* Violated by the code: a recovered migration leaves the instance operable.
RecoveredIsUsable == outer.status = "recovered" => Preservable

\* Violated by the code: every barrier is lifted in the end.
BarrierLifts == Barred ~> ~Barred
=============================================================================
