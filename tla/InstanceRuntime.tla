--------------------------- MODULE InstanceRuntime ---------------------------
(***************************************************************************)
(* One game server instance on a Linux Agent, and the three processes that *)
(* change it:                                                              *)
(*   daemon    agent.py: one thread that reconciles the instance, runs the *)
(*             Controller's lifecycle and remove commands, and stages      *)
(*             storage pool jobs (runtime_reconciler, instance_runtime);   *)
(*   cli       `cap instance start|stop|restart`, an operator's own        *)
(*             process (cap_dispatch, instance_runtime.lifecycle);         *)
(*   executor  the process staged for a storage pool migration or for the  *)
(*             cleanup of the copy it preserved                            *)
(*             (storage_pool_migration_executor).                          *)
(* They share the local instance record, a JSON file that is read and      *)
(* rewritten whole, the systemd unit, the server process and the           *)
(* directories of the storage pools.  A lock file (flock) serializes most, *)
(* but not all, of what they do; pc says where each of them is.            *)
(*                                                                         *)
(* The record is reduced to its storage pool, its desired state and        *)
(* whether the last pass failed, so that the next one may back off; the    *)
(* observed state and the count of retries are informational.  Time is not *)
(* modelled: a pass, a lock timeout and the end of a backoff come whenever *)
(* they are enabled.                                                       *)
(*                                                                         *)
(* What needs root is done by the helper, a systemd unit of its own, one   *)
(* per instance.  Its copy of a directory may take hours and goes on when  *)
(* the executor that asked for it gave up or died, lock or no lock; whoever*)
(* starts the unit in the meantime waits for that copy, and takes its      *)
(* result for the answer to what he asked.                                 *)
(***************************************************************************)
EXTENDS Naturals

CONSTANTS
  Pools,       \* the storage pools of the Agent
  None,        \* no record, no unit, no process, no job
  MaxOrders,   \* bound on the Controller's lifecycle and remove commands
  MaxLocals,   \* bound on lifecycle commands of local operators
  MaxJobs,     \* bound on storage pool jobs
  MaxFaults,   \* bound on failing helper calls and on crashes of the server
  MaxBreaks,   \* bound on migrations that fail after they began
  MaxCrashes,  \* bound on restarts of the Agent service
  MaxOutages   \* bound on status queries that systemd does not answer

Processes == {"daemon", "cli", "executor"}
Commanded == {"daemon", "cli"}
Records == [pool : Pools, desired : {"running", "stopped"}, retrying : BOOLEAN]
Jobs == [kind : {"migrate", "cleanup"}, source : Pools, target : Pools]
Copies == [source : Pools, target : Pools]

ASSUME RuntimeAssumption ==
  /\ None \notin Pools \cup Processes \cup Records \cup Jobs \cup Copies
  /\ {MaxOrders, MaxLocals, MaxJobs, MaxFaults, MaxBreaks, MaxCrashes, MaxOutages}
       \subseteq Nat

VARIABLES
  lock,       \* who holds the instance's flock, or None
  record,     \* the local instance record, or None
  unit,       \* the pool the materialized systemd unit runs in, or None
  process,    \* the pool the server process runs in, or None
  data,       \* what each pool's directory of the instance holds
  helper,     \* the copy the helper's unit is at, or None
  misled,     \* the processes whose call of the helper was answered by such a copy
  pc,         \* where each process is
  copy,       \* the record each process read first and works from
  latest,     \* the record the daemon re-read and is about to write back
  order,      \* the command the daemon and the cli execute
  job,        \* the storage pool job the executor was staged for, or None
  completed,  \* <<source, target>> of migrations reported completed
  strayed,    \* a migration took the copy of another for its own
  removed,    \* a remove command took effect
  budget      \* what is left of each bound

helperVars == <<helper, misled, strayed>>
vars == <<lock, record, unit, process, data, helperVars, pc, copy, latest, order, job,
          completed, removed, budget>>
files == <<record, unit, process, data>>
shared == <<files, helperVars>>

DaemonLocations ==
  {"boot", "idle", "waiting", "inspect", "register", "converge", "settle", "verify",
   "save", "ordered", "adapter", "acted", "removing", "erase", "unlink"}
CliLocations == {"idle", "ordered", "adapter", "acted"}
ExecutorLocations ==
  {"idle", "staged", "copy", "copying", "switch", "register", "commit", "publish",
   "restoreUnit", "restoreRecord", "delete"}

(* A directory is absent, freshly seeded by materialization, half deleted, *)
(* or holds the whole instance.                                            *)
Contents == {"absent", "seeded", "partial", "whole"}

TypeOK ==
  /\ lock \in Processes \cup {None}
  /\ record \in Records \cup {None}
  /\ unit \in Pools \cup {None}
  /\ process \in Pools \cup {None}
  /\ data \in [Pools -> Contents]
  /\ helper \in Copies \cup {None}
  /\ misled \subseteq Processes
  /\ strayed \in BOOLEAN
  /\ pc \in [Processes -> DaemonLocations \cup CliLocations \cup ExecutorLocations]
  /\ copy \in [Processes -> Records \cup {None}]
  /\ latest \in Records \cup {None}
  /\ order \in [Commanded -> {"start", "stop", "restart", "remove", "none"}]
  /\ job \in Jobs \cup {None}
  /\ completed \in SUBSET (Pools \X Pools)
  /\ removed \in BOOLEAN
  /\ budget \in [{"orders", "locals", "jobs", "faults", "breaks", "crashes",
                 "outages"} -> Nat]

\* The instance was provisioned in one pool and has converged.
Init ==
  /\ lock = None
  /\ \E p \in Pools, d \in {"running", "stopped"} :
       /\ record = [pool |-> p, desired |-> d, retrying |-> FALSE]
       /\ unit = p
       /\ process = IF d = "running" THEN p ELSE None
       /\ data = [q \in Pools |-> IF q = p THEN "whole" ELSE "absent"]
  /\ helper = None
  /\ misled = {}
  /\ strayed = FALSE
  /\ pc = [a \in Processes |-> "idle"]
  /\ copy = [a \in Processes |-> None]
  /\ latest = None
  /\ order = [a \in Commanded |-> "none"]
  /\ job = None
  /\ completed = {}
  /\ removed = FALSE
  /\ budget = [orders |-> MaxOrders, locals |-> MaxLocals, jobs |-> MaxJobs,
               faults |-> MaxFaults, breaks |-> MaxBreaks, crashes |-> MaxCrashes,
               outages |-> MaxOutages]

-----------------------------------------------------------------------------
(* Steps the processes share *)

Goto(a, from, to) == pc[a] = from /\ pc' = [pc EXCEPT ![a] = to]

Spend(what) == budget[what] > 0 /\ budget' = [budget EXCEPT ![what] = @ - 1]

\* Mutant: the lock is taken over, whoever holds it.
SeizeLock(a) == lock' = a

\* flock(LOCK_EX | LOCK_NB), retried until it succeeds or times out.
Acquire(a) == lock = None /\ lock' = a
Release(a) == lock' = IF lock = a THEN None ELSE lock

\* The privileged helper writes the unit and creates what the pool lacks.
ApplyUnit(p) ==
  /\ unit' = p
  /\ data' = [data EXCEPT ![p] = IF @ = "absent" THEN "seeded" ELSE @]

\* The result of the copy counts as that of a call that waited for it; a call
\* that finds the helper idle has it apply the unit.
Apply(a, p) ==
  /\ misled' = misled \ {a}
  /\ IF a \in misled THEN UNCHANGED <<unit, data>> ELSE helper = None /\ ApplyUnit(p)
  /\ UNCHANGED <<helper, strayed>>

\* A call that neither waits for a copy nor is answered.
Unanswered(a) == misled' = misled \ {a} /\ UNCHANGED <<helper, strayed>>

\* A wait of 60 seconds is over, or the copy fails: that is no fault of its own.
HelperGivesUp == helper # None /\ UNCHANGED budget

\* systemd starts the server in the directory of the unit's pool.
StartServer == unit # None /\ data[unit] # "absent" /\ process' = unit

StopServer == process' = None

\* What an rmtree that fails half way leaves of a directory.
HalfDeleted(p) == [data EXCEPT ![p] = IF @ = "absent" THEN @ ELSE "partial"]

AdapterStart == IF process = None THEN StartServer ELSE UNCHANGED process

-----------------------------------------------------------------------------
(* Reconciliation, in the daemon *)

\* The pass reads the record first and takes the lock with that copy in hand.
ReadRecord ==
  /\ record # None
  /\ \E from \in {"boot", "idle"} : Goto("daemon", from, "waiting")
  /\ copy' = [copy EXCEPT !["daemon"] = record]
  /\ UNCHANGED <<shared, lock, latest, order, job, completed, removed, budget>>

\* Only a record in its backoff is passed over; later passes need no step.
BootSkips ==
  /\ IF record = None THEN TRUE ELSE record.retrying
  /\ Goto("daemon", "boot", "idle")
  /\ UNCHANGED <<shared, lock, copy, latest, order, job, completed, removed,
                 budget>>

LockForReconcile ==
  /\ Acquire("daemon")
  /\ Goto("daemon", "waiting", "inspect")
  /\ UNCHANGED <<shared, copy, latest, order, job, completed, removed, budget>>

\* An exception makes _failure write the newest record back, lock or no lock.
Failed == [(IF record = None THEN copy["daemon"] ELSE record) EXCEPT !.retrying = TRUE]

RecordFailure(from) == Goto("daemon", from, "save") /\ latest' = Failed

ReconcileTimeout ==
  /\ lock # None
  /\ RecordFailure("waiting")
  /\ UNCHANGED <<shared, lock, copy, order, job, completed, removed, budget>>

\* Mutant: only a missing unit is repaired, not one of another pool.
InspectPresence ==
  /\ pc["daemon"] = "inspect"
  /\ IF unit # None
     THEN Goto("daemon", "inspect", "converge") /\ UNCHANGED <<unit, data, helperVars>>
     ELSE Goto("daemon", "inspect", "register") /\ Apply("daemon", copy["daemon"].pool)
  /\ UNCHANGED <<lock, record, process, copy, latest, order, job, completed,
                 removed, budget>>

\* The installed unit is compared with the copy; drift is repaired from it.
InspectUnit ==
  /\ pc["daemon"] = "inspect"
  /\ IF unit = copy["daemon"].pool /\ "daemon" \notin misled
     THEN Goto("daemon", "inspect", "converge") /\ UNCHANGED <<unit, data, helperVars>>
     ELSE Goto("daemon", "inspect", "register") /\ Apply("daemon", copy["daemon"].pool)
  /\ UNCHANGED <<lock, record, process, copy, latest, order, job, completed,
                 removed, budget>>

RegisterRepaired ==
  /\ Goto("daemon", "register", "converge")
  /\ record' = copy["daemon"]
  /\ UNCHANGED <<helperVars, lock, unit, process, data, copy, latest, order, job,
                 completed, removed, budget>>

\* runtime_materialization.reconcile re-reads the record and starts or stops; who
\* believes that the helper repaired the unit does not look at it again.
Converge ==
  /\ record # None
  /\ unit = record.pool \/ "daemon" \in misled
  /\ Unanswered("daemon")
  /\ Goto("daemon", "converge", "settle")
  /\ latest' = record
  /\ IF record.desired = "running" THEN AdapterStart ELSE StopServer
  /\ UNCHANGED <<lock, record, unit, data, copy, order, job, completed, removed,
                 budget>>

\* A unit of another pool is repaired where the helper writes it (games with
\* private content); elsewhere the daemon itself may not, and the pass fails.
ConvergeRepairs ==
  /\ record # None
  /\ unit \notin {None, record.pool}
  /\ pc["daemon"] = "converge" /\ "daemon" \notin misled
  /\ Apply("daemon", record.pool)
  /\ UNCHANGED <<lock, record, process, pc, copy, latest, order, job, completed,
                 removed, budget>>

ConvergeFails ==
  /\ RecordFailure("converge")
  /\ Unanswered("daemon")
  /\ \/ HelperGivesUp
     \/ IF record = None \/ unit = None \/ unit # record.pool \/ data[unit] = "absent"
        THEN UNCHANGED budget ELSE Spend("faults")
  /\ UNCHANGED <<files, lock, copy, order, job, completed, removed>>

Settle ==
  /\ Goto("daemon", "settle", "verify")
  /\ record' = latest
  /\ UNCHANGED <<helperVars, lock, unit, process, data, copy, latest, order, job,
                 completed, removed, budget>>

\* The outcome is judged by the copy, and saved in the newest record.
Verify ==
  /\ Goto("daemon", "verify", "save")
  /\ latest' = IF record # None /\ latest.desired = copy["daemon"].desired
               THEN [record EXCEPT !.retrying = FALSE]
               ELSE Failed
  /\ UNCHANGED <<shared, lock, copy, order, job, completed, removed, budget>>

HelperFails ==
  /\ \E from \in {"inspect", "register"} : RecordFailure(from)
  /\ Unanswered("daemon")
  /\ Spend("faults") \/ HelperGivesUp
  /\ UNCHANGED <<files, lock, copy, order, job, completed, removed>>

SaveOutcome ==
  /\ Goto("daemon", "save", "idle")
  /\ record' = latest
  /\ Release("daemon")
  /\ UNCHANGED <<helperVars, unit, process, data, copy, latest, order, job,
                 completed, removed, budget>>

Reconcile ==
  \/ ReadRecord \/ BootSkips \/ LockForReconcile \/ ReconcileTimeout
  \/ InspectUnit \/ RegisterRepaired \/ Converge \/ ConvergeRepairs
  \/ ConvergeFails \/ Settle
  \/ Verify \/ HelperFails \/ SaveOutcome

-----------------------------------------------------------------------------
(* Lifecycle commands, in the daemon or in an operator's process *)

Order(a) ==
  /\ Spend(IF a = "cli" THEN "locals" ELSE "orders")
  /\ Goto(a, "idle", "ordered")
  /\ \E action \in {"start", "stop", "restart"} : order' = [order EXCEPT ![a] = action]
  /\ UNCHANGED <<shared, lock, copy, latest, job, completed, removed>>

LockForLifecycle(a) ==
  /\ record # None
  /\ Acquire(a)
  /\ Goto(a, "ordered", "adapter")
  /\ copy' = [copy EXCEPT ![a] = record]
  /\ UNCHANGED <<shared, latest, order, job, completed, removed, budget>>

\* The lock times out, or there is no such instance any more.
LifecycleRefused(a) ==
  /\ lock # None \/ record = None
  /\ Goto(a, "ordered", "idle")
  /\ UNCHANGED <<shared, lock, copy, latest, order, job, completed, removed,
                 budget>>

RunAdapter(a) ==
  /\ unit # None
  /\ Goto(a, "adapter", "acted")
  /\ \/ order[a] = "start" /\ AdapterStart
     \/ order[a] = "restart" /\ StartServer
     \/ order[a] = "stop" /\ StopServer
  /\ UNCHANGED <<helperVars, lock, record, unit, data, copy, latest, order, job,
                 completed, removed, budget>>

\* A restart or a stop that fails may have stopped the server.
AdapterFails(a) ==
  /\ IF unit = None \/ (order[a] # "stop" /\ data[unit] = "absent")
     THEN UNCHANGED budget ELSE Spend("faults")
  /\ Goto(a, "adapter", "idle")
  /\ Release(a)
  /\ process' \in IF order[a] = "start" THEN {process} ELSE {process, None}
  /\ UNCHANGED <<helperVars, record, unit, data, copy, latest, order, job,
                 completed, removed>>

\* Mutant: the record keeps the verb of the command.
DesiredVerb(action) == action

DesiredBy(action) == IF action = "stop" THEN "stopped" ELSE "running"

RegisterDesired(a) ==
  /\ Goto(a, "acted", "idle")
  /\ record' = [copy[a] EXCEPT !.desired = DesiredBy(order[a])]
  /\ Release(a)
  /\ UNCHANGED <<helperVars, unit, process, data, copy, latest, order, job,
                 completed, removed, budget>>

Lifecycle(a) ==
  \/ LockForLifecycle(a) \/ LifecycleRefused(a) \/ RunAdapter(a)
  \/ AdapterFails(a) \/ RegisterDesired(a)

(* Removal, in the daemon *)

OrderRemove ==
  /\ Spend("orders")
  /\ Goto("daemon", "idle", "removing")
  /\ order' = [order EXCEPT !["daemon"] = "remove"]
  /\ UNCHANGED <<shared, lock, copy, latest, job, completed, removed>>

LockForRemove ==
  /\ record # None
  /\ Acquire("daemon")
  /\ Goto("daemon", "removing", "erase")
  /\ UNCHANGED <<shared, copy, latest, order, job, completed, removed, budget>>

\* Stops the server; the helper deletes the unit and the private state of its pool.
RemoveRuntime ==
  /\ record # None
  /\ Goto("daemon", "erase", "unlink")
  /\ process' = None
  /\ Unanswered("daemon")
  /\ IF "daemon" \in misled THEN UNCHANGED <<unit, data>>
     ELSE /\ helper = None
          /\ unit' = None
          /\ data' = [data EXCEPT ![record.pool] = "absent"]
  /\ removed' = TRUE
  /\ UNCHANGED <<lock, record, copy, latest, order, job, completed, budget>>

UnlinkRecord ==
  /\ Goto("daemon", "unlink", "idle")
  /\ record' = None
  /\ Release("daemon")
  /\ UNCHANGED <<helperVars, unit, process, data, copy, latest, order, job,
                 completed, removed, budget>>

RemoveRefused ==
  /\ lock # None \/ record = None
  /\ Goto("daemon", "removing", "idle")
  /\ UNCHANGED <<shared, lock, copy, latest, order, job, completed, removed,
                 budget>>

\* The adapter, the firewall or the call fails, or the helper once the unit is gone.
RemoveBreaks ==
  /\ record # None
  /\ Goto("daemon", "erase", "idle")
  /\ Release("daemon")
  /\ Unanswered("daemon")
  /\ \/ /\ (Spend("faults") \/ HelperGivesUp)
        /\ process' \in {process, None}
        /\ UNCHANGED <<unit, data, removed>>
     \/ /\ helper = None /\ Spend("faults")
        /\ process' = None
        /\ unit' = None
        /\ data' \in {data, HalfDeleted(record.pool)}
        /\ removed' = TRUE
  /\ UNCHANGED <<record, copy, latest, order, job, completed>>

Remove == LockForRemove \/ RemoveRuntime \/ UnlinkRecord \/ RemoveRefused \/ RemoveBreaks

-----------------------------------------------------------------------------
(* Storage pool jobs *)

\* The idle daemon stages what the heartbeat delivered.  The Controller sends
\* one job at a time, and a cleanup only for a migration it saw completed.
StageJob ==
  /\ Spend("jobs")
  /\ pc["daemon"] = "idle"
  /\ Goto("executor", "idle", "staged")
  /\ \E s, t \in Pools, kind \in {"migrate", "cleanup"} :
       /\ s # t
       /\ kind = "cleanup" => <<s, t>> \in completed
       /\ job' = [kind |-> kind, source |-> s, target |-> t]
  /\ copy' = [copy EXCEPT !["executor"] = None]
  /\ UNCHANGED <<shared, lock, latest, order, completed, removed>>

EndJob == pc' = [pc EXCEPT !["executor"] = "idle"] /\ job' = None

\* An exception leaves the lock first; the rollback then runs without it.
FailMigration(from) ==
  /\ Goto("executor", from, "restoreUnit")
  /\ Release("executor")

\* Anything but running counts as stopped, also when systemd does not answer.
ObservedStopped ==
  \/ process = None /\ UNCHANGED budget
  \/ process # None /\ Spend("outages")

BeginMigration ==
  /\ job # None /\ job.kind = "migrate"
  /\ record # None
  /\ Acquire("executor")
  /\ copy' = [copy EXCEPT !["executor"] = record]
  /\ record.pool = job.source
  /\ ObservedStopped
  /\ Goto("executor", "staged", "copy")
  /\ UNCHANGED <<shared, latest, order, job, completed, removed>>

\* The checks fail after `original` was read: that too ends in a rollback.
RejectMigration ==
  /\ job # None /\ job.kind = "migrate"
  /\ record # None
  /\ lock = None
  /\ record.pool # job.source \/ process # None
  /\ copy' = [copy EXCEPT !["executor"] = record]
  /\ Goto("executor", "staged", "restoreUnit")
  /\ UNCHANGED <<shared, lock, latest, order, job, completed, removed, budget>>

\* No lock in time, no such instance, or the wrong pool for a cleanup.
JobRefused ==
  /\ pc["executor"] = "staged"
  /\ \/ lock # None
     \/ record = None
     \/ record # None /\ job.kind = "cleanup" /\ record.pool # job.target
  /\ EndJob
  /\ UNCHANGED <<shared, lock, copy, latest, order, completed, removed, budget>>

\* The call starts the helper's unit, or waits for what the unit is doing.
AskCopy ==
  /\ job # None
  /\ Goto("executor", "copy", "copying")
  /\ IF helper # None THEN UNCHANGED helper
     ELSE /\ data[job.target] = "absent"
          /\ helper' = [source |-> job.source, target |-> job.target]
  /\ UNCHANGED <<files, misled, strayed, lock, copy, latest, order, job, completed,
                 removed, budget>>

CopyRefused ==
  /\ job # None
  /\ helper = None
  /\ data[job.target] # "absent"
  /\ FailMigration("copy")
  /\ UNCHANGED <<shared, copy, latest, order, job, completed, removed, budget>>

SwitchUnit ==
  /\ job # None
  /\ Goto("executor", "switch", "register")
  /\ Apply("executor", job.target)
  /\ UNCHANGED <<lock, record, process, copy, latest, order, job, completed,
                 removed, budget>>

RegisterTarget ==
  /\ job # None
  /\ Goto("executor", "register", "commit")
  /\ record' = [copy["executor"] EXCEPT !.pool = job.target]
  /\ UNCHANGED <<helperVars, lock, unit, process, data, copy, latest, order, job,
                 completed, removed, budget>>

\* The completed result is written before the event that announces it.
CommitResult ==
  /\ job # None
  /\ Goto("executor", "commit", "publish")
  /\ completed' = completed \cup {<<job.source, job.target>>}
  /\ UNCHANGED <<shared, lock, copy, latest, order, job, removed, budget>>

PublishCompleted ==
  /\ pc["executor"] = "publish"
  /\ EndJob
  /\ Release("executor")
  /\ UNCHANGED <<shared, copy, latest, order, completed, removed, budget>>

\* From copying: the call timed out, and the helper goes on.
MigrationBreaks ==
  /\ \E from \in {"copy", "copying", "switch", "register", "commit", "publish"} :
       FailMigration(from)
  /\ Spend("breaks")
  /\ UNCHANGED <<shared, copy, latest, order, job, completed, removed>>

RestoreUnit ==
  /\ Goto("executor", "restoreUnit", "restoreRecord")
  /\ Apply("executor", copy["executor"].pool)
  /\ UNCHANGED <<lock, record, process, copy, latest, order, job, completed,
                 removed, budget>>

RestoreRecord ==
  /\ pc["executor"] = "restoreRecord"
  /\ record' = copy["executor"]
  /\ EndJob
  /\ UNCHANGED <<helperVars, lock, unit, process, data, copy, latest, order,
                 completed, removed, budget>>

RestoreBreaks ==
  /\ pc["executor"] \in {"restoreUnit", "restoreRecord"}
  /\ Unanswered("executor")
  /\ Spend("faults") \/ HelperGivesUp
  /\ EndJob
  /\ UNCHANGED <<files, lock, copy, latest, order, completed, removed>>

\* Mutant: the cleanup does not look at the record.
BeginCleanupUnchecked ==
  /\ job # None /\ job.kind = "cleanup"
  /\ record # None
  /\ Acquire("executor")
  /\ Goto("executor", "staged", "delete")
  /\ UNCHANGED <<shared, copy, latest, order, job, completed, removed, budget>>

\* Cleanup: the record must already be on the migration's target.
BeginCleanup ==
  /\ job # None /\ job.kind = "cleanup"
  /\ record # None
  /\ record.pool = job.target
  /\ Acquire("executor")
  /\ Goto("executor", "staged", "delete")
  /\ UNCHANGED <<shared, copy, latest, order, job, completed, removed, budget>>

DeleteSource ==
  /\ job # None
  /\ pc["executor"] = "delete"
  /\ data' = [data EXCEPT ![job.source] = "absent"]
  /\ completed' = completed \ {<<job.source, job.target>>}
  /\ EndJob
  /\ Release("executor")
  /\ UNCHANGED <<helperVars, record, unit, process, copy, latest, order, removed,
                 budget>>

\* The tree changed since the migration, or rmtree fails half way.
DeleteBreaks ==
  /\ job # None
  /\ pc["executor"] = "delete"
  /\ Spend("faults")
  /\ data' \in {data, HalfDeleted(job.source)}
  /\ EndJob
  /\ Release("executor")
  /\ UNCHANGED <<helperVars, record, unit, process, copy, latest, order, completed,
                 removed>>

Migrate ==
  \/ BeginMigration \/ RejectMigration \/ AskCopy \/ CopyRefused \/ SwitchUnit
  \/ RegisterTarget \/ CommitResult \/ PublishCompleted \/ MigrationBreaks
  \/ RestoreUnit \/ RestoreRecord \/ RestoreBreaks

Cleanup == BeginCleanup \/ DeleteSource \/ DeleteBreaks

Execute == JobRefused \/ Migrate \/ Cleanup

-----------------------------------------------------------------------------
(* The helper's unit *)

\* The processes that are about to call the helper, or wait for its answer.
Callers ==
  {a \in Processes :
     \/ a = "executor" /\ pc[a] = "restoreUnit"
     \/ /\ a = "daemon"
        /\ \/ pc[a] = "inspect" /\ unit # copy[a].pool
           \/ pc[a] = "converge" /\ record # None /\ unit \notin {None, record.pool}
           \/ pc[a] = "erase"}

\* The staged tree, compared with its source, is renamed into place.
CopyData ==
  /\ helper # None
  /\ data[helper.target] = "absent"
  /\ data' = [data EXCEPT ![helper.target] =
                IF data[helper.source] = "absent" THEN "seeded" ELSE data[helper.source]]
  /\ helper' = None
  /\ misled' \in SUBSET Callers
  /\ IF pc["executor"] = "copying"
     THEN /\ Goto("executor", "copying", "switch")
          /\ strayed' = (strayed \/ helper.target # job.target)
     ELSE UNCHANGED <<pc, strayed>>
  /\ UNCHANGED <<lock, record, unit, process, copy, latest, order, job, completed,
                 removed, budget>>

\* A disk error, or a server that wrote into the source: the staged tree is deleted.
CopyFails ==
  /\ helper # None
  /\ IF process = helper.source THEN UNCHANGED budget ELSE Spend("breaks")
  /\ helper' = None
  /\ IF pc["executor"] = "copying" THEN FailMigration("copying") ELSE UNCHANGED <<pc, lock>>
  /\ UNCHANGED <<files, misled, strayed, copy, latest, order, job, completed,
                 removed>>

Copying == CopyData \/ CopyFails

-----------------------------------------------------------------------------
(* The world *)

ServerCrash ==
  /\ process # None
  /\ Spend("faults")
  /\ process' = None
  /\ UNCHANGED <<helperVars, lock, record, unit, data, pc, copy, latest, order,
                 job, completed, removed>>

\* Stopping the service ends the daemon and the executors in its cgroup; the
\* kernel drops their flock.  The helper's unit is not in that cgroup and works on.
\* The new daemon starts with a reconcile pass.
AgentRestart ==
  /\ Spend("crashes")
  /\ pc' = [daemon |-> "boot", cli |-> pc["cli"], executor |-> "idle"]
  /\ lock' = IF lock = "cli" THEN lock ELSE None
  /\ job' = None
  /\ misled' = {}
  /\ UNCHANGED <<files, helper, strayed, copy, latest, order, completed, removed>>

Next ==
  \/ Reconcile
  \/ \E a \in Commanded : Order(a) \/ Lifecycle(a)
  \/ OrderRemove \/ Remove
  \/ StageJob \/ Execute \/ Copying
  \/ ServerCrash \/ AgentRestart

(* Every process that has begun an operation goes on with it, so does the  *)
(* helper, and the loop of the daemon comes back to the reconcile pass.    *)
Fairness ==
  /\ WF_vars(Reconcile)
  /\ \A a \in Commanded : WF_vars(Lifecycle(a))
  /\ WF_vars(Remove)
  /\ WF_vars(Execute)
  /\ WF_vars(Copying)

Spec == Init /\ [][Next]_vars /\ Fairness

-----------------------------------------------------------------------------
(* Properties *)

(* As long as no remove command took effect (and nobody but the Controller *)
(* gives commands: MaxLocals = 0 in its runs), the pool the record names   *)
(* holds a whole copy of the instance: neither a cleanup nor a repair nor  *)
(* a copy that outlived its migration ever leaves the record on a deleted, *)
(* half deleted or freshly seeded directory, but for one case: a migration *)
(* that was answered by the copy of another one, to a third pool.          *)
DataAvailable == ~removed /\ ~strayed => record # None /\ data[record.pool] = "whole"

(* No server runs beside a copy that its migration's executor waits for:   *)
(* the check, the wait and every start lie under one lock.  This is what   *)
(* the lock gives; it is freed when the executor dies or gives up, while   *)
(* the copy goes on, see StoppedWhileCopying.                              *)
StoppedWhileAwaited == helper # None /\ process # None => pc["executor"] # "copying"

(* What the executor's check is for: no server runs in a directory that is *)
(* being copied.  A copy that outlives its executor breaks it.             *)
StoppedWhileCopying == helper # None => process # helper.source

(* A migration completes with the copy it asked for.  An executor that     *)
(* finds the helper at the copy of an earlier migration breaks it.         *)
MovesItsOwn == ~strayed

(* No cleanup deletes the directory a running server works in.             *)
CleanupSparesServer ==
  [][\A p \in Pools : data[p] # "absent" /\ data'[p] = "absent" => process' # p]_vars

(* Once commands, jobs and failures cease, the server, its unit and its    *)
(* record agree for good: what is desired to run runs, in its pool.        *)
Settled ==
  IF record = None THEN process = None
  ELSE unit = record.pool /\ (process # None <=> record.desired = "running")

Converges == <>[]Settled

(* The parts of the invariant the proofs rest on: the critical sections    *)
(* lie under the lock, and whoever works from a copy has one.              *)
LockDiscipline ==
  /\ pc["daemon"] \in {"inspect", "register", "converge", "settle", "verify",
                       "adapter", "acted", "erase", "unlink"} => lock = "daemon"
  /\ pc["cli"] \in {"adapter", "acted"} => lock = "cli"
  /\ pc["executor"] \in {"copy", "copying", "switch", "register", "commit", "publish",
                         "delete"} => lock = "executor"

CopiesHeld ==
  /\ pc["daemon"] \in {"waiting", "inspect", "register", "converge", "settle", "verify",
                       "adapter", "acted"} => copy["daemon"] # None
  /\ pc["cli"] \in {"adapter", "acted"} => copy["cli"] # None
  /\ pc["executor"] \in {"copy", "copying", "switch", "register", "commit", "publish",
                         "restoreUnit", "restoreRecord"} => copy["executor"] # None

NoOutage == MaxOutages = 0 => budget["outages"] = 0

StoppedUnderLock ==
  MaxOutages = 0 /\ pc["executor"] \in {"copy", "copying"} => process = None

IInv == TypeOK /\ LockDiscipline /\ CopiesHeld /\ NoOutage /\ StoppedUnderLock

(* Why DataAvailable holds without local operators: every record that some *)
(* process may still write names a whole directory; from the staging of a  *)
(* job until its copy is done the daemon holds no record of another pool   *)
(* than the current one, because jobs are staged between its operations;   *)
(* and as long as the helper copies, with or without an executor, every    *)
(* record is on the pool it copies from.                                   *)
HoldsCopy == pc["daemon"] \in {"waiting", "inspect", "register", "converge", "settle",
                               "verify", "adapter", "acted"}
HoldsLatest == pc["daemon"] \in {"settle", "verify", "save"}
Migrating == pc["executor"] \in {"copy", "copying", "switch", "register", "commit",
                                 "publish", "restoreUnit", "restoreRecord"}

JobsMatch ==
  /\ pc["executor"] \in {"staged", "delete"} \/ Migrating
       => job # None /\ job.source # job.target
  /\ Migrating => job.kind = "migrate"
  /\ pc["executor"] = "delete" => job.kind = "cleanup"

EveryCopyWhole ==
  /\ record # None /\ data[record.pool] = "whole"
  /\ HoldsCopy => data[copy["daemon"].pool] = "whole"
  /\ HoldsLatest => latest # None /\ data[latest.pool] = "whole"
  /\ Migrating => data[copy["executor"].pool] = "whole"
  /\ pc["executor"] \in {"switch", "register"} => data[job.target] = "whole"

DaemonIn(p) ==
  /\ HoldsCopy => copy["daemon"].pool = p
  /\ HoldsLatest => latest.pool = p

JobQuiet ==
  /\ pc["executor"] \in {"staged", "delete", "copy", "copying"} => DaemonIn(record.pool)
  /\ pc["executor"] = "delete" => record.pool = job.target
  /\ pc["executor"] \in {"copy", "copying"} =>
       record.pool = job.source /\ copy["executor"].pool = job.source

CopyQuiet ==
  helper # None =>
    /\ helper.source # helper.target
    /\ record.pool = helper.source
    /\ DaemonIn(helper.source)
    /\ Migrating => copy["executor"].pool = helper.source
    /\ pc["executor"] \notin {"switch", "register", "commit", "publish"}

DataInv ==
  /\ pc["cli"] = "idle" /\ budget["locals"] = 0
  /\ pc["daemon"] = "unlink" => removed
  /\ pc["executor"] = "copying" => helper # None
  /\ JobsMatch
  /\ ~removed /\ ~strayed => EveryCopyWhole /\ JobQuiet /\ CopyQuiet

(* Only a lifecycle command changes what is desired of an instance.        *)
OnlyLifecycleDecides ==
  [][record # None /\ record' # None /\ record'.desired # record.desired
       => \E a \in Commanded : pc[a] = "acted" /\ pc'[a] = "idle"]_vars
=============================================================================
