--------------------------- MODULE StorageExchange ---------------------------
(***************************************************************************)
(* Storage pool operations end to end.  The Agent samples its telemetry,   *)
(* then reads the newest result file, and sends both in a heartbeat; the   *)
(* Controller stores the telemetry, records the result and picks the next  *)
(* operation inside record_agent_heartbeat (dashboard/agent_heartbeat_api, *)
(* where an exception fails the whole request), and only then serves the   *)
(* other channels.  A staged executor moves or deletes the instance's      *)
(* directory under the instance's lock.                                    *)
(*                                                                         *)
(* One request is served at a time; JobExchange has requests that overlap. *)
(* What an executor does step by step, beside the reconciler and the       *)
(* operators of one instance, is module InstanceRuntime.                   *)
(***************************************************************************)
EXTENDS StorageQueue

CONSTANTS
  MaxCrashes,  \* bound on crashes of the Agent
  MaxLosses    \* bound on lost requests and on migrations that fail half way

ASSUME StorageFaultAssumption == MaxCrashes \in Nat /\ MaxLosses \in Nat

VARIABLES
  record,     \* the pool in the Agent's record of each instance
  dirs,       \* the instances that have a directory in each pool
  results,    \* the status in the result file of each operation
  newer,      \* for each result file, the operations whose file was written after it
  executors,  \* where each operation's executor is, see ExecutorStates
  held,       \* the pool in the record a migration's executor has read
  helper,     \* the pool the helper copies each instance to for an executor that is gone
  astray,     \* instances whose migration took such a copy, to another pool, for its own
  agent,      \* the daemon's heartbeat loop and what it holds
  request,    \* the heartbeat in flight and the thread serving it
  faults      \* crashes and losses so far

helperVars == <<helper, astray>>
agentVars == <<record, dirs, results, newer, executors, held, helperVars>>
vars == <<queueVars, agentVars, agent, request, faults>>

\* "acted": the directory is copied or deleted; "announced": the completed result is
\* written, the event is not; "undoing": the migration failed, its lock is free and it
\* is about to register the record it had read; "overturned": that record was not the
\* present one any more.
ExecutorStates == {"none", "staged", "acted", "announced", "undoing", "overturned"}

Report == [op : Ops \cup {None}, status : ActiveStates \cup FinalStates \cup {"none"}]
NoReport == [op |-> None, status |-> "none"]
AgentPC == {"idle", "sampled", "waiting", "stage", "clear"}
RequestPC == {"free", "store", "record", "pick", "deliver", "rest", "done", "failed"}

\* The telemetry, result and provisioned instances of a heartbeat, and its answer.
Message == [telemetry : Telemetry, report : Report, ran : SUBSET Instances,
            state : Report, cmd : Ops \cup {None}]
Sample == [pool |-> record, usable |-> [p \in Pools |-> Capacity - Cardinality(dirs[p])]]
Blank == [telemetry |-> [pool |-> [i \in Instances |-> None], usable |-> [p \in Pools |-> 0]], report |-> NoReport, ran |-> {}, state |-> NoReport, cmd |-> None]

TypeOK ==
  /\ QueueTypeOK
  /\ record \in [Instances -> Pools \cup {None}]
  /\ dirs \in [Pools -> SUBSET Instances]
  /\ results \in [Ops -> {"none", "running"} \cup FinalStates]
  /\ newer \in [Ops -> SUBSET Ops]
  /\ executors \in [Ops -> ExecutorStates]
  /\ held \in [Migrations -> Pools \cup {None}]
  /\ helper \in [Instances -> Pools \cup {None}]
  /\ astray \subseteq Instances
  /\ agent \in [pc : AgentPC, message : Message]
  /\ request \in [pc : RequestPC, message : Message, awaited : BOOLEAN]
  /\ faults \in [crashes : 0 .. MaxCrashes, losses : 0 .. MaxLosses]

\* Some instances were provisioned before and have reported, the others not.
Init ==
  /\ live = Instances
  /\ operations = [o \in Ops |-> NoOperation]
  /\ record \in [Instances -> Pools \cup {None}]
  /\ dirs = [p \in Pools |-> {i \in Instances : record[i] = p}]
  /\ \A p \in Pools : Cardinality(dirs[p]) <= Capacity
  /\ provisioning = [i \in Instances |->
                       [status |-> IF record[i] = None THEN "none" ELSE "done", pool |-> record[i]]]
  /\ metadata = Sample
  /\ previewed = [c \in Cleanups |-> None]
  /\ results = [o \in Ops |-> "none"]
  /\ newer = [o \in Ops |-> {}]
  /\ executors = [o \in Ops |-> "none"]
  /\ held = [m \in Migrations |-> None]
  /\ helper = [i \in Instances |-> None]
  /\ astray = {}
  /\ agent = [pc |-> "idle", message |-> Blank]
  /\ request = [pc |-> "free", message |-> Blank, awaited |-> FALSE]
  /\ faults = [crashes |-> 0, losses |-> 0]

Spend(what, bound) == faults[what] < bound /\ faults' = [faults EXCEPT ![what] = @ + 1]

-----------------------------------------------------------------------------
(* Administrators *)

\* The Controller deletes an instance when the Agent has removed its runtime.
Removed(i) == record[i] = None /\ provisioning[i].status = "done"

UserStep ==
  /\ \/ \E i \in Instances, p \in Pools : \/ EnqueueProvisioning(i, p)
                                          \/ \E m \in Migrations : EnqueueMigration(i, m, p)
     \/ \E c \in Cleanups : InsertCleanup(c) \/ \E m \in Migrations : PreviewCleanup(c, m)
     \/ \E i \in Instances : Removed(i) /\ DeleteInstance(i)
  /\ UNCHANGED <<agentVars, agent, request, faults>>

-----------------------------------------------------------------------------
(* The Agent's jobs *)

Write(o, status) ==
  /\ results' = [results EXCEPT ![o] = status]
  /\ newer' = [d \in Ops |-> IF d = o \/ results[d] = "none" THEN {} ELSE newer[d] \cup {o}]

Remove(o) ==
  /\ results' = [results EXCEPT ![o] = "none"]
  /\ newer' = [d \in Ops |-> IF d = o THEN {} ELSE newer[d] \ {o}]

\* The newest result file by its time of modification.
Newest ==
  LET files == {o \in Ops : results[o] # "none"}
  IN  IF files = {} THEN {NoReport}
      ELSE {[op |-> o, status |-> results[o]] : o \in {f \in files : newer[f] \cap files = {}}}

\* The instance's lock is held from before the first effect to the result.
Unlocked(i) == \A o \in Ops : executors[o] \in {"acted", "announced"} => operations[o].owner # i

Read(m) == held' = [held EXCEPT ![m] = record[operations[m].owner]]
Forget(m) == held' = [held EXCEPT ![m] = None]

\* The executor asks for the copy; the record still names the source.
Copies(m) ==
  /\ executors[m] = "staged" /\ Unlocked(operations[m].owner)
  /\ record[operations[m].owner] = operations[m].source

\* The helper may begin: it refuses a target that exists.
Copyable(m) ==
  Copies(m) /\ helper[operations[m].owner] = None /\ operations[m].owner \notin dirs[operations[m].target]

\* A verified copy is renamed into the target pool.
Land(i, p) ==
  i \notin dirs[p] /\ Cardinality(dirs[p]) < Capacity /\ dirs' = [dirs EXCEPT ![p] = @ \cup {i}]

TakeCopy(m) ==
  /\ Write(m, "running")
  /\ Read(m)
  /\ executors' = [executors EXCEPT ![m] = "acted"]
  /\ UNCHANGED <<record, faults>>

\* The copy and its verification.
CopyTree(m) ==
  /\ Copyable(m)
  /\ Land(operations[m].owner, operations[m].target)
  /\ TakeCopy(m)
  /\ UNCHANGED helperVars

\* The client waits for 3600 seconds; the helper, a unit of its own, goes on.
AbandonCopy(m) ==
  /\ Copyable(m)
  /\ Spend("losses", MaxLosses)
  /\ helper' = [helper EXCEPT ![operations[m].owner] = operations[m].target]
  /\ Write(m, "running")
  /\ Read(m)
  /\ executors' = [executors EXCEPT ![m] = "undoing"]
  /\ UNCHANGED <<record, dirs, astray>>

EndCopy(i) == helper[i] # None /\ helper' = [helper EXCEPT ![i] = None]

\* A call that finds the helper at work waits, and takes that copy for its own.
JoinCopy(m) ==
  LET i == operations[m].owner
  IN  /\ Copies(m)
      /\ EndCopy(i) /\ Land(i, helper[i])
      /\ astray' = IF helper[i] = operations[m].target THEN astray ELSE astray \cup {i}
      /\ TakeCopy(m)

\* The unit is switched, the record registered and the result written.
CommitMigration(m) ==
  /\ executors[m] = "acted"
  /\ record' = [record EXCEPT ![operations[m].owner] = operations[m].target]
  /\ Write(m, "completed")
  /\ executors' = [executors EXCEPT ![m] = "announced"]
  /\ UNCHANGED <<dirs, held, helperVars, faults>>

ExitMigration(m) ==
  /\ executors[m] = "announced"
  /\ executors' = [executors EXCEPT ![m] = "none"]
  /\ Forget(m)
  /\ UNCHANGED <<record, dirs, results, newer, helperVars, faults>>

\* Another pool by now, a server that runs, a target that exists, a full disk.
RejectMigration(m) ==
  /\ executors[m] = "staged" /\ Unlocked(operations[m].owner)
  /\ record[operations[m].owner] # None
  /\ Read(m)
  /\ executors' = [executors EXCEPT ![m] = "undoing"]
  /\ UNCHANGED <<record, dirs, results, newer, helperVars, faults>>

\* The switch, the registration or the event after the result fails.
BreakMigration(m) ==
  /\ executors[m] \in {"acted", "announced"}
  /\ Spend("losses", MaxLosses)
  /\ executors' = [executors EXCEPT ![m] = "undoing"]
  /\ UNCHANGED <<record, dirs, results, newer, held, helperVars>>

\* The handler runs outside the lock, once the helper is free; a copy in the target
\* pool stays.
UndoMigration(m) ==
  LET i == operations[m].owner
  IN  /\ executors[m] = "undoing" /\ helper[i] = None
      /\ record' = [record EXCEPT ![i] = held[m]]
      /\ Write(m, "failed")
      /\ executors' = [executors EXCEPT ![m] = IF record[i] = held[m] THEN "none" ELSE "overturned"]
      /\ Forget(m)
      /\ UNCHANGED <<dirs, helperVars, faults>>

\* The helper does not apply the old record in 60 seconds, or fails to.
UndoFails(m) ==
  /\ executors[m] = "undoing"
  /\ IF helper[operations[m].owner] # None THEN UNCHANGED faults ELSE Spend("losses", MaxLosses)
  /\ Write(m, "failed")
  /\ executors' = [executors EXCEPT ![m] = "none"]
  /\ Forget(m)
  /\ UNCHANGED <<record, dirs, helperVars>>

\* Mutant: the record is not compared with the migration's target.
DeleteCopyUnchecked(c) ==
  LET i == operations[c].owner
  IN  /\ executors[c] = "staged" /\ Unlocked(i)
      /\ dirs' = [dirs EXCEPT ![operations[c].source] = @ \ {i}]
      /\ Write(c, "running")
      /\ executors' = [executors EXCEPT ![c] = "acted"]
      /\ UNCHANGED <<record, held, helperVars, faults>>

DeleteCopy(c) ==
  LET i == operations[c].owner
  IN  /\ executors[c] = "staged" /\ Unlocked(i)
      /\ record[i] = operations[c].target
      /\ dirs' = [dirs EXCEPT ![operations[c].source] = @ \ {i}]
      /\ Write(c, "running")
      /\ executors' = [executors EXCEPT ![c] = "acted"]
      /\ UNCHANGED <<record, held, helperVars, faults>>

ReportCleanup(c) ==
  /\ executors[c] = "acted"
  /\ Write(c, "completed")
  /\ executors' = [executors EXCEPT ![c] = "none"]
  /\ UNCHANGED <<record, dirs, held, helperVars, faults>>

\* The lock times out, the instance is gone; a clean-up also for another pool or size.
Refuse(o) ==
  /\ executors[o] = "staged"
  /\ Write(o, "failed")
  /\ executors' = [executors EXCEPT ![o] = "none"]
  /\ UNCHANGED <<record, dirs, held, helperVars, faults>>

\* Validating the command and the first event are outside the try: no result follows.
DieUnreported(o) ==
  /\ executors[o] = "staged"
  /\ Spend("losses", MaxLosses)
  /\ executors' = [executors EXCEPT ![o] = "none"]
  /\ UNCHANGED <<record, dirs, results, newer, held, helperVars>>

ExecutorStep(o) ==
  /\ \/ o \in Migrations /\ (CopyTree(o) \/ AbandonCopy(o) \/ JoinCopy(o) \/ CommitMigration(o) \/ ExitMigration(o) \/ RejectMigration(o) \/ BreakMigration(o) \/ UndoMigration(o) \/ UndoFails(o))
     \/ o \in Cleanups /\ (DeleteCopy(o) \/ ReportCleanup(o))
     \/ Refuse(o) \/ DieUnreported(o)
  /\ UNCHANGED <<queueVars, agent, request>>

\* The remove command deletes the directory the record names, and no other.
RemoveInstance(i) ==
  /\ record[i] # None /\ Unlocked(i) /\ helper[i] = None
  /\ record' = [record EXCEPT ![i] = None]
  /\ dirs' = [dirs EXCEPT ![record[i]] = @ \ {i}]
  /\ UNCHANGED <<queueVars, results, newer, executors, held, helperVars, agent, request, faults>>

\* Told that a copy succeeded, the remove command deletes the record only.
RemoveMisled(i) ==
  /\ record[i] # None /\ Unlocked(i)
  /\ EndCopy(i) /\ Land(i, helper[i])
  /\ record' = [record EXCEPT ![i] = None]
  /\ UNCHANGED <<queueVars, results, newer, executors, held, astray, agent, request, faults>>

\* A copy nobody waits for any more ends, or fails and is deleted.
LateCopy(i) ==
  /\ EndCopy(i)
  /\ Land(i, helper[i]) \/ UNCHANGED dirs
  /\ UNCHANGED <<queueVars, record, results, newer, executors, held, astray, agent, request, faults>>

\* A provisioning materializes the instance if the pool still has room.
RunProvisioning(i) ==
  LET p == provisioning[i].pool
  IN  /\ provisioning[i].status = "active"
      /\ provisioning' = [provisioning EXCEPT ![i].status = "ran"]
      /\ IF Cardinality(dirs[p]) < Capacity
         THEN /\ dirs' = [dirs EXCEPT ![p] = @ \cup {i}]
              /\ record' = [record EXCEPT ![i] = p]
         ELSE UNCHANGED <<dirs, record>>
      /\ UNCHANGED <<live, operations, metadata, previewed, results, newer, executors, held, helperVars, agent, request, faults>>

-----------------------------------------------------------------------------
(* The Agent's heartbeat loop *)

Hold(pc, message) == agent' = [pc |-> pc, message |-> message]
Drop == Hold("idle", Blank)

\* _inventory: the telemetry is sampled before the result files are read.
SampleTelemetry ==
  /\ agent.pc = "idle" /\ request.pc = "free"
  /\ Hold("sampled", [Blank EXCEPT !.telemetry = Sample])
  /\ UNCHANGED <<queueVars, agentVars, request, faults>>

SendHeartbeat ==
  /\ agent.pc = "sampled"
  /\ \E told \in Newest :
       request' = [pc |-> "store", awaited |-> TRUE,
                   message |-> [agent.message EXCEPT !.report = told,
                                                     !.ran = {i \in Instances : provisioning[i].status = "ran"}]]
  /\ Hold("waiting", Blank)
  /\ UNCHANGED <<queueVars, agentVars, faults>>

\* An error answer leaves everything to the next heartbeat.
Receive ==
  /\ agent.pc = "waiting" /\ request.pc \in {"done", "failed"}
  /\ IF request.pc = "done" THEN Hold("stage", [Blank EXCEPT !.state = request.message.state, !.cmd = request.message.cmd])
     ELSE Drop
  /\ request' = [pc |-> "free", message |-> Blank, awaited |-> FALSE]
  /\ UNCHANGED <<queueVars, agentVars, faults>>

\* The marker is written first; an operation with a result file is not staged again.
Stage ==
  LET o == agent.message.cmd
  IN  /\ agent.pc = "stage"
      /\ IF o # None /\ results[o] = "none"
         THEN Write(o, "running") /\ executors' = [executors EXCEPT ![o] = "staged"]
         ELSE UNCHANGED <<results, newer, executors>>
      /\ Hold("clear", agent.message)
      /\ UNCHANGED <<queueVars, record, dirs, held, helperVars, request, faults>>

Clear ==
  LET done == agent.message.state
  IN  /\ agent.pc = "clear"
      /\ IF done.status \in FinalStates
         THEN Remove(done.op)
         ELSE UNCHANGED <<results, newer>>
      /\ Drop
      /\ UNCHANGED <<queueVars, record, dirs, executors, held, helperVars, request, faults>>

AgentStep == SampleTelemetry \/ SendHeartbeat \/ Receive \/ Stage \/ Clear

-----------------------------------------------------------------------------
(* The Controller's thread *)

Proceed(pc, message) == request' = [request EXCEPT !.pc = pc, !.message = message]

StoreMetadata ==
  /\ request.pc = "store"
  /\ metadata' = request.message.telemetry
  /\ Proceed("record", request.message)
  /\ UNCHANGED <<live, operations, provisioning, previewed>>

\* Nothing around apply_result catches what it raises: the heartbeat fails.
Record ==
  LET told == request.message.report
  IN  /\ request.pc = "record"
      /\ CASE told.op = None -> Proceed("pick", request.message) /\ UNCHANGED operations
           [] told.op # None /\ Mismatched(told.op) -> Proceed("failed", request.message) /\ UNCHANGED operations
           [] OTHER -> /\ RecordResult(told.op, told.status)
                       /\ Proceed("pick", [request.message EXCEPT
                                             !.state = [told EXCEPT !.status = operations'[told.op].status]])
      /\ UNCHANGED <<live, provisioning, metadata, previewed>>

Pick ==
  /\ request.pc = "pick"
  /\ \/ (\A o \in Ops : ~Offered(o)) /\ Proceed("rest", request.message)
     \/ \E o \in Ops : Oldest(o) /\ Proceed("deliver", [request.message EXCEPT !.cmd = o])
  /\ UNCHANGED queueVars

Deliver ==
  /\ request.pc = "deliver"
  /\ MarkDelivered(request.message.cmd)
  /\ Proceed("rest", request.message)
  /\ UNCHANGED <<live, provisioning, metadata, previewed>>

\* The channels served after record_agent_heartbeat, provisioning results among them.
ServeRest ==
  /\ request.pc = "rest"
  /\ provisioning' = [i \in Instances |-> IF i \in request.message.ran /\ provisioning[i].status = "ran"
                                          THEN [provisioning[i] EXCEPT !.status = "done"] ELSE provisioning[i]]
  /\ Proceed("done", request.message)
  /\ UNCHANGED <<live, operations, metadata, previewed>>

Handler ==
  /\ StoreMetadata \/ Record \/ Pick \/ Deliver \/ ServeRest
  /\ UNCHANGED <<agentVars, agent, faults>>

-----------------------------------------------------------------------------
(* Faults *)

\* The copies that the helper may be at, for a staged executor or for nobody.
Lingering ==
  {h \in [Instances -> Pools \cup {None}] :
     \A i \in Instances :
       \/ h[i] = helper[i]
       \/ \E m \in Migrations : Copyable(m) /\ operations[m].owner = i /\ operations[m].target = h[i]}

\* systemd ends the daemon and every executor, but not the helper; locks are released.
Crash ==
  /\ agent.pc # "idle" \/ \E o \in Ops : executors[o] \notin {"none", "overturned"}
  /\ Spend("crashes", MaxCrashes)
  /\ Drop
  /\ request' = [request EXCEPT !.awaited = FALSE]
  /\ executors' = [o \in Ops |-> IF executors[o] = "overturned" THEN "overturned" ELSE "none"]
  /\ held' = [m \in Migrations |-> None]
  /\ helper' \in Lingering
  /\ UNCHANGED <<queueVars, record, dirs, results, newer, astray>>

\* The Agent gives up; the request is still served.
Timeout ==
  /\ agent.pc = "waiting"
  /\ Spend("losses", MaxLosses)
  /\ Drop
  /\ request' = [request EXCEPT !.awaited = FALSE]
  /\ UNCHANGED <<queueVars, agentVars>>

\* Nobody waits for the answer any more.
DiscardOrphan ==
  /\ request.pc \in {"done", "failed"} /\ ~request.awaited
  /\ request' = [pc |-> "free", message |-> Blank, awaited |-> FALSE]
  /\ UNCHANGED <<queueVars, agentVars, agent, faults>>

Next ==
  \/ UserStep
  \/ AgentStep
  \/ Handler
  \/ \E o \in Ops : ExecutorStep(o)
  \/ \E i \in Instances : RemoveInstance(i) \/ RemoveMisled(i) \/ LateCopy(i) \/ RunProvisioning(i)
  \/ Crash \/ Timeout \/ DiscardOrphan

Spec == Init /\ [][Next]_vars

-----------------------------------------------------------------------------
(* Safety *)

\* Two administrators cannot send one instance two ways at once.
OneMigrationPerInstance ==
  \A a, b \in Migrations :
    a # b /\ IsActive(a) /\ IsActive(b) /\ operations[a].instance # None
      => operations[a].instance # operations[b].instance

\* A migration was rolled back over what had become of the instance since.
Overturned(i) == \E m \in Migrations : executors[m] = "overturned" /\ operations[m].owner = i

\* The directory the Agent's record names is never deleted nor missing, whatever
\* clean-ups, refused migrations, removals, crashes and copies that outlive their
\* executor come in between; only a migration rolled back over what happened since,
\* or one that took such a copy for its own, can bring that about.
DataKeptUnlessMislaid ==
  \A i \in Instances : record[i] # None /\ ~Overturned(i) /\ i \notin astray => i \in dirs[record[i]]

\* A migration the Controller shows as completed took the instance to its target,
\* where the instance is until another migration takes it on or it is removed;
\* unless a migration was rolled back over what happened since.
CompletedMoved ==
  \A m \in Migrations :
    LET i == operations[m].owner
    IN  operations[m].status = "completed" /\ ~Overturned(i) =>
          \/ record[i] \in {operations[m].target, None}
          \/ \E d \in Migrations : operations[d].owner = i /\ operations[d].source = operations[m].target

\* An instance the Controller has deleted is not registered on the Agent.
GoneIsGone == \A i \in Instances \ live : record[i] = None

\* What a pool holds and what is promised of it fit into it.
NeverOversubscribed ==
  \A p \in Pools :
    Cardinality(dirs[p] \cup ReservedByProvisioning(p) \cup {operations[m].owner : m \in ReservedByMigrations(p)})
      <= Capacity

-----------------------------------------------------------------------------
(* Liveness *)

Fairness ==
  /\ WF_vars(SampleTelemetry) /\ WF_vars(SendHeartbeat) /\ WF_vars(Receive)
  /\ WF_vars(Stage) /\ WF_vars(Clear)
  /\ WF_vars(Handler) /\ WF_vars(DiscardOrphan)
  /\ \A o \in Ops : WF_vars(ExecutorStep(o))
  /\ \A i \in Instances : WF_vars(RunProvisioning(i))

FairSpec == Spec /\ Fairness

\* A result of an operation whose instance was deleted, or of one that lost its
\* executor: neither is ever replaced.
Orphaned == \E o \in Ops : results[o] # "none" /\ operations[o].instance = None
Abandoned == \E o \in Ops : results[o] = "running" /\ executors[o] = "none"

\* The Agent's heartbeats are answered again and again.
HeartbeatsAnswered == []<>(agent.pc = "stage")

\* Only a result whose instance was deleted keeps them from it.
AnsweredUnlessOrphaned == HeartbeatsAnswered \/ <>[]Orphaned

\* An operation ends, loses its instance, or waits behind an abandoned result.
OperationsSettle ==
  \A o \in Ops : Offered(o) ~> (~Offered(o) \/ Orphaned \/ Abandoned)

=============================================================================
