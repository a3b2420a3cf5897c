--------------------------- MODULE BackupExchange ---------------------------
(***************************************************************************)
(* Backups of one instance end to end: heartbeats carry the Agent's result *)
(* files up (dashboard/agent_heartbeat_api.py:246-248) and the pending     *)
(* jobs down; the Agent's loop runs them one after the other               *)
(* (agents/linux/runtime/backup_client.py), over the archives, the         *)
(* instance's directory and the copy a restore sets aside.  The server is  *)
(* started and stopped by the lifecycle operations of InstanceRuntime.     *)
(***************************************************************************)
EXTENDS BackupQueue, Sequences

CONSTANTS
  RequestIds,  \* heartbeats that may be in flight at once
  MaxReports,  \* results one heartbeat carries (500)
  Keep,        \* retention_count
  MaxFaults    \* bound on crashes, lost requests, timeouts and unwritable results

ASSUME BackupAssumption ==
  MaxReports \in Nat \ {0} /\ Keep \in Nat \ {0} /\ MaxFaults \in Nat

VARIABLES
  results,   \* the status in the result file of a job, "none" without a file
  runs,      \* how often a job was begun
  archives,  \* the archives of the instance, oldest first
  root,      \* the instance's directory
  previous,  \* its .c5-previous
  server,    \* is the game server running
  kept,      \* history: the restore whose world is to be kept, NoJob at first
  agent,     \* the daemon's loop
  requests,  \* heartbeats in flight and the threads serving them
  faults

diskVars == <<results, runs, archives, root, previous>>
vars == <<rows, diskVars, server, kept, agent, requests, faults>>

\* A directory tree: the restore that unpacked its world, and is it complete.
Tree == [world : Jobs \cup {NoJob}, whole : BOOLEAN]
None == [world |-> NoJob, whole |-> FALSE, absent |-> TRUE]
World(w) == [world |-> w, whole |-> TRUE]
Partial(t) == [t EXCEPT !.whole = FALSE]

Reports == [Jobs -> {"none", "running"} \cup Final]
Request == [pc : {"free", "record", "check", "insert", "list", "done"}, reports : Reports, cmds : SUBSET Jobs]
Free == [pc |-> "free", reports |-> [j \in Jobs |-> "none"], cmds |-> {}]

\* todo: commands of the answer not yet begun; job: the one at work; was: was the
\* server running before; moved: did the restore set the directory aside.
AgentPC == {"idle", "waiting", "next", "report"} \cup Actions
             \cup {"pack", "seal", "prune", "restart"}
             \cup {"halt", "unpack", "setaside", "activate", "launch", "discard", "discarded"}
             \cup {"undo", "erase", "putback", "revive"}
Agent == [pc : AgentPC, request : RequestIds \cup {"none"}, todo : SUBSET Jobs,
          job : Jobs \cup {NoJob}, was : BOOLEAN, moved : BOOLEAN, status : Final]
Idle == [pc |-> "idle", request |-> "none", todo |-> {}, job |-> NoJob,
         was |-> FALSE, moved |-> FALSE, status |-> "completed"]

TypeOK ==
  /\ QueueTypeOK
  /\ results \in Reports
  /\ runs \in [Jobs -> Nat]
  /\ archives \in Seq([job : Jobs, run : Nat, whole : BOOLEAN])
  /\ root \in Tree \cup {None} /\ previous \in Tree \cup {None}
  /\ server \in BOOLEAN
  /\ kept \in Jobs \cup {NoJob}
  /\ agent \in Agent
  /\ requests \in [RequestIds -> Request]
  /\ faults \in 0 .. MaxFaults

Init ==
  /\ QueueInit
  /\ results = [j \in Jobs |-> "none"]
  /\ runs = [j \in Jobs |-> 0]
  /\ archives = <<>>
  /\ root = World(NoJob) /\ previous = None
  /\ server \in BOOLEAN
  /\ kept = NoJob
  /\ agent = Idle
  /\ requests = [q \in RequestIds |-> Free]
  /\ faults = 0

-----------------------------------------------------------------------------
(* Users and operators *)

Order(j) == RequestBackup(j) \/ \E action \in {"restore", "delete"}, b \in Completed("create") : RequestFor(j, action, b)

UserStep ==
  /\ \E j \in Jobs : Order(j)
  /\ UNCHANGED <<diskVars, server, kept, agent, requests, faults>>

\* cap instance start and stop: a process of its own, at any time.
Operate ==
  /\ server' \in {FALSE, root # None}
  /\ UNCHANGED <<rows, diskVars, kept, agent, requests, faults>>

-----------------------------------------------------------------------------
(* The Agent's loop *)

Fault == faults < MaxFaults /\ faults' = faults + 1
Go(pc) == agent' = [agent EXCEPT !.pc = pc]

\* Mutant: a failure is reported under a name of its own.
FailAborted(pc) == agent' = [agent EXCEPT !.pc = pc, !.status = "aborted"]

Fail(pc) == agent' = [agent EXCEPT !.pc = pc, !.status = "failed"]

\* backup_state: the result files in the order of their names, the last ones only.
Reported == [j \in Jobs |-> IF Cardinality({k \in Jobs : k > j /\ results[k] # "none"}) < MaxReports
                            THEN results[j] ELSE "none"]

SendHeartbeat(q) ==
  /\ agent.pc = "idle" /\ requests[q] = Free
  /\ agent' = [Idle EXCEPT !.pc = "waiting", !.request = q]
  /\ requests' = [requests EXCEPT ![q] = [Free EXCEPT !.pc = "record", !.reports = Reported]]
  /\ UNCHANGED <<rows, diskVars, server, kept, faults>>

Receive(q) ==
  /\ agent.pc = "waiting" /\ agent.request = q /\ requests[q].pc = "done"
  /\ agent' = [Idle EXCEPT !.pc = "next", !.todo = requests[q].cmds]
  /\ requests' = [requests EXCEPT ![q] = Free]
  /\ UNCHANGED <<rows, diskVars, server, kept, faults>>

\* The commands come in the order in which they were requested.
IsNext(j) == j \in agent.todo /\ \A k \in agent.todo : rows[j].created <= rows[k].created

\* A job that ended is only reported again; any other is begun.
Begin(j) ==
  /\ agent.pc = "next" /\ IsNext(j)
  /\ IF results[j] \in Final
     THEN /\ agent' = [agent EXCEPT !.todo = @ \ {j}]
          /\ UNCHANGED <<results, runs>>
     ELSE /\ results' = [results EXCEPT ![j] = "running"]
          /\ runs' = [runs EXCEPT ![j] = @ + 1]
          /\ agent' = [Idle EXCEPT !.pc = rows[j].action, !.job = j, !.todo = agent.todo \ {j}]
  /\ UNCHANGED <<archives, root, previous, server, kept>>

Done ==
  /\ agent.pc = "next" /\ agent.todo = {}
  /\ agent' = Idle
  /\ UNCHANGED <<diskVars, server, kept>>

Report ==
  /\ agent.pc = "report"
  /\ results' = [results EXCEPT ![agent.job] = agent.status]
  /\ agent' = [Idle EXCEPT !.pc = "next", !.todo = agent.todo]
  /\ UNCHANGED <<runs, archives, root, previous, server, kept>>

\* A result file that cannot be written ends the whole heartbeat.
WriteFails ==
  /\ agent.pc = "report" \/ (agent.pc = "next" /\ agent.todo # {})
  /\ Fault
  /\ agent' = Idle
  /\ UNCHANGED <<rows, diskVars, server, kept, requests>>

-----------------------------------------------------------------------------
(* create: every step may fail, and then the job does *)

\* Without the directory, or under a policy that cannot be met, it fails at once;
\* a stopped backup stops a running server, a live one does not.
Create ==
  /\ agent.pc = "create"
  /\ \/ Fail("report") /\ UNCHANGED server
     \/ root # None /\ Go("pack") /\ UNCHANGED server
     \/ root # None /\ server /\ server' = FALSE /\ agent' = [agent EXCEPT !.pc = "pack", !.was = TRUE]
     \/ root # None /\ server /\ server' \in BOOLEAN /\ Fail("report")
  /\ UNCHANGED <<diskVars, kept>>

\* The archive is written in place: it is incomplete until it is sealed.
Pack ==
  /\ agent.pc = "pack"
  /\ \/ /\ archives' = Append(archives, [job |-> agent.job, run |-> runs[agent.job], whole |-> FALSE])
        /\ Go("seal")
     \/ Fail("restart") /\ UNCHANGED archives
  /\ UNCHANGED <<results, runs, root, previous, server, kept>>

Seal ==
  /\ agent.pc = "seal"
  /\ \/ archives' = [archives EXCEPT ![Len(archives)].whole = TRUE] /\ Go("prune")
     \/ Fail("restart") /\ UNCHANGED archives
  /\ UNCHANGED <<results, runs, root, previous, server, kept>>

\* _retention keeps the newest archives and counts every one, also an incomplete one.
Newest(all) == SubSeq(all, IF Len(all) > Keep THEN Len(all) - Keep + 1 ELSE 1, Len(all))

\* Mutant: retention also follows a backup that failed.
PruneAlways ==
  /\ agent.pc \in {"prune", "restart"}
  /\ archives' = Newest(archives)
  /\ IF agent.was THEN server' = TRUE ELSE UNCHANGED server
  /\ Go("report")
  /\ UNCHANGED <<results, runs, root, previous, kept>>

Prune ==
  /\ agent.pc = "prune"
  /\ \/ archives' = Newest(archives) /\ Go("restart")
     \/ Fail("restart") /\ UNCHANGED archives
  /\ UNCHANGED <<results, runs, root, previous, server, kept>>

\* The finally clause: a start that fails makes the backup a failed one.
Restart ==
  /\ agent.pc = "restart"
  /\ \/ ~agent.was /\ Go("report") /\ UNCHANGED server
     \/ agent.was /\ server' = TRUE /\ Go("report")
     \/ agent.was /\ server' \in BOOLEAN /\ Fail("report")
  /\ UNCHANGED <<diskVars, kept>>

-----------------------------------------------------------------------------
(* delete *)

\* The archive of backup b under the id its job reported.
IsArchiveOf(a, b) == a.job = b /\ a.run = runs[b]
HasArchive(b) == \E k \in DOMAIN archives : IsArchiveOf(archives[k], b)

\* The archive at place k is gone, the others keep their order.
Without(k) == [i \in 1 .. Len(archives) - 1 |-> archives[IF i < k THEN i ELSE i + 1]]

\* An archive that is gone already counts as deleted.
Delete ==
  /\ agent.pc = "delete"
  /\ \/ /\ root # None
        /\ \/ \E k \in DOMAIN archives : IsArchiveOf(archives[k], rows[agent.job].backup) /\ archives' = Without(k)
           \/ ~HasArchive(rows[agent.job].backup) /\ UNCHANGED archives
        /\ Go("report")
     \/ Fail("report") /\ UNCHANGED archives
  /\ UNCHANGED <<results, runs, root, previous, server, kept>>

-----------------------------------------------------------------------------
(* restore *)

\* Nothing is touched when something a restore needs is missing, or when an earlier
\* one left its copy of the directory behind.
Restore ==
  /\ agent.pc = "restore"
  /\ \/ Fail("report")
     \/ /\ root # None /\ HasArchive(rows[agent.job].backup) /\ previous = None
        /\ agent' = [agent EXCEPT !.pc = IF server THEN "halt" ELSE "unpack", !.was = server]
  /\ UNCHANGED <<diskVars, server, kept>>

Halt ==
  /\ agent.pc = "halt"
  /\ \/ server' = FALSE /\ Go("unpack")
     \/ server' \in BOOLEAN /\ Fail("report")
  /\ UNCHANGED <<diskVars, kept>>

\* A stage that cannot be made fails before the try, and nothing restarts the server.
Unpack ==
  /\ agent.pc = "unpack"
  /\ \/ Go("setaside")
     \/ Fail("undo") \/ Fail("report")
  /\ UNCHANGED <<diskVars, server, kept>>

SetAside ==
  /\ agent.pc = "setaside"
  /\ \/ /\ previous' = root /\ root' = None
        /\ agent' = [agent EXCEPT !.pc = "activate", !.moved = TRUE]
     \/ Fail("undo") /\ UNCHANGED <<root, previous>>
  /\ UNCHANGED <<results, runs, archives, server, kept>>

Activate ==
  /\ agent.pc = "activate"
  /\ \/ root' = World(agent.job) /\ Go("launch")
     \/ Fail("undo") /\ UNCHANGED root
  /\ UNCHANGED <<results, runs, archives, previous, server, kept>>

\* From here on the restored world is the one to keep.
Launch ==
  /\ agent.pc = "launch"
  /\ \/ /\ IF agent.was THEN server' = TRUE ELSE UNCHANGED server
        /\ kept' = agent.job
        /\ Go("discard")
     \/ agent.was /\ server' \in BOOLEAN /\ Fail("undo") /\ UNCHANGED kept
  /\ UNCHANGED diskVars

\* A copy that cannot be removed whole stays, and the restore is completed.
Discard ==
  /\ agent.pc = "discard"
  /\ \/ previous' = Partial(previous) /\ Go("discarded")
     \/ Go("report") /\ UNCHANGED previous
  /\ UNCHANGED <<results, runs, archives, root, server, kept>>

Discarded ==
  /\ agent.pc = "discarded"
  /\ Go("report")
  /\ \/ previous' = None
     \/ UNCHANGED previous
  /\ UNCHANGED <<results, runs, archives, root, server, kept>>

\* Mutant: the directory is removed whether it was set aside or not.
UndoAlways ==
  /\ agent.pc = "undo"
  /\ IF root # None THEN root' = Partial(root) /\ Go("erase")
                    ELSE Go("putback") /\ UNCHANGED root
  /\ UNCHANGED <<results, runs, archives, previous, server, kept>>

\* The rollback: remove what is in the directory's place, put the copy back, start.
Undo ==
  /\ agent.pc = "undo"
  /\ \/ ~agent.moved /\ Go("revive") /\ UNCHANGED root
     \/ agent.moved /\ root # None /\ root' = Partial(root) /\ Go("erase")
     \/ agent.moved /\ root = None /\ Go("putback") /\ UNCHANGED root
     \/ agent.moved /\ root # None /\ Go("revive") /\ UNCHANGED root
  /\ UNCHANGED <<results, runs, archives, previous, server, kept>>

Erase ==
  /\ agent.pc = "erase"
  /\ \/ root' = None /\ Go("putback")
     \/ Go("revive") /\ UNCHANGED root
  /\ UNCHANGED <<results, runs, archives, previous, server, kept>>

PutBack ==
  /\ agent.pc = "putback"
  /\ \/ root' = previous /\ previous' = None
     \/ UNCHANGED <<root, previous>>
  /\ Go("revive")
  /\ UNCHANGED <<results, runs, archives, server, kept>>

Revive ==
  /\ agent.pc = "revive"
  /\ \/ ~agent.was /\ UNCHANGED server
     \/ agent.was /\ (IF root = None THEN UNCHANGED server ELSE server' = TRUE)
     \/ agent.was /\ server' \in BOOLEAN
  /\ Go("report")
  /\ UNCHANGED <<diskVars, kept>>

AgentStep ==
  /\ \/ (\E j \in Jobs : Begin(j)) \/ Done \/ Report
     \/ Create \/ Pack \/ Seal \/ Prune \/ Restart \/ Delete
     \/ Restore \/ Halt \/ Unpack \/ SetAside \/ Activate \/ Launch \/ Discard \/ Discarded
     \/ Undo \/ Erase \/ PutBack \/ Revive
  /\ UNCHANGED <<rows, requests, faults>>

-----------------------------------------------------------------------------
(* A Controller thread serving request q *)

Update(q, r) == requests' = [requests EXCEPT ![q] = r]

\* Mutant: the commands are listed before the reports are recorded.
RecordLast(q) ==
  /\ requests[q].pc = "record"
  /\ RecordStates(requests[q].reports)
  /\ Update(q, [Free EXCEPT !.pc = "done", !.cmds = Pending])

Record(q) ==
  /\ requests[q].pc = "record"
  /\ RecordStates(requests[q].reports)
  /\ Update(q, [Free EXCEPT !.pc = "check"])

\* schedule_due reads first and inserts in a transaction of its own.
Check(q) ==
  /\ requests[q].pc = "check"
  /\ \E pc \in {"list"} \cup (IF MayBeDue THEN {"insert"} ELSE {}) : Update(q, [requests[q] EXCEPT !.pc = pc])
  /\ UNCHANGED rows

Schedule(q) ==
  /\ requests[q].pc = "insert"
  /\ (\E j \in Jobs : RequestBackup(j)) \/ (Unused = {} /\ UNCHANGED rows)
  /\ Update(q, [requests[q] EXCEPT !.pc = "list"])

List(q) ==
  /\ requests[q].pc = "list"
  /\ Update(q, [requests[q] EXCEPT !.pc = "done", !.cmds = Pending])
  /\ UNCHANGED rows

Handler(q) ==
  /\ Record(q) \/ Check(q) \/ Schedule(q) \/ List(q)
  /\ UNCHANGED <<diskVars, server, kept, agent, faults>>

-----------------------------------------------------------------------------
(* Faults *)

AwaitedBy(q) == agent.pc = "waiting" /\ agent.request = q

Crash ==
  /\ agent # Idle /\ Fault
  /\ agent' = Idle
  /\ UNCHANGED <<rows, diskVars, server, kept, requests>>

\* urlopen gives up; the request is still served.
Timeout ==
  /\ agent.pc = "waiting" /\ Fault
  /\ agent' = Idle
  /\ UNCHANGED <<rows, diskVars, server, kept, requests>>

Lose(q) ==
  /\ requests[q].pc # "free" /\ Fault
  /\ Update(q, Free)
  /\ agent' = IF AwaitedBy(q) THEN Idle ELSE agent
  /\ UNCHANGED <<rows, diskVars, server, kept>>

DiscardOrphan(q) ==
  /\ requests[q].pc = "done" /\ ~AwaitedBy(q)
  /\ Update(q, Free)
  /\ UNCHANGED <<rows, diskVars, server, kept, agent, faults>>

Next ==
  \/ UserStep \/ Operate \/ AgentStep \/ WriteFails \/ Crash \/ Timeout
  \/ \E q \in RequestIds : SendHeartbeat(q) \/ Receive(q) \/ Handler(q) \/ Lose(q) \/ DiscardOrphan(q)

Spec == Init /\ [][Next]_vars

\* The loop and the Controller's threads run on; users, operators and faults need not.
Fairness ==
  /\ WF_vars(AgentStep)
  /\ \A q \in RequestIds : /\ WF_vars(SendHeartbeat(q))
                           /\ WF_vars(Receive(q))
                           /\ WF_vars(Handler(q))
                           /\ WF_vars(DiscardOrphan(q))

FairSpec == Spec /\ Fairness

-----------------------------------------------------------------------------
(* Properties *)

\* A result that MaxReports files with later names keep out of every heartbeat.
Unreported(j) == results[j] # "none" /\ Reported[j] = "none"

\* A job left at running on the Agent is not begun again, although its command would
\* be: the heartbeat records what it reports before it lists what is pending, so only
\* a result that no heartbeat carries lets a backup or a restore run twice
\* (agent_heartbeat_api.py:246-248, backup_client.py:489).
RunsOnce == \A j \in Jobs : runs[j] > 1 => Unreported(j)

\* The world of the last restore that succeeded, or the first one, is at every moment
\* whole in the instance's directory or beside it, whatever fails or dies half way
\* (backup_client.py:280-351).
WorldSurvives == World(kept) \in {root, previous}

\* The newest backup the Controller ever saw completed is on the Agent's disk, unless
\* a delete was carried out or a later whole archive took its place
\* (backup_client.py:177-235, backup_repository.py:167-169).
Latest(j) == j \in Completed("create") /\ \A k \in Completed("create") : rows[k].created <= rows[j].created
LatestIsRestorable ==
  \A j \in Jobs : Latest(j) =>
    \/ \E k \in DOMAIN archives :
         /\ archives[k].whole
         /\ IsArchiveOf(archives[k], j) \/ rows[archives[k].job].created > rows[j].created
    \/ \E d \in Jobs : rows[d].action = "delete" /\ rows[d].backup = j /\ runs[d] > 0

\* Every job ends at the Controller, except one that the Agent left at running and one
\* whose result no heartbeat carries (backup_repository.py:383-396).
Interrupted(j) == results[j] = "running" /\ agent.job # j
SettlesUnlessStranded == \A j \in Jobs : IsActive(j) ~> (~IsActive(j) \/ Interrupted(j) \/ Unreported(j))

\* What the code does not keep: every job ends; the scheduler adds a job only when
\* none is under way; a listed backup can be restored; the instance's directory
\* always exists; it is never replaced under a running server.
EveryJobSettles == \A j \in Jobs : IsActive(j) ~> ~IsActive(j)
SchedulesOnlyWhenFree ==
  [][\A q \in RequestIds : Schedule(q) /\ Unused # {} => \A j \in Jobs : ~IsActive(j)]_vars
ListedIsRestorable ==
  \A j \in Listed : \/ HasArchive(j)
                    \/ \E d \in Jobs : rows[d].action = "delete" /\ rows[d].backup = j /\ runs[d] > 0
DirectoryAlwaysThere == root # None
NeverReplacedUnderServer == [][root' # root => ~server /\ ~server']_vars

=============================================================================
