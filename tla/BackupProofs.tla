---------------------------- MODULE BackupProofs ----------------------------
(***************************************************************************)
(* Proofs about BackupExchange, for any number of jobs, heartbeats, kept   *)
(* archives and faults: types, the world that survives every restore, the  *)
(* job that is begun once as long as its result is reported, the verdict   *)
(* that stands, and the newest backup that stays restorable.               *)
(***************************************************************************)
EXTENDS BackupExchange, FiniteSetTheorems, SequenceTheorems, TLAPS

USE BackupJobsAssumption, BackupAssumption

-----------------------------------------------------------------------------
(* Types, of what the two properties depend on *)

Typed ==
  /\ QueueTypeOK
  /\ results \in Reports
  /\ runs \in [Jobs -> Nat]
  /\ server \in BOOLEAN
  /\ kept \in Jobs \cup {NoJob}
  /\ agent \in Agent
  /\ requests \in [RequestIds -> Request]

\* A job is at work between its two results.
AtWork == agent.pc \notin {"idle", "waiting", "next"}
WorksOnJob == AtWork => agent.job \in Jobs /\ results[agent.job] # "none"

LEMMA InitTyped == Init => Typed /\ WorksOnJob
  BY DEF Init, Typed, WorksOnJob, AtWork, QueueInit, QueueTypeOK, Row, Actions, Active, Final, Reports, Agent, AgentPC, Idle,
         Request, Free

\* A new row is pending; every other row stays.
LEMMA InsertShape ==
  ASSUME Typed, NEW j \in Jobs, NEW action \in Actions, NEW b \in Jobs \cup {NoJob}, Insert(j, action, b)
  PROVE  /\ rows[j].status = "none" /\ rows'[j].status = "pending"
         /\ \A k \in Jobs \ {j} : rows'[k] = rows[k]
         /\ QueueTypeOK'
  <1>1. rows \in [Jobs -> Row] /\ rows[j].status = "none"
    BY DEF Typed, QueueTypeOK, Insert, Unused
  <1>2. Cardinality(Jobs \ Unused) + 1 \in Nat
    <2>1. IsFiniteSet(Jobs \ Unused)
      BY FS_Subset
    <2> QED BY <2>1, FS_CardinalityType
  <1>3. PICK n \in Nat : rows' = [rows EXCEPT ![j] = [status |-> "pending", action |-> action, backup |-> b, created |-> n]]
    BY <1>2 DEF Insert
  <1> QED BY <1>1, <1>3 DEF QueueTypeOK, Row, Active

LEMMA OrderShape ==
  ASSUME Typed, NEW j \in Jobs, Order(j)
  PROVE  /\ rows[j].status = "none" /\ rows'[j].status = "pending"
         /\ \A k \in Jobs \ {j} : rows'[k] = rows[k]
         /\ QueueTypeOK'
  <1>1. CASE RequestBackup(j)
    BY <1>1, InsertShape DEF RequestBackup, Actions
  <1>2. ASSUME NEW action \in {"restore", "delete"}, NEW b \in Completed("create"), RequestFor(j, action, b)
        PROVE  \E a \in Actions, c \in Jobs \cup {NoJob} : Insert(j, a, c)
    BY <1>2 DEF RequestFor, Completed, Actions
  <1> QED BY <1>1, <1>2, InsertShape DEF Order

\* A report overwrites the status of a row that exists.
LEMMA RecordShape ==
  ASSUME Typed, NEW q \in RequestIds, RecordStates(requests[q].reports)
  PROVE  /\ \A j \in Jobs : /\ requests[q].reports[j] \in {"none", "running"} \cup Final
                            /\ rows[j].status = "none" => rows'[j].status = "none"
                            /\ rows[j].status # "none" =>
                                 rows'[j].status = IF requests[q].reports[j] = "none" THEN rows[j].status
                                                                                     ELSE requests[q].reports[j]
         /\ QueueTypeOK'
  <1>1. rows \in [Jobs -> Row] /\ requests[q].reports \in Reports
    BY DEF Typed, QueueTypeOK, Request
  <1>2. \A j \in Jobs : rows'[j] = IF rows[j].status # "none" /\ requests[q].reports[j] # "none"
                                   THEN [rows[j] EXCEPT !.status = requests[q].reports[j]] ELSE rows[j]
    BY DEF RecordStates
  <1>3. rows' = [j \in Jobs |-> rows'[j]]
    BY DEF RecordStates
  <1>4. ASSUME NEW j \in Jobs PROVE rows'[j] \in Row
    <2>1. rows[j] \in Row /\ requests[q].reports[j] \in {"none", "running"} \cup Final
      BY <1>1 DEF Reports
    <2>2. requests[q].reports[j] # "none" => [rows[j] EXCEPT !.status = requests[q].reports[j]] \in Row
      BY <2>1 DEF Row, Active
    <2> QED BY <1>2, <2>1, <2>2
  <1> QED BY <1>1, <1>2, <1>3, <1>4 DEF QueueTypeOK, Reports, Row

-----------------------------------------------------------------------------
(* What one step of the loop does to the result files and to the loop *)

\* A step between the two results of a job.
Works ==
  /\ AtWork /\ AtWork'
  /\ UNCHANGED <<results, runs>>
  /\ agent' = [agent EXCEPT !.pc = agent'.pc, !.was = agent'.was, !.moved = agent'.moved, !.status = agent'.status]
  /\ agent'.pc \in AgentPC /\ agent'.was \in BOOLEAN /\ agent'.moved \in BOOLEAN /\ agent'.status \in Final

\* Of every step but the first and the last one of a job.
JobStep ==
  \/ Create \/ Pack \/ Seal \/ Prune \/ Restart \/ Delete
  \/ Restore \/ Halt \/ Unpack \/ SetAside \/ Activate \/ Launch \/ Discard \/ Discarded
  \/ Undo \/ Erase \/ PutBack \/ Revive

LEMMA JobStepShape ==
  ASSUME Typed, JobStep
  PROVE  Works /\ server' \in BOOLEAN /\ kept' \in Jobs \cup {NoJob, agent.job}
  <1>1. agent \in Agent /\ server \in BOOLEAN /\ kept \in Jobs \cup {NoJob}
    BY DEF Typed
  <1>2. CASE Create \/ Restart \/ Delete \/ Pack \/ Seal \/ Prune
    BY <1>1, <1>2 DEF Create, Restart, Delete, Pack, Seal, Prune, Go, Fail, Works, AtWork, Agent, AgentPC, Actions, Final, diskVars
  <1>3. CASE Restore \/ Halt \/ Unpack \/ SetAside \/ Activate
    BY <1>1, <1>3 DEF Restore, Halt, Unpack, SetAside, Activate, Go, Fail, Works, AtWork, Agent, AgentPC, Actions, Final, diskVars
  <1>4. CASE Launch \/ Discard \/ Discarded
    BY <1>1, <1>4 DEF Launch, Discard, Discarded, Go, Fail, Works, AtWork, Agent, AgentPC, Actions, Final, diskVars
  <1>5. CASE Undo \/ Erase \/ PutBack \/ Revive
    BY <1>1, <1>5 DEF Undo, Erase, PutBack, Revive, Go, Fail, Works, AtWork, Agent, AgentPC, Actions, Final, diskVars
  <1> QED BY <1>2, <1>3, <1>4, <1>5 DEF JobStep

LEMMA BeginShape ==
  ASSUME Typed, NEW j \in Jobs, Begin(j)
  PROVE  /\ j \in agent.todo /\ agent'.todo = agent.todo \ {j} /\ agent' \in Agent
         /\ \/ agent'.pc = "next" /\ UNCHANGED <<results, runs>>
            \/ /\ results[j] \notin Final
               /\ results' = [results EXCEPT ![j] = "running"] /\ runs' = [runs EXCEPT ![j] = @ + 1]
               /\ agent'.job = j /\ agent'.pc \in Actions /\ ~agent'.moved
         /\ UNCHANGED <<server, kept, root, previous>>
  <1>1. agent \in Agent /\ rows[j].action \in Actions
    BY DEF Typed, QueueTypeOK, Row
  <1>2. CASE results[j] \in Final
    <2>1. agent' = [agent EXCEPT !.todo = agent.todo \ {j}] /\ agent.pc = "next" /\ j \in agent.todo
      BY <1>2 DEF Begin, IsNext
    <2> QED BY <1>1, <1>2, <2>1 DEF Begin, Agent
  <1>3. CASE results[j] \notin Final
    <2>1. agent' = [Idle EXCEPT !.pc = rows[j].action, !.job = j, !.todo = agent.todo \ {j}] /\ j \in agent.todo
      BY <1>3 DEF Begin, IsNext
    <2> QED BY <1>1, <1>3, <2>1 DEF Begin, Agent, AgentPC, Idle, Final
  <1> QED BY <1>2, <1>3

LEMMA ReportShape ==
  ASSUME Typed, WorksOnJob, Report
  PROVE  /\ agent.job \in Jobs /\ results[agent.job] # "none" /\ agent.status \in Final
         /\ results' = [results EXCEPT ![agent.job] = agent.status]
         /\ agent'.todo = agent.todo /\ agent'.pc = "next" /\ agent' \in Agent
         /\ UNCHANGED <<runs, server, kept, root, previous>>
  <1>1. agent \in Agent
    BY DEF Typed
  <1> QED BY <1>1 DEF Report, WorksOnJob, AtWork, Agent, AgentPC, Idle, Final

LEMMA StepTyped ==
  ASSUME Typed, WorksOnJob, [Next]_vars
  PROVE  Typed' /\ WorksOnJob'
  <1>1. agent \in Agent /\ Idle \in Agent /\ requests \in [RequestIds -> Request] /\ results \in Reports
    BY DEF Typed, Agent, AgentPC, Idle, Final
  <1>2. Free \in Request /\ Idle.pc = "idle"
    BY DEF Free, Request, Reports, Idle
  <1>3. CASE UserStep
    BY <1>3, OrderShape DEF UserStep, Typed, WorksOnJob, AtWork, diskVars
  <1>4. CASE Operate
    BY <1>4 DEF Operate, Typed, WorksOnJob, AtWork, diskVars, QueueTypeOK
  <1>5. CASE AgentStep
    <2>1. QueueTypeOK' /\ requests' \in [RequestIds -> Request]
      BY <1>1, <1>5 DEF AgentStep, Typed, QueueTypeOK
    <2>2. ASSUME NEW j \in Jobs, Begin(j)
          PROVE  agent' \in Agent /\ results' \in Reports /\ runs' \in [Jobs -> Nat] /\ WorksOnJob' /\ UNCHANGED <<server, kept>>
      BY <1>1, <2>2, BeginShape DEF Typed, Reports, WorksOnJob, AtWork, Actions
    <2>3. CASE Report
      <3>1. /\ agent' \in Agent /\ agent'.pc = "next" /\ UNCHANGED <<runs, server, kept>>
            /\ agent.status \in Final /\ results' = [results EXCEPT ![agent.job] = agent.status]
        BY <2>3, ReportShape
      <3>2. results' \in Reports
        BY <1>1, <3>1 DEF Reports
      <3> QED BY <2>1, <3>1, <3>2 DEF Typed, WorksOnJob, AtWork
    <2>4. CASE Done
      BY <1>1, <1>2, <2>1, <2>4 DEF Done, Typed, WorksOnJob, AtWork, diskVars
    <2>5. CASE JobStep
      <3>1. Works /\ server' \in BOOLEAN /\ kept' \in Jobs \cup {NoJob, agent.job}
        BY <2>5, JobStepShape
      <3>2. agent' \in Agent /\ agent'.job = agent.job
        BY <1>1, <3>1 DEF Works, Agent
      <3>3. kept' \in Jobs \cup {NoJob}
        BY <1>1, <3>1 DEF Agent
      <3>4. UNCHANGED <<results, runs>> /\ AtWork
        BY <3>1 DEF Works
      <3>5. WorksOnJob'
        BY <3>2, <3>4 DEF WorksOnJob
      <3> QED BY <1>1, <2>1, <3>1, <3>2, <3>3, <3>4, <3>5 DEF Typed
    <2> QED BY <1>5, <2>1, <2>2, <2>3, <2>4, <2>5 DEF AgentStep, JobStep, Typed
  <1>6. CASE WriteFails \/ Crash \/ Timeout
    BY <1>1, <1>2, <1>6 DEF WriteFails, Crash, Timeout, Typed, WorksOnJob, AtWork, diskVars, QueueTypeOK
  <1>7. ASSUME NEW q \in RequestIds, SendHeartbeat(q) PROVE Typed' /\ WorksOnJob'
    <2>1. Reported \in Reports
      BY <1>1 DEF Reported, Reports
    <2>2. agent' \in Agent /\ agent'.pc = "waiting"
      BY <1>7, <1>1 DEF SendHeartbeat, Agent, AgentPC, Idle
    <2>3. [Free EXCEPT !.pc = "record", !.reports = Reported] \in Request
      BY <2>1, <1>2 DEF Request, Free
    <2> QED BY <1>1, <1>7, <2>2, <2>3 DEF SendHeartbeat, Typed, WorksOnJob, AtWork, diskVars, QueueTypeOK
  <1>8. ASSUME NEW q \in RequestIds, Receive(q) PROVE Typed' /\ WorksOnJob'
    <2>1. agent' = [Idle EXCEPT !.pc = "next", !.todo = requests[q].cmds] /\ requests[q].cmds \subseteq Jobs
      BY <1>1, <1>8 DEF Receive, Request
    <2>2. agent' \in Agent /\ agent'.pc = "next"
      BY <2>1 DEF Agent, AgentPC, Idle, Final
    <2> QED BY <1>1, <1>2, <1>8, <2>2 DEF Receive, Typed, WorksOnJob, AtWork, diskVars, QueueTypeOK
  <1>9. ASSUME NEW q \in RequestIds, Handler(q) PROVE Typed' /\ WorksOnJob'
    <2>1. UNCHANGED <<results, runs, server, kept, agent>>
      BY <1>9 DEF Handler, diskVars
    <2>2. CASE Record(q)
      BY <1>1, <1>2, <2>1, <2>2, RecordShape DEF Record, Update, Typed, WorksOnJob, AtWork, Request, Free
    <2>3. CASE Check(q)
      BY <1>1, <2>1, <2>3 DEF Check, Update, Typed, WorksOnJob, AtWork, Request, QueueTypeOK
    <2>4. CASE Schedule(q)
      <3>1. QueueTypeOK'
        BY <2>4, InsertShape DEF Schedule, RequestBackup, Typed, QueueTypeOK, Actions
      <3> QED BY <1>1, <2>1, <2>4, <3>1 DEF Schedule, Update, Typed, WorksOnJob, AtWork, Request
    <2>5. CASE List(q)
      BY <1>1, <2>1, <2>5 DEF List, Pending, Update, Typed, WorksOnJob, AtWork, Request, QueueTypeOK
    <2> QED BY <1>9, <2>2, <2>3, <2>4, <2>5 DEF Handler
  <1>10. ASSUME NEW q \in RequestIds, Lose(q) \/ DiscardOrphan(q) PROVE Typed' /\ WorksOnJob'
    <2>1. requests' = [requests EXCEPT ![q] = Free] /\ agent' \in {agent, Idle}
          /\ UNCHANGED <<rows, results, runs, server, kept>>
      BY <1>10 DEF Lose, DiscardOrphan, Update, diskVars
    <2> QED BY <1>1, <1>2, <2>1 DEF Typed, WorksOnJob, AtWork, QueueTypeOK
  <1>11. CASE UNCHANGED vars
    BY <1>11 DEF vars, diskVars, Typed, WorksOnJob, AtWork, QueueTypeOK
  <1> QED BY <1>3, <1>4, <1>5, <1>6, <1>7, <1>8, <1>9, <1>10, <1>11 DEF Next

-----------------------------------------------------------------------------
(* The world that survives *)

\* Where the world to keep is, at every step of a restore and of its rollback.
WorldInv ==
  /\ WorldSurvives
  /\ agent.pc \in {"restore", "halt", "unpack", "setaside"} => ~agent.moved
  /\ agent.pc \in {"halt", "unpack", "setaside", "discard", "discarded"} => root = World(kept)
  /\ agent.pc \in {"activate", "launch"} => agent.moved /\ previous = World(kept)
  /\ agent.pc = "launch" => root = World(agent.job)
  /\ agent.pc = "undo" /\ agent.moved => previous = World(kept)
  /\ agent.pc \in {"erase", "putback"} => previous = World(kept)

\* A step that leaves the directories alone and is none of a restore's.
LEMMA WorldStands ==
  ASSUME WorldInv, UNCHANGED <<root, previous, kept>>,
         \/ UNCHANGED agent
         \/ agent'.pc \notin {"restore", "halt", "unpack", "setaside", "discard", "discarded", "activate",
                             "launch", "undo", "erase", "putback"}
         \/ agent'.pc = "restore" /\ ~agent'.moved
  PROVE  WorldInv'
  BY DEF WorldInv, WorldSurvives, World

LEMMA RestoreKeepsWorld ==
  ASSUME Typed, WorldInv, Restore \/ Halt \/ Unpack \/ SetAside \/ Activate \/ Launch \/ Discard \/ Discarded
  PROVE  WorldInv'
  <1>1. agent \in Agent
    BY DEF Typed
  <1>2. World(kept) # None
    BY DEF World, None
  <1>3. CASE Restore
    <2>1. CASE Fail("report")
      BY <1>1, <1>3, <2>1, WorldStands DEF Restore, Fail, Agent, diskVars
    <2>2. CASE ~Fail("report")
      <3>1. root = World(kept)
        BY <1>2, <1>3, <2>2 DEF Restore, WorldInv, WorldSurvives
      <3>2. /\ ~agent'.moved /\ agent'.pc \in {"halt", "unpack"} /\ UNCHANGED <<root, previous, kept>>
        BY <1>1, <1>3, <2>2 DEF Restore, WorldInv, Agent, diskVars
      <3> QED BY <3>1, <3>2 DEF WorldInv, WorldSurvives, World
    <2> QED BY <2>1, <2>2
  <1>4. CASE Halt
    <2>1. agent'.pc \in {"unpack", "report"} /\ agent'.moved = agent.moved /\ UNCHANGED <<root, previous, kept>>
      BY <1>1, <1>4 DEF Halt, Go, Fail, Agent, diskVars
    <2> QED BY <1>4, <2>1 DEF Halt, WorldInv, WorldSurvives, World
  <1>5. CASE Unpack
    <2>1. agent'.pc \in {"setaside", "undo", "report"} /\ agent'.moved = agent.moved /\ UNCHANGED <<root, previous, kept>>
      BY <1>1, <1>5 DEF Unpack, Go, Fail, Agent, diskVars
    <2> QED BY <1>5, <2>1 DEF Unpack, WorldInv, WorldSurvives, World
  <1>6. CASE SetAside
    <2>1. \/ agent'.pc = "activate" /\ agent'.moved /\ previous' = root /\ kept' = kept
          \/ agent'.pc = "undo" /\ agent'.moved = agent.moved /\ UNCHANGED <<root, previous, kept>>
      BY <1>1, <1>6 DEF SetAside, Fail, Agent
    <2> QED BY <1>6, <2>1 DEF SetAside, WorldInv, WorldSurvives, World
  <1>7. CASE Activate
    <2>1. /\ previous' = previous /\ kept' = kept /\ agent'.moved = agent.moved /\ agent'.job = agent.job
          /\ \/ agent'.pc = "launch" /\ root' = World(agent.job)
             \/ agent'.pc = "undo" /\ root' = root
      BY <1>1, <1>7 DEF Activate, Go, Fail, Agent
    <2> QED BY <1>7, <2>1 DEF Activate, WorldInv, WorldSurvives, World
  <1>8. CASE Launch
    <2>1. /\ UNCHANGED <<root, previous>> /\ agent'.moved = agent.moved
          /\ \/ agent'.pc = "discard" /\ kept' = agent.job
             \/ agent'.pc = "undo" /\ kept' = kept
      BY <1>1, <1>8 DEF Launch, Go, Fail, Agent, diskVars
    <2> QED BY <1>8, <2>1 DEF Launch, WorldInv, WorldSurvives, World
  <1>9. CASE Discard \/ Discarded
    <2>1. root' = root /\ kept' = kept /\ agent'.pc \in {"discarded", "report"}
      BY <1>1, <1>9 DEF Discard, Discarded, Go, Agent
    <2> QED BY <1>9, <2>1 DEF Discard, Discarded, WorldInv, WorldSurvives, World
  <1> QED BY <1>3, <1>4, <1>5, <1>6, <1>7, <1>8, <1>9

LEMMA RollbackKeepsWorld ==
  ASSUME Typed, WorldInv, Undo \/ Erase \/ PutBack \/ Revive
  PROVE  WorldInv'
  <1>1. agent \in Agent
    BY DEF Typed
  <1>2. CASE Undo
    <2>1. /\ UNCHANGED <<previous, kept>>
          /\ \/ agent.moved /\ agent'.pc \in {"erase", "putback"}
             \/ agent'.pc = "revive" /\ root' = root
      BY <1>1, <1>2 DEF Undo, Go, Agent
    <2> QED BY <1>2, <2>1 DEF Undo, WorldInv, WorldSurvives, World
  <1>3. CASE Erase
    <2>1. UNCHANGED <<previous, kept>> /\ agent'.pc \in {"putback", "revive"}
      BY <1>1, <1>3 DEF Erase, Go, Agent
    <2> QED BY <1>3, <2>1 DEF Erase, WorldInv, WorldSurvives, World
  <1>4. CASE PutBack
    <2>1. agent'.pc = "revive" /\ kept' = kept /\ (root' = previous \/ previous' = previous)
      BY <1>1, <1>4 DEF PutBack, Go, Agent
    <2> QED BY <1>4, <2>1 DEF PutBack, WorldInv, WorldSurvives, World
  <1>5. CASE Revive
    BY <1>1, <1>5, WorldStands DEF Revive, Go, Fail, Agent, diskVars
  <1> QED BY <1>2, <1>3, <1>4, <1>5

LEMMA WorldKept ==
  ASSUME Typed, WorksOnJob, WorldInv, [Next]_vars
  PROVE  WorldInv'
  <1>1. agent \in Agent /\ Idle.pc = "idle"
    BY DEF Typed, Idle
  <1>2. CASE UserStep \/ Operate \/ UNCHANGED vars \/ \E q \in RequestIds : Handler(q) \/ DiscardOrphan(q)
    BY <1>2, WorldStands DEF UserStep, Operate, Handler, DiscardOrphan, diskVars, vars
  <1>3. CASE WriteFails \/ Crash \/ Timeout \/ \E q \in RequestIds : Lose(q)
    <2>1. UNCHANGED <<root, previous, kept>> /\ agent' \in {agent, Idle}
      BY <1>3 DEF WriteFails, Crash, Timeout, Lose, diskVars
    <2> QED BY <1>1, <2>1, WorldStands
  <1>4. CASE \E q \in RequestIds : SendHeartbeat(q) \/ Receive(q)
    <2>1. UNCHANGED <<root, previous, kept>> /\ agent'.pc \in {"waiting", "next"}
      BY <1>4 DEF SendHeartbeat, Receive, Idle, diskVars
    <2> QED BY <2>1, WorldStands
  <1>5. CASE AgentStep
    <2>1. CASE Done
      BY <1>1, <2>1, WorldStands DEF Done, diskVars
    <2>2. CASE Report
      BY <2>2, ReportShape, WorldStands
    <2>3. CASE \E j \in Jobs : Begin(j)
      BY <2>3, BeginShape, WorldStands DEF Actions
    <2>4. CASE Create \/ Pack \/ Seal \/ Prune \/ Restart \/ Delete
      <3>1. UNCHANGED <<root, previous, kept>> /\ agent'.pc \in {"report", "pack", "seal", "prune", "restart"}
        BY <1>1, <2>4 DEF Create, Pack, Seal, Prune, Restart, Delete, Go, Fail, Agent, diskVars
      <3> QED BY <3>1, WorldStands
    <2> QED BY <1>5, <2>1, <2>2, <2>3, <2>4, RestoreKeepsWorld, RollbackKeepsWorld DEF AgentStep
  <1> QED BY <1>2, <1>3, <1>4, <1>5 DEF Next

\* Whatever fails and whenever the Agent dies, the world of the last restore that succeeded is whole
\* in the instance's directory or beside it (backup_client.py, _restore_direct).
THEOREM WorldIsKept == Spec => []WorldSurvives
  <1>1. Init => WorldInv
    BY DEF Init, Idle, WorldInv, WorldSurvives, World
  <1>2. WorldInv => WorldSurvives
    BY DEF WorldInv
  <1> QED BY <1>1, <1>2, InitTyped, StepTyped, WorldKept, PTL DEF Spec

-----------------------------------------------------------------------------
(* The job that is begun once *)

\* Beginning a job again that was left at running is what must not happen.
Harmless(j) == results[j] = "running" => Unreported(j)
IsRow(j) == rows[j].status # "none"

\* A request that the loop waits for reports what the result files say, and from then on
\* lists nothing that they say is running.
AwaitedHarmless(q) ==
  /\ requests[q].pc = "record" => requests[q].reports = Reported
  /\ requests[q].pc \in {"check", "insert", "list"} => \A j \in Jobs : rows[j].status = "pending" => Harmless(j)
  /\ \A j \in requests[q].cmds : Harmless(j)

OnceInv ==
  /\ \A j \in Jobs : runs[j] > 0 => results[j] # "none"
  /\ \A j \in Jobs : results[j] # "none" => IsRow(j)
  /\ \A j \in agent.todo : IsRow(j) /\ Harmless(j)
  /\ \A q \in RequestIds : \A j \in requests[q].cmds : IsRow(j)
  /\ \A q \in RequestIds : AwaitedBy(q) => AwaitedHarmless(q)
  /\ RunsOnce

\* Result files stay, so a result no heartbeat carries is never carried again.
LEMMA StaysUnreported ==
  ASSUME NEW j \in Jobs, Unreported(j), \A k \in Jobs : results[k] # "none" => results'[k] # "none"
  PROVE  Unreported(j)'
  <1> DEFINE later == {k \in Jobs : k > j /\ results[k] # "none"}
             laterThen == {k \in Jobs : k > j /\ results'[k] # "none"}
  <1>1. IsFiniteSet(laterThen) /\ later \subseteq laterThen
    BY FS_Subset
  <1>2. IsFiniteSet(later) /\ Cardinality(later) <= Cardinality(laterThen)
    BY <1>1, FS_Subset
  <1>3. Cardinality(later) \in Nat /\ Cardinality(laterThen) \in Nat
    BY <1>1, <1>2, FS_CardinalityType
  <1>4. ~(Cardinality(later) < MaxReports)
    BY DEF Unreported, Reported
  <1>5. ~(Cardinality(laterThen) < MaxReports)
    BY <1>2, <1>3, <1>4
  <1>6. Reported' = [k \in Jobs |-> IF Cardinality({l \in Jobs : l > k /\ results'[l] # "none"}) < MaxReports
                                    THEN results'[k] ELSE "none"]
    BY DEF Reported
  <1>7. Reported'[j] = "none"
    BY <1>5, <1>6
  <1> QED BY <1>7 DEF Unreported

\* What a heartbeat carries of a job left at running.
LEMMA CarriedUnlessUnreported ==
  ASSUME NEW j \in Jobs, results[j] = "running", ~Unreported(j)
  PROVE  Reported[j] = "running"
  BY DEF Unreported, Reported

LEMMA SameResults ==
  ASSUME UNCHANGED results
  PROVE  /\ Reported' = Reported
         /\ \A j \in Jobs : (Harmless(j)' <=> Harmless(j)) /\ (Unreported(j)' <=> Unreported(j))
  BY DEF Reported, Harmless, Unreported

\* Outside the loop's own steps the files stand, and rows only come or move on.
LEMMA RowsKeepOnce ==
  ASSUME Typed, OnceInv, UNCHANGED <<results, runs>>,
         \A j \in Jobs : IsRow(j) => IsRow(j)',
         agent'.todo \subseteq agent.todo,
         \A q \in RequestIds : \A j \in requests'[q].cmds : IsRow(j)',
         \A q \in RequestIds : AwaitedBy(q)' => AwaitedHarmless(q)'
  PROVE  OnceInv'
  <1>1. agent.todo \subseteq Jobs
    BY DEF Typed, Agent
  <1> QED BY <1>1, SameResults DEF OnceInv, RunsOnce

LEMMA BeginsOnce ==
  ASSUME Typed, OnceInv, NEW j \in Jobs, Begin(j), UNCHANGED <<rows, requests>>
  PROVE  OnceInv'
  <1>1. /\ j \in agent.todo /\ agent'.todo = agent.todo \ {j} /\ agent.todo \subseteq Jobs
        /\ agent'.pc # "waiting"
    BY BeginShape DEF Typed, Agent, Actions
  <1>2. CASE UNCHANGED <<results, runs>>
    BY <1>1, <1>2, RowsKeepOnce DEF IsRow, AwaitedBy, OnceInv
  <1>3. CASE results[j] \notin Final /\ results' = [results EXCEPT ![j] = "running"] /\ runs' = [runs EXCEPT ![j] = @ + 1]
    <2>1. results \in Reports /\ runs \in [Jobs -> Nat]
      BY DEF Typed
    <2>2. \A k \in Jobs : results[k] # "none" => results'[k] # "none"
      BY <1>3, <2>1 DEF Reports
    <2>3. \A k \in Jobs : Unreported(k) => Unreported(k)'
      BY <2>2, StaysUnreported
    <2>4. \A k \in Jobs \ {j} : results'[k] = results[k] /\ runs'[k] = runs[k]
      BY <1>3, <2>1 DEF Reports
    <2>5. \A k \in agent'.todo : IsRow(k)' /\ Harmless(k)'
      BY <1>1, <2>3, <2>4 DEF OnceInv, Harmless, IsRow
    <2>6. runs'[j] > 1 => Unreported(j)'
      <3> SUFFICES ASSUME runs'[j] > 1 PROVE Unreported(j)'
        OBVIOUS
      <3>1. results[j] = "running"
        BY <1>3, <2>1 DEF OnceInv, Reports
      <3> QED BY <1>1, <2>3, <3>1 DEF OnceInv, Harmless
    <2>7. RunsOnce'
      BY <2>3, <2>4, <2>6 DEF OnceInv, RunsOnce
    <2>8. \A k \in Jobs : (runs'[k] > 0 => results'[k] # "none") /\ (results'[k] # "none" => IsRow(k)')
      BY <1>1, <1>3, <2>1, <2>4 DEF OnceInv, IsRow, Reports
    <2> QED BY <1>1, <2>5, <2>7, <2>8 DEF OnceInv, AwaitedBy, IsRow
  <1> QED BY <1>2, <1>3, BeginShape

LEMMA ReportsOnce ==
  ASSUME Typed, WorksOnJob, OnceInv, Report, UNCHANGED <<rows, requests>>
  PROVE  OnceInv'
  <1>1. /\ agent.job \in Jobs /\ results[agent.job] # "none" /\ agent.status \in Final
        /\ results' = [results EXCEPT ![agent.job] = agent.status]
        /\ agent'.todo = agent.todo /\ agent'.pc = "next" /\ runs' = runs
    BY ReportShape
  <1>2. results \in Reports /\ runs \in [Jobs -> Nat] /\ agent.todo \subseteq Jobs
    BY DEF Typed, Agent
  <1>3. \A k \in Jobs : (results'[k] # "none" <=> results[k] # "none") /\ (results'[k] = "running" => results[k] = "running")
    BY <1>1, <1>2 DEF Reports, Final
  <1>4. \A k \in Jobs : Unreported(k) => Unreported(k)'
    BY <1>3, StaysUnreported
  <1>5. \A k \in Jobs : Harmless(k) => Harmless(k)'
    BY <1>3, <1>4 DEF Harmless
  <1> QED BY <1>1, <1>2, <1>3, <1>4, <1>5 DEF OnceInv, RunsOnce, AwaitedBy, IsRow

\* A handler: what it records makes a job left at running no longer pending, and a new
\* job has no result yet.
LEMMA HandlerKeepsOnce ==
  ASSUME Typed, OnceInv, NEW p \in RequestIds, Handler(p)
  PROVE  OnceInv'
  <1>1. UNCHANGED <<results, runs, agent>> /\ requests \in [RequestIds -> Request] /\ results \in Reports
    BY DEF Handler, Typed, diskVars
  <1>2. CASE Record(p)
    <2>1. RecordStates(requests[p].reports) /\ requests[p].pc = "record"
          /\ requests' = [requests EXCEPT ![p] = [Free EXCEPT !.pc = "check"]]
      BY <1>2 DEF Record, Update
    <2>2. \A j \in Jobs : /\ requests[p].reports[j] \in {"none", "running"} \cup Final
                          /\ rows[j].status = "none" => rows'[j].status = "none"
                          /\ rows[j].status # "none" =>
                               rows'[j].status = IF requests[p].reports[j] = "none" THEN rows[j].status
                                                                                   ELSE requests[p].reports[j]
      BY <2>1, RecordShape
    <2>3. \A j \in Jobs : /\ IsRow(j) => IsRow(j)'
                          /\ rows'[j].status = "pending" => rows[j].status = "pending" /\ requests[p].reports[j] = "none"
      BY <2>2 DEF IsRow, Final
    <2>4. requests'[p].pc = "check" /\ requests'[p].cmds = {} /\ \A q \in RequestIds \ {p} : requests'[q] = requests[q]
      BY <1>1, <2>1 DEF Free
    <2>5. AwaitedBy(p) => AwaitedHarmless(p)'
      <3> SUFFICES ASSUME AwaitedBy(p), NEW j \in Jobs, rows'[j].status = "pending" PROVE Harmless(j)
        BY <1>1, <2>4, SameResults DEF AwaitedHarmless
      <3>1. Reported[j] = "none"
        BY <2>1, <2>3 DEF OnceInv, AwaitedHarmless
      <3> QED BY <3>1, CarriedUnlessUnreported DEF Harmless
    <2>6. ASSUME NEW q \in RequestIds \ {p}, AwaitedBy(q) PROVE AwaitedHarmless(q)'
      <3>1. requests[q].cmds \subseteq Jobs
        BY <1>1 DEF Request
      <3> QED BY <1>1, <2>3, <2>4, <2>6, <3>1, SameResults DEF OnceInv, AwaitedHarmless
    <2>7. \A q \in RequestIds : \A j \in requests'[q].cmds : IsRow(j)'
      BY <1>1, <2>3, <2>4 DEF OnceInv, Request
    <2> QED BY <1>1, <2>3, <2>5, <2>6, <2>7, RowsKeepOnce DEF AwaitedBy
  <1>3. CASE Check(p) \/ Schedule(p) \/ List(p)
    <2>1. \A j \in Jobs : \/ rows'[j] = rows[j]
                          \/ rows[j].status = "none" /\ rows'[j].status = "pending"
      BY <1>3, InsertShape DEF Check, Schedule, List, RequestBackup, Actions
    <2>2. /\ \A q \in RequestIds \ {p} : requests'[q] = requests[q]
          /\ requests[p].pc \in {"check", "insert", "list"} /\ requests'[p].pc \in {"insert", "list", "done"}
          /\ \/ requests'[p].cmds = requests[p].cmds
             \/ rows' = rows /\ requests'[p].pc = "done" /\ requests'[p].cmds = Pending
      BY <1>1, <1>3 DEF Check, Schedule, List, Update, Request, Free
    <2>3. \A j \in Jobs : IsRow(j) => IsRow(j)'
      BY <2>1 DEF IsRow
    <2>4. \A j \in Jobs : rows'[j].status = "pending" => rows[j].status = "pending" \/ Harmless(j)
      BY <2>1 DEF OnceInv, IsRow, Harmless
    <2>5. \A q \in RequestIds : requests[q].cmds \subseteq Jobs /\ Pending \subseteq Jobs
      BY <1>1 DEF Request, Pending
    <2>6. AwaitedBy(p) => AwaitedHarmless(p)'
      BY <1>1, <2>2, <2>4, <2>5, SameResults DEF OnceInv, AwaitedHarmless, Pending
    <2>7. \A q \in RequestIds \ {p} : AwaitedBy(q) => AwaitedHarmless(q)'
      BY <1>1, <2>2, <2>4, <2>5, SameResults DEF OnceInv, AwaitedHarmless
    <2>8. \A q \in RequestIds : \A j \in requests'[q].cmds : IsRow(j)'
      BY <2>2, <2>3, <2>5 DEF OnceInv, Pending, IsRow
    <2> QED BY <1>1, <2>3, <2>6, <2>7, <2>8, RowsKeepOnce DEF AwaitedBy
  <1> QED BY <1>2, <1>3 DEF Handler

LEMMA OnceKept ==
  ASSUME Typed, WorksOnJob, OnceInv, [Next]_vars
  PROVE  OnceInv'
  <1>1. /\ requests \in [RequestIds -> Request] /\ Idle.todo = {} /\ Idle.pc = "idle" /\ Free.cmds = {}
        /\ \A q \in RequestIds : requests[q].cmds \subseteq Jobs
    BY DEF Typed, Idle, Free, Request
  <1>2. CASE UserStep
    <2>1. /\ UNCHANGED <<results, runs, agent, requests>>
          /\ \A j \in Jobs : rows'[j] = rows[j] \/ (rows[j].status = "none" /\ rows'[j].status = "pending")
      BY <1>2, OrderShape DEF UserStep, diskVars
    <2>2. \A j \in Jobs : IsRow(j) => IsRow(j)'
      BY <2>1 DEF IsRow
    <2>3. \A q \in RequestIds : AwaitedBy(q)' => AwaitedHarmless(q)'
      BY <1>1, <2>1, SameResults DEF OnceInv, AwaitedBy, AwaitedHarmless, Harmless, IsRow
    <2>4. \A q \in RequestIds : \A j \in requests'[q].cmds : IsRow(j)'
      BY <1>1, <2>1, <2>2 DEF OnceInv
    <2> QED BY <2>1, <2>2, <2>3, <2>4, RowsKeepOnce
  <1>3. CASE Operate \/ UNCHANGED vars
    <2>1. UNCHANGED <<results, runs, agent, requests, rows>>
      BY <1>3 DEF Operate, vars, diskVars
    <2> QED BY <1>1, <2>1, SameResults, RowsKeepOnce DEF OnceInv, AwaitedBy, AwaitedHarmless, IsRow
  <1>4. CASE WriteFails \/ Crash \/ Timeout
    <2>1. UNCHANGED <<results, runs, requests, rows>> /\ agent' = Idle
      BY <1>4 DEF WriteFails, Crash, Timeout, diskVars
    <2> QED BY <1>1, <2>1, RowsKeepOnce DEF OnceInv, AwaitedBy, IsRow
  <1>5. ASSUME NEW p \in RequestIds, Lose(p) \/ DiscardOrphan(p) PROVE OnceInv'
    <2>1. /\ UNCHANGED <<results, runs, rows>> /\ agent' \in {agent, Idle}
          /\ requests' = [requests EXCEPT ![p] = Free]
          /\ AwaitedBy(p) => agent' = Idle
      BY <1>5 DEF Lose, DiscardOrphan, Update, diskVars
    <2>2. \A q \in RequestIds : requests'[q] = IF q = p THEN Free ELSE requests[q]
      BY <1>1, <2>1
    <2>3. \A q \in RequestIds : AwaitedBy(q)' => q # p /\ AwaitedBy(q)
      BY <1>1, <2>1 DEF AwaitedBy
    <2>4. \A q \in RequestIds : AwaitedBy(q)' => AwaitedHarmless(q)'
      BY <1>1, <2>1, <2>2, <2>3, SameResults DEF OnceInv, AwaitedHarmless
    <2>5. \A q \in RequestIds : \A j \in requests'[q].cmds : IsRow(j)'
      BY <1>1, <2>1, <2>2 DEF OnceInv, IsRow
    <2> QED BY <1>1, <2>1, <2>4, <2>5, RowsKeepOnce DEF IsRow
  <1>6. ASSUME NEW p \in RequestIds, SendHeartbeat(p) PROVE OnceInv'
    <2>1. /\ UNCHANGED <<results, runs, rows>> /\ agent'.todo = {} /\ agent'.pc = "waiting" /\ agent'.request = p
          /\ requests' = [requests EXCEPT ![p] = [Free EXCEPT !.pc = "record", !.reports = Reported]]
      BY <1>6 DEF SendHeartbeat, Idle, diskVars
    <2>2. /\ requests'[p].pc = "record" /\ requests'[p].reports = Reported /\ requests'[p].cmds = {}
          /\ \A q \in RequestIds \ {p} : requests'[q] = requests[q]
      BY <1>1, <2>1 DEF Free
    <2>3. \A q \in RequestIds : AwaitedBy(q)' => AwaitedHarmless(q)'
      BY <2>1, <2>2, SameResults DEF AwaitedBy, AwaitedHarmless
    <2>4. \A q \in RequestIds : \A j \in requests'[q].cmds : IsRow(j)'
      BY <2>1, <2>2 DEF OnceInv, IsRow
    <2> QED BY <2>1, <2>3, <2>4, RowsKeepOnce DEF IsRow
  <1>7. ASSUME NEW p \in RequestIds, Receive(p) PROVE OnceInv'
    <2>1. /\ UNCHANGED <<results, runs, rows>> /\ agent'.todo = requests[p].cmds /\ agent'.pc = "next"
          /\ requests' = [requests EXCEPT ![p] = Free] /\ AwaitedBy(p)
      BY <1>7 DEF Receive, Idle, diskVars, AwaitedBy
    <2>2. \A j \in agent'.todo : IsRow(j)' /\ Harmless(j)'
      BY <1>1, <2>1, SameResults DEF OnceInv, AwaitedHarmless, IsRow
    <2>3. \A q \in RequestIds : \A j \in requests'[q].cmds : IsRow(j)'
      BY <1>1, <2>1 DEF OnceInv, IsRow
    <2> QED BY <2>1, <2>2, <2>3, SameResults DEF OnceInv, RunsOnce, AwaitedBy, IsRow
  <1>8. CASE AgentStep
    <2>1. UNCHANGED <<rows, requests>>
      BY <1>8 DEF AgentStep
    <2>2. CASE Done
      BY <1>1, <2>1, <2>2, RowsKeepOnce DEF Done, diskVars, OnceInv, AwaitedBy, IsRow
    <2>3. CASE JobStep
      <3>1. UNCHANGED <<results, runs>> /\ agent'.todo = agent.todo /\ agent'.pc # "waiting"
        BY <2>3, JobStepShape DEF Works, AtWork, Typed, Agent
      <3> QED BY <2>1, <3>1, RowsKeepOnce DEF OnceInv, AwaitedBy, IsRow
    <2> QED BY <1>8, <2>1, <2>2, <2>3, BeginsOnce, ReportsOnce DEF AgentStep, JobStep
  <1> QED BY <1>2, <1>3, <1>4, <1>5, <1>6, <1>7, <1>8, HandlerKeepsOnce DEF Next

\* A backup, a restore or a deletion is begun once, whatever is lost, repeated or restarted, unless
\* more result files than a heartbeat carries hide its result (backup_client.py:489, :550).
THEOREM JobsBeginOnce == Spec => []RunsOnce
  <1>1. Init => OnceInv
    BY DEF Init, Idle, Free, OnceInv, RunsOnce, AwaitedBy
  <1>2. OnceInv => RunsOnce
    BY DEF OnceInv
  <1> QED BY <1>1, <1>2, InitTyped, StepTyped, OnceKept, PTL DEF Spec

-----------------------------------------------------------------------------
(* Types, of the whole state *)

ArchiveType == [job : Jobs, run : Nat, whole : BOOLEAN]

\* What a step of a job does to the archives.
ArchiveStep ==
  \/ UNCHANGED archives /\ agent'.pc \notin {"seal", "prune"}
  \/ /\ agent.pc = "pack" /\ agent'.pc = "seal"
     /\ archives' = Append(archives, [job |-> agent.job, run |-> runs[agent.job], whole |-> FALSE])
  \/ /\ agent.pc = "seal" /\ agent'.pc = "prune"
     /\ archives' = [archives EXCEPT ![Len(archives)].whole = TRUE]
  \/ /\ agent.pc = "prune" /\ agent'.pc = "restart"
     /\ archives' = Newest(archives)
  \/ /\ agent.pc = "delete" /\ agent'.pc = "report"
     /\ \E k \in DOMAIN archives : IsArchiveOf(archives[k], rows[agent.job].backup) /\ archives' = Without(k)

LEMMA JobStepArchives ==
  ASSUME Typed, JobStep
  PROVE  ArchiveStep
  <1>1. agent \in Agent
    BY DEF Typed
  <1>2. CASE Pack \/ Seal \/ Prune \/ Delete
    BY <1>1, <1>2 DEF Pack, Seal, Prune, Delete, Go, Fail, ArchiveStep, Agent
  <1>3. CASE ~(Pack \/ Seal \/ Prune \/ Delete)
    BY <1>1, <1>3 DEF JobStep, Create, Restart, Restore, Halt, Unpack, SetAside, Activate, Launch, Discard, Discarded, Undo, Erase,
       PutBack, Revive, Go, Fail, diskVars, ArchiveStep, Agent
  <1> QED BY <1>2, <1>3

\* What retention keeps is the end of the sequence.
LEMMA NewestShape ==
  ASSUME NEW S, NEW all \in Seq(S)
  PROVE  /\ Newest(all) \in Seq(S)
         /\ \E cut \in 0 .. Len(all) : /\ Len(Newest(all)) = Len(all) - cut
                                       /\ \A k \in 1 .. Len(all) - cut : Newest(all)[k] = all[cut + k]
                                       /\ Len(all) > 0 => cut < Len(all)
  <1> DEFINE cut == IF Len(all) > Keep THEN Len(all) - Keep ELSE 0
  <1>1. cut \in 0 .. Len(all) /\ Len(all) \in Nat /\ (Len(all) > 0 => cut < Len(all))
    OBVIOUS
  <1>2. Newest(all) = SubSeq(all, cut + 1, Len(all))
    BY DEF Newest
  <1> HIDE DEF cut
  <1>3. \A k \in cut + 1 .. Len(all) : all[k] \in S
    BY <1>1
  <1>4. /\ Newest(all) \in Seq(S)
        /\ Len(Newest(all)) = IF cut + 1 <= Len(all) THEN Len(all) - (cut + 1) + 1 ELSE 0
        /\ \A k \in 1 .. Len(all) - (cut + 1) + 1 : Newest(all)[k] = all[cut + 1 + k - 1]
    BY <1>1, <1>2, <1>3, SubSeqProperties
  <1>5. Len(Newest(all)) = Len(all) - cut /\ \A k \in 1 .. Len(all) - cut : Newest(all)[k] = all[cut + k]
    BY <1>1, <1>4
  <1> QED BY <1>1, <1>4, <1>5

\* A deletion closes the gap.
LEMMA WithoutShape ==
  ASSUME NEW S, archives \in Seq(S), NEW k \in DOMAIN archives
  PROVE  /\ Without(k) \in Seq(S) /\ Len(Without(k)) = Len(archives) - 1
         /\ \A i \in 1 .. Len(archives) - 1 : Without(k)[i] = archives[IF i < k THEN i ELSE i + 1]
  <1>1. Len(archives) \in Nat \ {0} /\ k \in 1 .. Len(archives) /\ \A i \in 1 .. Len(archives) : archives[i] \in S
    OBVIOUS
  <1>2. \A i \in 1 .. Len(archives) - 1 : (IF i < k THEN i ELSE i + 1) \in 1 .. Len(archives)
    BY <1>1
  <1>3. Without(k) \in [1 .. Len(archives) - 1 -> S]
    BY <1>1, <1>2 DEF Without
  <1>4. Len(archives) - 1 \in Nat
    BY <1>1
  <1>5. Without(k) \in Seq(S)
    BY <1>3, <1>4, SeqDef
  <1> QED BY <1>3, <1>4, <1>5, LenProperties DEF Without

DiskTyped ==
  /\ archives \in Seq(ArchiveType)
  /\ root \in Tree \cup {None} /\ previous \in Tree \cup {None}
  /\ faults \in 0 .. MaxFaults

LEMMA ArchivesTyped ==
  ASSUME Typed, WorksOnJob, archives \in Seq(ArchiveType), JobStep
  PROVE  archives' \in Seq(ArchiveType)
  <1>1. ArchiveStep /\ agent.job \in Jobs /\ runs[agent.job] \in Nat
    BY JobStepArchives, JobStepShape DEF Typed, WorksOnJob, Works
  <1>2. [job |-> agent.job, run |-> runs[agent.job], whole |-> FALSE] \in ArchiveType
    BY <1>1 DEF ArchiveType
  <1>3. CASE archives' = [archives EXCEPT ![Len(archives)].whole = TRUE]
    <2>1. \A a \in ArchiveType : [a EXCEPT !.whole = TRUE] \in ArchiveType
      BY DEF ArchiveType
    <2>2. archives' = [k \in DOMAIN archives |-> IF k = Len(archives) THEN [archives[k] EXCEPT !.whole = TRUE] ELSE archives[k]]
      BY <1>3
    <2> QED BY <2>1, <2>2
  <1>4. CASE archives' = Newest(archives)
    BY <1>4, NewestShape
  <1>5. CASE \E k \in DOMAIN archives : archives' = Without(k)
    BY <1>5, WithoutShape
  <1>6. CASE archives' = Append(archives, [job |-> agent.job, run |-> runs[agent.job], whole |-> FALSE])
    BY <1>2, <1>6, AppendProperties
  <1>7. CASE UNCHANGED archives
    BY <1>7
  <1> QED BY <1>1, <1>3, <1>4, <1>5, <1>6, <1>7 DEF ArchiveStep

LEMMA TreesTyped ==
  ASSUME Typed, WorksOnJob, root \in Tree \cup {None}, previous \in Tree \cup {None}, JobStep
  PROVE  root' \in Tree \cup {None} /\ previous' \in Tree \cup {None}
  <1>1. agent.job \in Jobs
    BY JobStepShape DEF WorksOnJob, Works
  <1>2. World(agent.job) \in Tree
    BY <1>1 DEF World, Tree
  <1>3. \A t \in Tree \cup {None} : Partial(t) \in Tree \cup {None}
    <2>1. \A t \in Tree : Partial(t) \in Tree
      BY DEF Partial, Tree
    <2>2. Partial(None) = None
      <3>1. None \in [world : {NoJob}, whole : {FALSE}, absent : {TRUE}] /\ None.whole = FALSE
        BY DEF None
      <3> QED BY <3>1 DEF Partial
    <2> QED BY <2>1, <2>2
  <1>4. CASE Create \/ Pack \/ Seal \/ Prune \/ Restart \/ Delete \/ Restore \/ Halt \/ Unpack \/ Launch
    BY <1>4 DEF Create, Pack, Seal, Prune, Restart, Delete, Restore, Halt, Unpack, Launch, diskVars
  <1>5. CASE SetAside \/ Activate \/ Discard \/ Discarded \/ Undo \/ Erase \/ PutBack \/ Revive
    BY <1>2, <1>3, <1>5 DEF SetAside, Activate, Discard, Discarded, Undo, Erase, PutBack, Revive, diskVars
  <1> QED BY <1>4, <1>5 DEF JobStep

LEMMA StepDiskTyped ==
  ASSUME Typed, WorksOnJob, DiskTyped, [Next]_vars
  PROVE  DiskTyped'
  <1>1. CASE AgentStep
    <2>1. faults' = faults
      BY <1>1 DEF AgentStep
    <2>2. CASE JobStep
      BY <2>1, <2>2, ArchivesTyped, TreesTyped DEF DiskTyped
    <2>3. CASE ~JobStep
      <3>1. UNCHANGED <<archives, root, previous>>
        BY <1>1, <2>3 DEF AgentStep, JobStep, Begin, Done, Report, diskVars
      <3> QED BY <2>1, <3>1 DEF DiskTyped
    <2> QED BY <2>2, <2>3
  <1>2. CASE ~AgentStep
    <2>1. UNCHANGED <<archives, root, previous>>
      BY <1>2 DEF Next, UserStep, Operate, WriteFails, Crash, Timeout, SendHeartbeat, Receive, Handler, Lose, DiscardOrphan,
         vars, diskVars
    <2>2. faults' = faults \/ Fault
      BY <1>2 DEF Next, UserStep, Operate, WriteFails, Crash, Timeout, SendHeartbeat, Receive, Handler, Lose, DiscardOrphan, vars
    <2> QED BY <2>1, <2>2 DEF DiskTyped, Fault
  <1> QED BY <1>1, <1>2

\* The type invariant, for any number of jobs, heartbeats, kept archives and faults.
THEOREM BackupTyped == Spec => []TypeOK
  <1>1. Init => DiskTyped
    BY DEF Init, DiskTyped, World, Tree, None
  <1>2. Typed /\ DiskTyped => TypeOK
    BY DEF Typed, DiskTyped, ArchiveType, TypeOK
  <1> QED BY <1>1, <1>2, InitTyped, StepTyped, StepDiskTyped, PTL DEF Spec

-----------------------------------------------------------------------------
(* The rows: a verdict stands, and rows are numbered in the order they came *)

Begun == {j \in Jobs : runs[j] > 0}

\* Rows are numbered as they come; what a restore or a delete is about was completed.
CreationInv ==
  /\ \A j \in Jobs : IsRow(j) => rows[j].created \in 1 .. Cardinality(Jobs \ Unused)
  /\ \A j, k \in Jobs : IsRow(j) /\ IsRow(k) /\ rows[j].created = rows[k].created => j = k
  /\ \A d \in Jobs : IsRow(d) /\ rows[d].action # "create" => rows[d].backup \in Completed("create")

\* A heartbeat tells of a job that it is running only while no verdict is known of it, and
\* a job that is begun again afterwards is one that no heartbeat carries.
ReportsTrue(q, j) ==
  /\ requests[q].reports[j] \in Final => results[j] = requests[q].reports[j]
  /\ requests[q].reports[j] # "none" => results[j] # "none"
  /\ requests[q].reports[j] = "running" =>
       /\ ~IsFinal(j)
       /\ \A p \in RequestIds : requests[p].reports[j] \notin Final
       /\ results[j] \in Final \/ (AtWork /\ agent.job = j) => Unreported(j)

TruthInv ==
  /\ AtWork => results[agent.job] = "running"
  /\ \A j \in Jobs : IsFinal(j) => results[j] = rows[j].status
  /\ \A q \in RequestIds, j \in Jobs : ReportsTrue(q, j)

\* What a step may do to the rows.
RowKept(j) ==
  /\ rows'[j].created = rows[j].created /\ rows'[j].action = rows[j].action /\ rows'[j].backup = rows[j].backup
  /\ IsRow(j) => IsRow(j)'
  /\ IsFinal(j) => rows'[j].status = rows[j].status
  /\ rows'[j].status = "pending" => rows[j].status = "pending"
  /\ IsFinal(j)' => IsFinal(j) \/ \E p \in RequestIds : requests[p].reports[j] = rows'[j].status
RowCame(j) ==
  /\ ~IsRow(j) /\ rows'[j].status = "pending"
  /\ rows'[j].created = Cardinality(Jobs \ Unused) + 1
  /\ rows'[j].action # "create" => rows'[j].backup \in Completed("create")
RowsMove ==
  \/ \A j \in Jobs : RowKept(j) /\ (IsRow(j)' <=> IsRow(j))
  \/ \E j \in Jobs : RowCame(j) /\ \A k \in Jobs \ {j} : rows'[k] = rows[k]

LEMMA InsertMoves ==
  ASSUME Typed, NEW j \in Jobs, NEW action \in Actions, NEW b \in Jobs \cup {NoJob}, Insert(j, action, b),
         action # "create" => b \in Completed("create")
  PROVE  RowsMove
  <1>1. rows \in [Jobs -> Row] /\ rows[j].status = "none"
    BY DEF Typed, QueueTypeOK, Insert, Unused
  <1>2. rows' = [rows EXCEPT ![j] = [status |-> "pending", action |-> action, backup |-> b,
                                     created |-> Cardinality(Jobs \ Unused) + 1]]
    BY DEF Insert
  <1>3. rows'[j] = [status |-> "pending", action |-> action, backup |-> b, created |-> Cardinality(Jobs \ Unused) + 1]
    BY <1>1, <1>2
  <1>4. \A k \in Jobs \ {j} : rows'[k] = rows[k]
    BY <1>1, <1>2
  <1>5. RowCame(j)
    BY <1>1, <1>3 DEF RowCame, IsRow
  <1> QED BY <1>4, <1>5 DEF RowsMove

LEMMA StepMovesRows ==
  ASSUME Typed, TruthInv, [Next]_vars
  PROVE  RowsMove
  <1>1. rows \in [Jobs -> Row] /\ requests \in [RequestIds -> Request]
    BY DEF Typed, QueueTypeOK
  <1>2. CASE UNCHANGED rows
    BY <1>2 DEF RowsMove, RowKept, IsRow, IsFinal
  <1>3. ASSUME NEW j \in Jobs, RequestBackup(j) PROVE RowsMove
    BY <1>3, InsertMoves DEF RequestBackup, Actions
  <1>4. ASSUME NEW j \in Jobs, NEW action \in {"restore", "delete"}, NEW b \in Completed("create"), RequestFor(j, action, b)
        PROVE  RowsMove
    BY <1>4, InsertMoves DEF RequestFor, Completed, Actions
  <1>5. ASSUME NEW q \in RequestIds, Record(q) PROVE RowsMove
    <2>1. /\ \A j \in Jobs : /\ requests[q].reports[j] \in {"none", "running"} \cup Final
                             /\ rows[j].status = "none" => rows'[j].status = "none"
                             /\ rows[j].status # "none" =>
                                  rows'[j].status = IF requests[q].reports[j] = "none" THEN rows[j].status
                                                                                      ELSE requests[q].reports[j]
      BY <1>5, RecordShape DEF Record
    <2>2. \A j \in Jobs : /\ rows'[j].created = rows[j].created /\ rows'[j].action = rows[j].action
                          /\ rows'[j].backup = rows[j].backup
      <3>1. \A j \in Jobs : rows'[j] \in {rows[j], [rows[j] EXCEPT !.status = requests[q].reports[j]]}
        BY <1>5 DEF Record, RecordStates
      <3> QED BY <1>1, <3>1 DEF Row
    <2>3. ASSUME NEW j \in Jobs PROVE RowKept(j) /\ (IsRow(j)' <=> IsRow(j))
      <3>1. IsRow(j)' <=> IsRow(j)
        BY <2>1 DEF IsRow, Final
      <3>2. IsFinal(j) => rows'[j].status = rows[j].status
        <4> SUFFICES ASSUME IsFinal(j) PROVE requests[q].reports[j] \in {"none", rows[j].status}
          BY <2>1 DEF IsFinal, Final
        <4> QED BY <2>1 DEF TruthInv, ReportsTrue
      <3>3. rows'[j].status = "pending" => rows[j].status = "pending"
        BY <2>1 DEF Final
      <3>4. IsFinal(j)' => IsFinal(j) \/ \E p \in RequestIds : requests[p].reports[j] = rows'[j].status
        BY <2>1 DEF IsFinal, Final
      <3> QED BY <2>2, <3>1, <3>2, <3>3, <3>4 DEF RowKept
    <2> QED BY <2>3 DEF RowsMove
  <1>6. CASE UserStep
    BY <1>3, <1>4, <1>6 DEF UserStep, Order
  <1>7. ASSUME NEW q \in RequestIds, Handler(q) PROVE RowsMove
    BY <1>2, <1>3, <1>5, <1>7 DEF Handler, Check, Schedule, List
  <1>8. CASE ~UserStep /\ ~\E q \in RequestIds : Handler(q)
    <2>1. UNCHANGED rows
      BY <1>8 DEF Next, Operate, AgentStep, WriteFails, Crash, Timeout, SendHeartbeat, Receive, Lose, DiscardOrphan, vars
    <2> QED BY <1>2, <2>1
  <1> QED BY <1>6, <1>7, <1>8

\* What the other lemmas need of it.
LEMMA RowsAdvance ==
  ASSUME Typed, CreationInv, RowsMove
  PROVE  /\ \A j \in Jobs : IsRow(j) => RowKept(j)
         /\ \A j \in Jobs : ~IsRow(j) /\ IsRow(j)' =>
              rows'[j].status = "pending" /\ \A k \in Jobs : IsRow(k) => rows[k].created < rows'[j].created
         /\ Completed("create") \subseteq Completed("create")'
         /\ CreationInv'
  <1>1. rows \in [Jobs -> Row] /\ IsFiniteSet(Jobs \ Unused) /\ Cardinality(Jobs \ Unused) \in Nat
    <2>1. IsFiniteSet(Jobs \ Unused)
      BY FS_Subset
    <2> QED BY <2>1, FS_CardinalityType DEF Typed, QueueTypeOK
  <1>2. CASE \A j \in Jobs : RowKept(j) /\ (IsRow(j)' <=> IsRow(j))
    <2>1. Unused' = Unused
      BY <1>2 DEF Unused, IsRow
    <2>2. Completed("create") \subseteq Completed("create")'
      BY <1>2 DEF Completed, RowKept, IsFinal, Final
    <2>3. \A j \in Jobs : rows'[j].created = rows[j].created /\ rows'[j].action = rows[j].action
                          /\ rows'[j].backup = rows[j].backup
      BY <1>2 DEF RowKept
    <2>4. CreationInv'
      BY <1>2, <2>1, <2>2, <2>3 DEF CreationInv
    <2> QED BY <1>2, <2>2, <2>4
  <1>3. ASSUME NEW j \in Jobs, RowCame(j), \A k \in Jobs \ {j} : rows'[k] = rows[k]
        PROVE  /\ \A k \in Jobs : IsRow(k) => RowKept(k)
               /\ \A k \in Jobs : ~IsRow(k) /\ IsRow(k)' =>
                    rows'[k].status = "pending" /\ \A l \in Jobs : IsRow(l) => rows[l].created < rows'[k].created
               /\ Completed("create") \subseteq Completed("create")'
               /\ CreationInv'
    <2>1. \A k \in Jobs : IsRow(k) => k # j /\ RowKept(k) /\ rows'[k] = rows[k]
      BY <1>3 DEF RowCame, RowKept, IsRow, IsFinal
    <2>2. \A l \in Jobs : IsRow(l) => rows[l].created \in 1 .. Cardinality(Jobs \ Unused)
      BY DEF CreationInv
    <2>3. \A k \in Jobs : ~IsRow(k) /\ IsRow(k)' => k = j
      BY <1>3 DEF IsRow
    <2>4. rows'[j].created = Cardinality(Jobs \ Unused) + 1 /\ rows'[j].status = "pending"
      BY <1>3 DEF RowCame
    <2>5. \A l \in Jobs : IsRow(l) => rows[l].created < rows'[j].created
      BY <1>1, <2>2, <2>4
    <2>6. Completed("create") \subseteq Completed("create")'
      BY <2>1 DEF Completed, IsRow
    <2>7. Cardinality(Jobs \ Unused)' = Cardinality(Jobs \ Unused) + 1
      <3>1. (Jobs \ Unused)' = (Jobs \ Unused) \cup {j} /\ j \notin Jobs \ Unused
        BY <1>3, <2>4 DEF Unused, RowCame, IsRow
      <3> QED BY <1>1, <3>1, FS_AddElement
    <2>8. \A k \in Jobs : IsRow(k)' => k = j \/ (IsRow(k) /\ rows'[k] = rows[k])
      BY <1>3 DEF IsRow
    <2>9. \A k \in Jobs : IsRow(k)' => rows'[k].created \in 1 .. Cardinality(Jobs \ Unused)'
      <3> DEFINE n == Cardinality(Jobs \ Unused)
                 m == Cardinality(Jobs \ Unused)'
      <3>1. n \in Nat /\ m = n + 1 /\ rows'[j].created = n + 1 /\ \A l \in Jobs : IsRow(l) => rows[l].created \in 1 .. n
        BY <1>1, <2>2, <2>4, <2>7
      <3> HIDE DEF n, m
      <3>2. \A k \in Jobs : IsRow(k)' => rows'[k].created \in 1 .. m
        BY <2>8, <3>1
      <3> QED BY <3>2 DEF m
    <2>10. \A k, l \in Jobs : IsRow(k)' /\ IsRow(l)' /\ rows'[k].created = rows'[l].created => k = l
      <3> SUFFICES ASSUME NEW k \in Jobs, NEW l \in Jobs, IsRow(k)', IsRow(l)', rows'[k].created = rows'[l].created
                   PROVE  k = l
        OBVIOUS
      <3>1. CASE k = j \/ l = j
        <4>1. ~(rows'[j].created < rows'[j].created)
          BY <1>1, <2>4
        <4> QED BY <2>5, <2>8, <3>1, <4>1
      <3>2. CASE k # j /\ l # j
        BY <2>8, <3>2 DEF CreationInv
      <3> QED BY <3>1, <3>2
    <2>11. \A d \in Jobs : IsRow(d)' /\ rows'[d].action # "create" => rows'[d].backup \in Completed("create")'
      BY <1>3, <2>6, <2>8 DEF RowCame, CreationInv
    <2>12. CreationInv'
      BY <2>9, <2>10, <2>11 DEF CreationInv
    <2> QED BY <2>1, <2>3, <2>4, <2>5, <2>6, <2>12
  <1> QED BY <1>2, <1>3 DEF RowsMove

-----------------------------------------------------------------------------
(* What heartbeats say stays true *)

\* Where the result files stand, and requests lose what they said.
LEMMA TruthFrame ==
  ASSUME Typed, TruthInv, RowsMove, UNCHANGED results,
         ~AtWork' \/ (AtWork /\ agent'.job = agent.job),
         \A q \in RequestIds, j \in Jobs : requests'[q].reports[j] \in {"none", requests[q].reports[j]}
  PROVE  TruthInv'
  <1>1. \A j \in Jobs : IsFinal(j)' => IsFinal(j) \/ \E p \in RequestIds : requests[p].reports[j] = rows'[j].status
    BY DEF RowsMove, RowKept, RowCame, IsFinal, Final
  <1>2. \A j \in Jobs : IsFinal(j) => rows'[j].status = rows[j].status
    BY DEF RowsMove, RowKept, RowCame, IsFinal, IsRow, Final
  <1>3. AtWork' => results'[agent'.job] = "running"
    BY DEF TruthInv
  <1>4. \A j \in Jobs : IsFinal(j)' => results'[j] = rows'[j].status
    BY <1>1, <1>2 DEF TruthInv, ReportsTrue, IsFinal, Final
  <1>5. ASSUME NEW q \in RequestIds, NEW j \in Jobs PROVE ReportsTrue(q, j)'
    <2>1. requests'[q].reports[j] # "none" => requests'[q].reports[j] = requests[q].reports[j] /\ ReportsTrue(q, j)
      BY DEF TruthInv
    <2>2. \A p \in RequestIds : requests'[p].reports[j] \in Final => requests[p].reports[j] \in Final
      BY DEF Final
    <2>3. IsFinal(j)' => IsFinal(j) \/ \E p \in RequestIds : requests[p].reports[j] \in Final
      BY <1>1 DEF IsFinal
    <2>4. Unreported(j)' <=> Unreported(j)
      BY SameResults
    <2> QED BY <2>1, <2>2, <2>3, <2>4 DEF ReportsTrue, Final
  <1> QED BY <1>3, <1>4, <1>5 DEF TruthInv

LEMMA TruthSent ==
  ASSUME Typed, TruthInv, NEW q \in RequestIds, SendHeartbeat(q)
  PROVE  TruthInv'
  <1>1. /\ UNCHANGED <<rows, results>> /\ requests \in [RequestIds -> Request] /\ results \in Reports
        /\ agent.pc = "idle" /\ agent'.pc = "waiting"
        /\ requests' = [requests EXCEPT ![q] = [Free EXCEPT !.pc = "record", !.reports = Reported]]
    BY DEF SendHeartbeat, Typed, diskVars, Idle
  <1>2. ~AtWork /\ ~AtWork'
    BY <1>1 DEF AtWork
  <1>3. requests'[q].reports = Reported /\ \A p \in RequestIds \ {q} : requests'[p] = requests[p]
    BY <1>1 DEF Free
  <1>4. ASSUME NEW j \in Jobs PROVE Reported[j] \in {"none", results[j]} /\ (Reported[j] # "none" => ~Unreported(j))
    BY DEF Reported, Unreported
  <1>5. ASSUME NEW p \in RequestIds, NEW j \in Jobs PROVE ReportsTrue(p, j)'
    <2>1. (Unreported(j)' <=> Unreported(j)) /\ (IsFinal(j)' <=> IsFinal(j))
      BY <1>1, SameResults DEF IsFinal
    <2>2. IsFinal(j) => results[j] \in Final
      BY DEF TruthInv, IsFinal
    <2>3. \A r \in RequestIds : ReportsTrue(r, j)
      BY DEF TruthInv
    <2>4. CASE p = q
      <3>1. requests'[p].reports[j] \in Final => results[j] = requests'[p].reports[j]
        BY <1>3, <1>4, <2>4 DEF Final
      <3>2. requests'[p].reports[j] = "running" => results[j] = "running"
        BY <1>3, <1>4, <2>4
      <3>3. requests'[p].reports[j] # "none" => results[j] # "none"
        BY <1>3, <1>4, <2>4
      <3>4. results[j] = "running" => \A r \in RequestIds : requests'[r].reports[j] \notin Final
        BY <1>3, <1>4, <2>3 DEF ReportsTrue, Final
      <3> QED BY <1>1, <1>2, <2>1, <2>2, <3>1, <3>2, <3>3, <3>4 DEF ReportsTrue, Final
    <2>5. CASE p # q
      <3>1. requests'[p] = requests[p] /\ ReportsTrue(p, j)
        BY <1>3, <2>3, <2>5
      <3>2. requests[p].reports[j] = "running" => Reported[j] \notin Final
        BY <1>2, <1>4, <3>1 DEF ReportsTrue, Final
      <3>3. requests[p].reports[j] = "running" => \A r \in RequestIds : requests'[r].reports[j] \notin Final
        BY <1>3, <3>1, <3>2 DEF ReportsTrue
      <3> QED BY <1>1, <1>2, <2>1, <3>1, <3>3 DEF ReportsTrue
    <2> QED BY <2>4, <2>5
  <1> QED BY <1>1, <1>2, <1>5 DEF TruthInv, IsFinal

LEMMA TruthBegun ==
  ASSUME Typed, TruthInv, OnceInv, NEW j \in Jobs, Begin(j), UNCHANGED <<rows, requests>>
  PROVE  TruthInv'
  <1>1. agent.pc = "next" /\ j \in agent.todo /\ results \in Reports
    BY DEF Begin, IsNext, Typed
  <1>2. ~AtWork
    BY <1>1 DEF AtWork
  <1>3. CASE agent'.pc = "next" /\ UNCHANGED results
    <2>1. ~AtWork' /\ RowsMove
      BY <1>3 DEF AtWork, RowsMove, RowKept, IsRow, IsFinal
    <2> QED BY <1>3, <2>1, TruthFrame
  <1>4. CASE results[j] \notin Final /\ results' = [results EXCEPT ![j] = "running"] /\ agent'.job = j /\ agent'.pc \in Actions
    <2>1. results'[j] = "running" /\ \A k \in Jobs \ {j} : results'[k] = results[k]
      BY <1>1, <1>4 DEF Reports
    <2>2. \A k \in Jobs : Unreported(k) => Unreported(k)'
      BY <2>1, StaysUnreported
    <2>3. ~IsFinal(j) /\ (results[j] = "running" => Unreported(j)')
      BY <1>1, <1>4, <2>2 DEF TruthInv, IsFinal, OnceInv, Harmless
    <2>4. ASSUME NEW q \in RequestIds, NEW k \in Jobs PROVE ReportsTrue(q, k)'
      <3>1. ReportsTrue(q, k) /\ (IsFinal(k)' <=> IsFinal(k))
        BY DEF TruthInv, IsFinal
      <3>2. CASE k = j
        <4>1. requests[q].reports[j] \notin Final
          BY <1>4, <3>1, <3>2 DEF ReportsTrue
        <4>2. requests[q].reports[j] = "running" => Unreported(j)'
          BY <1>1, <1>4, <2>3, <3>1, <3>2 DEF ReportsTrue, Reports
        <4> QED BY <2>1, <3>1, <3>2, <4>1, <4>2 DEF ReportsTrue
      <3>3. CASE k # j
        BY <1>4, <2>1, <2>2, <3>1, <3>3 DEF ReportsTrue
      <3> QED BY <3>2, <3>3
    <2>5. \A k \in Jobs : IsFinal(k)' => results'[k] = rows'[k].status
      BY <2>1, <2>3 DEF TruthInv, IsFinal
    <2> QED BY <1>4, <2>1, <2>4, <2>5 DEF TruthInv
  <1> QED BY <1>3, <1>4, BeginShape

LEMMA TruthReported ==
  ASSUME Typed, WorksOnJob, TruthInv, Report, UNCHANGED <<rows, requests>>
  PROVE  TruthInv'
  <1>0. agent.job \in Jobs
    BY ReportShape
  <1> SUFFICES ASSUME NEW j \in Jobs, j = agent.job PROVE TruthInv'
    BY <1>0
  <1>1. /\ agent.status \in Final /\ results \in Reports /\ AtWork /\ agent'.pc = "next"
        /\ results' = [results EXCEPT ![j] = agent.status]
    BY ReportShape DEF Typed, Report, AtWork
  <1>2. results'[j] = agent.status /\ \A k \in Jobs \ {j} : results'[k] = results[k]
    BY <1>1 DEF Reports
  <1>3. results[j] = "running"
    BY <1>1 DEF TruthInv
  <1>4. \A k \in Jobs : results[k] # "none" => results'[k] # "none"
    BY <1>1, <1>2 DEF Final
  <1>5. \A k \in Jobs : Unreported(k) => Unreported(k)'
    BY <1>4, StaysUnreported
  <1>6. ~IsFinal(j)
    BY <1>1, <1>3 DEF TruthInv, IsFinal, Final
  <1>7. ASSUME NEW q \in RequestIds, NEW k \in Jobs PROVE ReportsTrue(q, k)'
    <2>1. ReportsTrue(q, k) /\ (IsFinal(k)' <=> IsFinal(k)) /\ ~AtWork'
      BY <1>1 DEF TruthInv, IsFinal, AtWork
    <2>2. CASE k = j
      <3>1. requests[q].reports[j] \notin Final
        BY <1>3, <2>1, <2>2 DEF ReportsTrue, Final
      <3>2. requests[q].reports[j] = "running" => Unreported(j)'
        <4>1. requests[q].reports[j] = "running" => Unreported(j)
          BY <1>1, <2>1, <2>2 DEF ReportsTrue
        <4> QED BY <1>1, <1>5, <4>1
      <3>3. UNCHANGED requests /\ results'[j] # "none"
        BY <1>1, <1>2 DEF Final
      <3> QED BY <2>1, <2>2, <3>1, <3>2, <3>3 DEF ReportsTrue
    <2>3. CASE k # j
      BY <1>2, <1>5, <2>1, <2>3 DEF ReportsTrue
    <2> QED BY <2>2, <2>3
  <1>8. \A k \in Jobs : IsFinal(k)' => results'[k] = rows'[k].status
    BY <1>2, <1>6 DEF TruthInv, IsFinal
  <1>9. ~AtWork'
    BY <1>1 DEF AtWork
  <1> QED BY <1>7, <1>8, <1>9 DEF TruthInv

\* How the loop and the requests move outside a job's first and last step and a heartbeat's start.
LEMMA QuietStep ==
  ASSUME Typed, [Next]_vars, ~(AgentStep /\ \E j \in Jobs : Begin(j)), ~(AgentStep /\ Report),
         ~\E q \in RequestIds : SendHeartbeat(q)
  PROVE  /\ UNCHANGED <<results, runs>>
         /\ ~AtWork' \/ (AtWork /\ agent'.job = agent.job)
         /\ \A q \in RequestIds, j \in Jobs : requests'[q].reports[j] \in {"none", requests[q].reports[j]}
  <1>1. requests \in [RequestIds -> Request] /\ Idle.pc = "idle" /\ \A j \in Jobs : Free.reports[j] = "none"
    BY DEF Typed, Idle, Free
  <1>2. CASE UserStep \/ Operate \/ UNCHANGED vars
    BY <1>2 DEF UserStep, Operate, vars, diskVars, AtWork
  <1>3. CASE AgentStep
    <2>1. UNCHANGED requests
      BY <1>3 DEF AgentStep
    <2>2. CASE Done
      BY <1>1, <2>1, <2>2 DEF Done, diskVars, AtWork
    <2>3. CASE JobStep
      <3>1. Works /\ agent \in Agent
        BY <2>3, JobStepShape DEF Typed
      <3> QED BY <2>1, <3>1 DEF Works, Agent
    <2> QED BY <1>3, <2>2, <2>3 DEF AgentStep, JobStep
  <1>4. CASE WriteFails \/ Crash \/ Timeout
    BY <1>1, <1>4 DEF WriteFails, Crash, Timeout, diskVars, AtWork
  <1>5. ASSUME NEW p \in RequestIds, Receive(p) \/ Lose(p) \/ DiscardOrphan(p)
        PROVE  /\ UNCHANGED <<results, runs>>
               /\ ~AtWork' \/ (AtWork /\ agent'.job = agent.job)
               /\ \A q \in RequestIds, j \in Jobs : requests'[q].reports[j] \in {"none", requests[q].reports[j]}
    <2>1. requests' = [requests EXCEPT ![p] = Free] /\ UNCHANGED <<results, runs>>
      BY <1>5 DEF Receive, Lose, DiscardOrphan, Update, diskVars
    <2>2. agent' \in {agent, Idle} \/ agent'.pc = "next"
      BY <1>5 DEF Receive, Lose, DiscardOrphan, Idle
    <2>3. \A q \in RequestIds : requests'[q] = IF q = p THEN Free ELSE requests[q]
      BY <1>1, <2>1
    <2> QED BY <1>1, <2>1, <2>2, <2>3 DEF AtWork
  <1>6. ASSUME NEW p \in RequestIds, Handler(p)
        PROVE  /\ UNCHANGED <<results, runs>>
               /\ ~AtWork' \/ (AtWork /\ agent'.job = agent.job)
               /\ \A q \in RequestIds, j \in Jobs : requests'[q].reports[j] \in {"none", requests[q].reports[j]}
    <2>1. UNCHANGED <<results, runs, agent>>
      BY <1>6 DEF Handler, diskVars
    <2>2. CASE Record(p)
      <3>1. requests' = [requests EXCEPT ![p] = [Free EXCEPT !.pc = "check"]]
        BY <2>2 DEF Record, Update
      <3>2. [Free EXCEPT !.pc = "check"].reports = Free.reports
        BY DEF Free
      <3>3. \A q \in RequestIds : requests'[q].reports \in {Free.reports, requests[q].reports}
        BY <1>1, <3>1, <3>2
      <3> QED BY <1>1, <2>1, <3>3 DEF AtWork
    <2>3. CASE Check(p) \/ Schedule(p) \/ List(p)
      <3>1. \E r \in Request : r.reports = requests[p].reports /\ requests' = [requests EXCEPT ![p] = r]
        <4>1. CASE Check(p) \/ Schedule(p)
          <5>1. \A pc \in {"insert", "list"} : /\ [requests[p] EXCEPT !.pc = pc] \in Request
                                               /\ [requests[p] EXCEPT !.pc = pc].reports = requests[p].reports
            BY <1>1 DEF Request
          <5>2. \E pc \in {"insert", "list"} : requests' = [requests EXCEPT ![p] = [requests[p] EXCEPT !.pc = pc]]
            BY <4>1 DEF Check, Schedule, Update
          <5> QED BY <5>1, <5>2
        <4>2. CASE List(p)
          <5> DEFINE r == [requests[p] EXCEPT !.pc = "done", !.cmds = Pending]
          <5>1. r \in Request /\ r.reports = requests[p].reports
            BY <1>1 DEF Request, Pending
          <5>2. requests' = [requests EXCEPT ![p] = r]
            BY <4>2 DEF List, Update
          <5> HIDE DEF r
          <5> QED BY <5>1, <5>2
        <4> QED BY <2>3, <4>1, <4>2
      <3>2. \A q \in RequestIds : requests'[q].reports = requests[q].reports
        BY <1>1, <3>1
      <3> QED BY <2>1, <3>2 DEF AtWork
    <2> QED BY <1>6, <2>2, <2>3 DEF Handler
  <1> QED BY <1>2, <1>3, <1>4, <1>5, <1>6 DEF Next

LEMMA TruthKept ==
  ASSUME Typed, WorksOnJob, OnceInv, TruthInv, [Next]_vars
  PROVE  TruthInv'
  <1>1. CASE AgentStep /\ \E j \in Jobs : Begin(j)
    BY <1>1, TruthBegun DEF AgentStep
  <1>2. CASE AgentStep /\ Report
    BY <1>2, TruthReported DEF AgentStep
  <1>3. CASE \E q \in RequestIds : SendHeartbeat(q)
    BY <1>3, TruthSent
  <1>4. CASE ~(AgentStep /\ \E j \in Jobs : Begin(j)) /\ ~(AgentStep /\ Report) /\ ~\E q \in RequestIds : SendHeartbeat(q)
    BY <1>4, QuietStep, StepMovesRows, TruthFrame
  <1> QED BY <1>1, <1>2, <1>3, <1>4

-----------------------------------------------------------------------------
(* Jobs are begun in the order they were requested *)

\* The commands that the loop has in hand, or that the answer it waits for brings.
Waits == {j \in Jobs : IF agent.pc = "waiting" THEN \E q \in RequestIds : AwaitedBy(q) /\ j \in requests[q].cmds
                                               ELSE j \in agent.todo}

\* Once a later job was begun, an earlier one is not begun any more.
Past(j) == results[j] \in Final \/ (rows[j].status # "pending" /\ j \notin Waits)
Before(j, k) == IsRow(j) /\ rows[j].created < rows[k].created

OrderInv ==
  /\ \A a \in Begun, j \in Jobs : Before(j, a) => Past(j)
  /\ AtWork => agent.job \in Begun /\ \A a \in Begun : rows[a].created <= rows[agent.job].created
  /\ \A t \in Waits, j \in Jobs : Before(j, t) =>
       results[j] \in Final \/ j \in Waits \/ (AtWork /\ agent.job = j) \/ rows[j].status # "pending"

\* What a step leaves of the commands: all of them, or those whose results are final are
\* gone, or all are, or what is listed now is in hand.
WaitsMove ==
  \/ Waits' = Waits /\ AtWork /\ AtWork' /\ agent'.job = agent.job
  \/ /\ ~AtWork' /\ Waits' \subseteq Waits
     /\ \A k \in Jobs : (k \in Waits \ Waits') \/ (AtWork /\ agent.job = k) => results'[k] \in Final
  \/ ~AtWork' /\ Waits' = {}
  \/ ~AtWork' /\ UNCHANGED rows /\ Waits' = Pending

LEMMA WaitingRows ==
  ASSUME Typed, OnceInv
  PROVE  Waits \subseteq {j \in Jobs : IsRow(j)} /\ Begun \subseteq {j \in Jobs : IsRow(j)}
  BY DEF Waits, OnceInv, Begun

LEMMA OrderFrame ==
  ASSUME Typed, OnceInv, CreationInv, OrderInv, RowsMove, UNCHANGED runs, WaitsMove,
         \A j \in Jobs : results[j] \in Final => results'[j] \in Final
  PROVE  OrderInv'
  <1>1. /\ \A j \in Jobs : IsRow(j) => RowKept(j)
        /\ \A j \in Jobs : ~IsRow(j) /\ IsRow(j)' => \A k \in Jobs : IsRow(k) => rows[k].created < rows'[j].created
        /\ \A j \in Jobs : IsRow(j)' => rows'[j].created \in Int
    <2>1. CreationInv'
      BY RowsAdvance
    <2>2. \A j \in Jobs : IsRow(j)' => rows'[j].created \in Int
      BY <2>1 DEF CreationInv
    <2> QED BY <2>2, RowsAdvance
  <1>2. rows \in [Jobs -> Row] /\ Begun' = Begun
    BY DEF Typed, QueueTypeOK, Begun
  <1>3. ASSUME NEW j \in Jobs, NEW k \in Jobs, IsRow(k), Before(j, k)' PROVE Before(j, k) /\ RowKept(j)
    <2>1. rows'[k].created = rows[k].created /\ rows'[k].created \in Int
      BY <1>1, <1>2, <1>3 DEF RowKept, Row
    <2>2. IsRow(j)' /\ rows'[j].created < rows'[k].created /\ rows'[j].created \in Int
      BY <1>1, <1>3 DEF Before
    <2>3. IsRow(j)
      BY <1>1, <1>3, <2>1, <2>2
    <2> QED BY <1>1, <2>1, <2>2, <2>3 DEF Before, RowKept
  <1>4. /\ \A k \in Waits \cup Begun : k \in Jobs /\ IsRow(k)
        /\ \A j \in Jobs : rows[j].status # "pending" /\ RowKept(j) => rows'[j].status # "pending"
    BY WaitingRows DEF RowKept
  <1>5. ASSUME NEW a \in Begun, NEW j \in Jobs, Before(j, a)' PROVE Past(j)'
    <2>1. Before(j, a) /\ RowKept(j) /\ Past(j)
      BY <1>3, <1>4, <1>5 DEF OrderInv
    <2>2. j \notin Waits => results'[j] \in Final \/ j \notin Waits' \/ (UNCHANGED rows /\ Waits' = Pending)
      BY DEF WaitsMove
    <2> QED BY <1>4, <2>1, <2>2 DEF Past, Pending
  <1>6. AtWork' => agent'.job \in Begun' /\ \A a \in Begun' : rows'[a].created <= rows'[agent'.job].created
    <2> SUFFICES ASSUME AtWork' PROVE agent'.job \in Begun' /\ \A a \in Begun' : rows'[a].created <= rows'[agent'.job].created
      OBVIOUS
    <2>1. AtWork /\ agent'.job = agent.job
      BY DEF WaitsMove
    <2> QED BY <1>1, <1>2, <1>4, <2>1 DEF OrderInv, RowKept
  <1>7. ASSUME NEW t \in Waits', NEW j \in Jobs, Before(j, t)'
        PROVE  results'[j] \in Final \/ j \in Waits' \/ (AtWork' /\ agent'.job = j) \/ rows'[j].status # "pending"
    <2>1. CASE ~AtWork' /\ UNCHANGED rows /\ Waits' = Pending
      BY <2>1 DEF Pending
    <2>2. CASE ~(~AtWork' /\ UNCHANGED rows /\ Waits' = Pending)
      <3>1. t \in Waits
        BY <1>7, <2>2 DEF WaitsMove
      <3>2. Before(j, t) /\ RowKept(j)
        BY <1>3, <1>4, <1>7, <3>1
      <3>3. results[j] \in Final \/ j \in Waits \/ (AtWork /\ agent.job = j) \/ rows[j].status # "pending"
        BY <3>1, <3>2 DEF OrderInv
      <3> QED BY <1>4, <1>7, <2>2, <3>2, <3>3 DEF WaitsMove
    <2> QED BY <2>1, <2>2
  <1> QED BY <1>2, <1>5, <1>6, <1>7 DEF OrderInv

\* Of the jobs in hand the one that was requested first is begun.
LEMMA OrderBegun ==
  ASSUME Typed, OnceInv, OrderInv, NEW j \in Jobs, Begin(j), UNCHANGED <<rows, requests>>
  PROVE  OrderInv'
  <1>1. /\ agent.pc = "next" /\ j \in agent.todo /\ agent.todo \subseteq Jobs /\ results \in Reports /\ runs \in [Jobs -> Nat]
        /\ \A k \in agent.todo : rows[j].created <= rows[k].created
        /\ \A k \in Jobs : rows[k].created \in Nat
    BY DEF Begin, IsNext, Typed, Agent, QueueTypeOK, Row
  <1>2. /\ agent'.pc # "waiting" /\ agent'.todo = agent.todo \ {j}
        /\ \/ agent'.pc = "next" /\ UNCHANGED <<results, runs>> /\ results[j] \in Final
           \/ /\ results[j] \notin Final
              /\ results' = [results EXCEPT ![j] = "running"] /\ runs' = [runs EXCEPT ![j] = @ + 1]
              /\ agent'.job = j /\ agent'.pc \in Actions
    <2>1. CASE results[j] \in Final
      <3>1. agent' = [agent EXCEPT !.todo = @ \ {j}] /\ UNCHANGED <<results, runs>> /\ agent \in Agent
        BY <2>1 DEF Begin, Typed
      <3> QED BY <1>1, <2>1, <3>1 DEF Agent
    <2>2. CASE results[j] \notin Final
      <3>1. /\ agent'.todo = agent.todo \ {j} /\ agent'.job = j /\ agent'.pc \in Actions
            /\ results' = [results EXCEPT ![j] = "running"] /\ runs' = [runs EXCEPT ![j] = @ + 1]
        <4>1. rows[j].action \in Actions
          BY DEF Typed, QueueTypeOK, Row
        <4> QED BY <2>2, <4>1 DEF Begin, Idle
      <3> QED BY <2>2, <3>1 DEF Actions
    <2> QED BY <2>1, <2>2
  <1>3. Waits = agent.todo /\ Waits' = agent.todo \ {j} /\ ~AtWork
    BY <1>1, <1>2 DEF Waits, AtWork
  <1>4. CASE agent'.pc = "next" /\ UNCHANGED <<results, runs>> /\ results[j] \in Final
    <2>1. ~AtWork' /\ Begun' = Begun
      BY <1>4 DEF AtWork, Begun
    <2> QED BY <1>3, <1>4, <2>1 DEF OrderInv, Before, Past, IsRow
  <1>5. CASE results[j] \notin Final /\ results' = [results EXCEPT ![j] = "running"] /\ runs' = [runs EXCEPT ![j] = @ + 1]
             /\ agent'.job = j /\ agent'.pc \in Actions
    <2>1. AtWork' /\ Begun' = Begun \cup {j} /\ Begun \subseteq Jobs /\ results'[j] = "running"
          /\ \A k \in Jobs \ {j} : results'[k] = results[k]
      <3>1. AtWork'
        BY <1>5 DEF AtWork, Actions
      <3>2. results'[j] = "running" /\ \A k \in Jobs \ {j} : results'[k] = results[k] /\ runs'[k] = runs[k]
        BY <1>1, <1>5 DEF Reports
      <3>3. runs'[j] = runs[j] + 1 /\ runs[j] \in Nat
        BY <1>1, <1>5
      <3>4. Begun' = Begun \cup {j} /\ Begun \subseteq Jobs
        <4>1. \A k \in Jobs : runs'[k] > 0 <=> k = j \/ runs[k] > 0
          BY <3>2, <3>3
        <4> QED BY <4>1 DEF Begun
      <3> QED BY <3>1, <3>2, <3>4
    <2>2. \A a \in Begun : ~Before(j, a)
      BY <1>1, <1>3, <1>5 DEF OrderInv, Past
    <2>3. IsRow(j)
      BY <1>1 DEF OnceInv
    <2>4. ASSUME NEW a \in Begun', NEW k \in Jobs, Before(k, a)' PROVE Past(k)'
      <3>1. Before(k, a) /\ a \in Jobs
        BY <2>1, <2>4 DEF Before, IsRow
      <3>2. k # j
        BY <1>1, <2>1, <2>2, <3>1 DEF Before
      <3>3. CASE a \in Begun
        BY <1>3, <2>1, <3>1, <3>2, <3>3 DEF OrderInv, Past
      <3>4. CASE a = j
        <4>1. k \notin agent.todo
          <5>1. rows[k].created < rows[j].created /\ rows[k].created \in Nat /\ rows[j].created \in Nat
            BY <1>1, <3>1, <3>4 DEF Before
          <5> QED BY <1>1, <5>1
        <4>2. results[k] \in Final \/ rows[k].status # "pending"
          BY <1>1, <1>3, <3>1, <3>4, <4>1 DEF OrderInv
        <4> QED BY <1>3, <2>1, <3>2, <4>1, <4>2 DEF Past
      <3> QED BY <2>1, <2>4, <3>3, <3>4
    <2>5. \A a \in Begun' : rows'[a].created <= rows'[j].created
      BY <1>1, <2>1, <2>2, <2>3 DEF Before
    <2>6. ASSUME NEW t \in Waits', NEW k \in Jobs, Before(k, t)'
          PROVE  results'[k] \in Final \/ k \in Waits' \/ (AtWork' /\ agent'.job = k) \/ rows'[k].status # "pending"
      <3>1. t \in Waits /\ Before(k, t)
        BY <1>3, <2>6 DEF Before, IsRow
      <3> QED BY <1>3, <1>5, <2>1, <3>1 DEF OrderInv
    <2> QED BY <1>5, <2>1, <2>4, <2>5, <2>6 DEF OrderInv
  <1> QED BY <1>2, <1>4, <1>5

\* How every other step moves the commands in hand.
LEMMA WaitsMoves ==
  ASSUME Typed, WorksOnJob, OnceInv, [Next]_vars, ~(AgentStep /\ \E j \in Jobs : Begin(j)),
         AgentStep /\ Report => results'[agent.job] \in Final
  PROVE  WaitsMove
  <1>1. /\ agent \in Agent /\ requests \in [RequestIds -> Request] /\ Idle.pc = "idle" /\ Idle.todo = {} /\ Free.cmds = {}
        /\ \A q \in RequestIds : requests[q].cmds \subseteq Jobs
    BY DEF Typed, Idle, Free, Request
  <1>2. agent' = Idle => ~AtWork' /\ Waits' = {}
    BY <1>1 DEF AtWork, Waits
  <1>3. ~AtWork /\ ~AtWork' /\ Waits' = Waits => WaitsMove
    BY DEF WaitsMove
  <1>4. UNCHANGED agent /\ (\A q \in RequestIds : AwaitedBy(q) => requests'[q].cmds = requests[q].cmds) => WaitsMove
    <2> SUFFICES ASSUME UNCHANGED agent, \A q \in RequestIds : AwaitedBy(q) => requests'[q].cmds = requests[q].cmds
                 PROVE  WaitsMove
      OBVIOUS
    <2>1. Waits' = Waits /\ (AtWork' <=> AtWork)
      BY DEF Waits, AtWork, AwaitedBy
    <2> QED BY <1>3, <2>1 DEF WaitsMove
  <1>5. CASE UserStep \/ Operate \/ UNCHANGED vars
    BY <1>4, <1>5 DEF UserStep, Operate, vars
  <1>6. CASE WriteFails \/ Crash \/ Timeout \/ (AgentStep /\ Done)
    BY <1>2, <1>6 DEF WriteFails, Crash, Timeout, Done, WaitsMove
  <1>7. CASE AgentStep /\ Report
    <2>1. agent.pc = "report" /\ agent'.todo = agent.todo /\ agent'.pc = "next"
      BY <1>7, ReportShape DEF Report
    <2>2. Waits' = Waits /\ ~AtWork'
      BY <2>1 DEF Waits, AtWork
    <2> QED BY <1>7, <2>2 DEF WaitsMove
  <1>8. CASE AgentStep /\ JobStep
    <2>1. Works
      BY <1>8, JobStepShape
    <2>2. agent'.todo = agent.todo /\ agent'.job = agent.job
      BY <1>1, <2>1 DEF Works, Agent
    <2>3. Waits' = Waits
      BY <2>1, <2>2 DEF Works, AtWork, Waits
    <2> QED BY <2>1, <2>2, <2>3 DEF Works, WaitsMove
  <1>9. ASSUME NEW p \in RequestIds, SendHeartbeat(p) PROVE WaitsMove
    <2>1. /\ agent'.pc = "waiting" /\ agent'.request = p
          /\ requests' = [requests EXCEPT ![p] = [Free EXCEPT !.pc = "record", !.reports = Reported]]
      BY <1>9 DEF SendHeartbeat, Idle
    <2>2. requests'[p].cmds = {}
      BY <1>1, <2>1 DEF Free
    <2>3. ~AtWork' /\ Waits' = {}
      BY <2>1, <2>2 DEF AtWork, Waits, AwaitedBy
    <2> QED BY <2>3 DEF WaitsMove
  <1>10. ASSUME NEW p \in RequestIds, Receive(p) PROVE WaitsMove
    <2>1. agent.pc = "waiting" /\ agent.request = p /\ agent'.pc = "next" /\ agent'.todo = requests[p].cmds
      BY <1>10 DEF Receive, Idle
    <2>2. ~AtWork /\ ~AtWork' /\ Waits' = Waits
      BY <1>1, <2>1 DEF AtWork, Waits, AwaitedBy
    <2> QED BY <1>3, <2>2
  <1>11. ASSUME NEW p \in RequestIds, Lose(p) \/ DiscardOrphan(p) PROVE WaitsMove
    <2>1. \A q \in RequestIds \ {p} : requests'[q] = requests[q]
      BY <1>1, <1>11 DEF Lose, DiscardOrphan, Update
    <2>2. agent' = Idle \/ (UNCHANGED agent /\ ~AwaitedBy(p))
      BY <1>11 DEF Lose, DiscardOrphan
    <2> QED BY <1>2, <1>4, <2>1, <2>2 DEF WaitsMove
  <1>12. ASSUME NEW p \in RequestIds, Handler(p) PROVE WaitsMove
    <2>1. UNCHANGED agent
      BY <1>12 DEF Handler
    <2>2. \A q \in RequestIds \ {p} : requests'[q].cmds = requests[q].cmds
      BY <1>1, <1>12 DEF Handler, Record, Check, Schedule, List, Update
    <2>3. CASE ~AwaitedBy(p) \/ requests'[p].cmds = requests[p].cmds
      BY <1>4, <2>1, <2>2, <2>3
    <2>4. CASE AwaitedBy(p) /\ Record(p)
      <3>1. requests'[p].cmds = {} /\ agent'.pc = "waiting" /\ agent'.request = p
        BY <1>1, <2>1, <2>4 DEF Record, Update, Free, AwaitedBy
      <3>2. ~AtWork' /\ Waits' = {}
        BY <3>1 DEF AtWork, Waits, AwaitedBy
      <3> QED BY <3>2 DEF WaitsMove
    <2>5. CASE AwaitedBy(p) /\ List(p)
      <3>1. requests'[p].cmds = Pending /\ UNCHANGED rows /\ agent'.pc = "waiting" /\ agent'.request = p
        BY <1>1, <2>1, <2>5 DEF List, Update, AwaitedBy, Request
      <3>2. ~AtWork' /\ Waits' = Pending
        BY <3>1 DEF AtWork, Waits, AwaitedBy, Pending
      <3> QED BY <3>1, <3>2 DEF WaitsMove
    <2>6. CASE Check(p) \/ Schedule(p)
      <3>1. requests'[p].cmds = requests[p].cmds
        BY <1>1, <2>6 DEF Check, Schedule, Update, Request
      <3> QED BY <2>3, <3>1
    <2> QED BY <1>12, <2>3, <2>4, <2>5, <2>6 DEF Handler
  <1> QED BY <1>5, <1>6, <1>7, <1>8, <1>9, <1>10, <1>11, <1>12 DEF Next, AgentStep, JobStep

\* Outside a job's two ends the result files stand, and the last one is final.
LEMMA ResultsStand ==
  ASSUME Typed, WorksOnJob, [Next]_vars, ~(AgentStep /\ \E j \in Jobs : Begin(j))
  PROVE  /\ UNCHANGED runs
         /\ \/ UNCHANGED results
            \/ /\ AgentStep /\ Report
               /\ agent.job \in Jobs /\ agent.status \in Final /\ results'[agent.job] = agent.status
               /\ \A k \in Jobs \ {agent.job} : results'[k] = results[k]
  <1>1. CASE AgentStep /\ Report
    <2>1. agent.job \in Jobs /\ agent.status \in Final /\ results' = [results EXCEPT ![agent.job] = agent.status] /\ runs' = runs
      BY <1>1, ReportShape
    <2> QED BY <1>1, <2>1 DEF Typed, Reports
  <1>2. CASE ~(AgentStep /\ Report) /\ ~\E q \in RequestIds : SendHeartbeat(q)
    BY <1>2, QuietStep
  <1>3. CASE \E q \in RequestIds : SendHeartbeat(q)
    BY <1>3 DEF SendHeartbeat, diskVars
  <1> QED BY <1>1, <1>2, <1>3

LEMMA OrderKept ==
  ASSUME Typed, WorksOnJob, OnceInv, CreationInv, TruthInv, OrderInv, [Next]_vars
  PROVE  OrderInv'
  <1>1. CASE AgentStep /\ \E j \in Jobs : Begin(j)
    BY <1>1, OrderBegun DEF AgentStep
  <1>2. CASE ~(AgentStep /\ \E j \in Jobs : Begin(j))
    <2>1. \A j \in Jobs : results[j] \in Final => results'[j] \in Final
      BY <1>2, ResultsStand
    <2>2. AgentStep /\ Report => results'[agent.job] \in Final
      BY ReportShape DEF Typed, Reports
    <2>3. WaitsMove
      BY <1>2, <2>2, WaitsMoves
    <2> QED BY <1>2, <2>1, <2>3, ResultsStand, StepMovesRows, OrderFrame
  <1> QED BY <1>1, <1>2

-----------------------------------------------------------------------------
(* What a job under way left on the disk *)

CreateSteps == {"create", "pack", "seal", "prune", "restart"}
RestoreSteps == {"restore", "halt", "unpack", "setaside", "activate", "launch", "discard", "discarded",
                 "undo", "erase", "putback", "revive"}

\* The newest archive is the one of the backup at work.
Last == archives[Len(archives)]
Ours(whole) == archives # <<>> /\ Last = [job |-> agent.job, run |-> runs[agent.job], whole |-> whole]

\* After the archive was sealed, and as long as the backup counts as completed.
Sealed == \/ agent.pc = "prune"
          \/ agent.pc = "restart" /\ agent.status = "completed"
          \/ agent.pc = "report" /\ agent.status = "completed" /\ rows[agent.job].action = "create"

StageInv ==
  /\ agent.pc \in CreateSteps => rows[agent.job].action = "create"
  /\ agent.pc = "delete" => rows[agent.job].action = "delete"
  /\ agent.pc \in RestoreSteps => rows[agent.job].action = "restore"
  /\ agent.pc = "seal" => Ours(FALSE)
  /\ Sealed => Ours(TRUE)
  /\ \A k \in DOMAIN archives : archives[k].job \in Begun

Whole(k, j) == archives[k].whole /\ (IsArchiveOf(archives[k], j) \/ rows[archives[k].job].created > rows[j].created)
Deleted(d, j) == runs[d] > 0 /\ rows[d].action = "delete" /\ rows[rows[d].backup].created >= rows[j].created

\* The archive of a backup that was completed is there, or a later one, unless a deletion
\* of such a one was begun.
RestorableInv ==
  \A j \in Jobs : rows[j].action = "create" /\ results[j] = "completed" =>
    (\E k \in DOMAIN archives : Whole(k, j)) \/ \E d \in Jobs : Deleted(d, j)

\* Outside the loop the archives stand.
LEMMA OutsideStep ==
  ASSUME [Next]_vars, ~AgentStep
  PROVE  UNCHANGED <<archives, runs, results>> /\ (~AtWork' \/ UNCHANGED agent)
  <1>1. UNCHANGED <<archives, runs, results>>
    BY DEF Next, UserStep, Operate, WriteFails, Crash, Timeout, SendHeartbeat, Receive, Handler, Lose, DiscardOrphan, vars, diskVars
  <1>2. agent' = agent \/ agent' = Idle \/ agent'.pc \in {"waiting", "next"}
    BY DEF Next, UserStep, Operate, WriteFails, Crash, Timeout, SendHeartbeat, Receive, Handler, Lose, DiscardOrphan, vars, Idle
  <1> QED BY <1>1, <1>2 DEF AtWork, Idle

\* The archives that a step of a job leaves.
LEMMA ArchivesLeft ==
  ASSUME Typed, WorksOnJob, StageInv, archives \in Seq(ArchiveType), JobStep
  PROVE  \/ UNCHANGED archives /\ agent'.pc \notin {"seal", "prune"}
         \/ /\ agent.pc = "pack" /\ agent'.pc = "seal" /\ Len(archives') = Len(archives) + 1
            /\ \A k \in DOMAIN archives : archives'[k] = archives[k]
            /\ archives'[Len(archives) + 1] = [job |-> agent.job, run |-> runs[agent.job], whole |-> FALSE]
         \/ /\ agent.pc = "seal" /\ agent'.pc = "prune" /\ Len(archives') = Len(archives) /\ Len(archives) > 0
            /\ \A k \in 1 .. Len(archives) - 1 : archives'[k] = archives[k]
            /\ archives'[Len(archives)] = [job |-> agent.job, run |-> runs[agent.job], whole |-> TRUE]
         \/ /\ agent.pc = "prune" /\ agent'.pc = "restart"
            /\ Len(archives') > 0 /\ Len(archives') <= Len(archives)
            /\ \A k \in DOMAIN archives' : \E l \in DOMAIN archives : archives'[k] = archives[l]
            /\ archives'[Len(archives')] = [job |-> agent.job, run |-> runs[agent.job], whole |-> TRUE]
         \/ /\ agent.pc = "delete" /\ agent'.pc = "report"
            /\ \A k \in DOMAIN archives' : \E l \in DOMAIN archives : archives'[k] = archives[l]
            /\ \A l \in DOMAIN archives : \/ IsArchiveOf(archives[l], rows[agent.job].backup)
                                          \/ \E k \in DOMAIN archives' : archives'[k] = archives[l]
  <1>1. ArchiveStep /\ Len(archives) \in Nat /\ DOMAIN archives = 1 .. Len(archives)
    BY JobStepArchives
  <1>2. archives' \in Seq(ArchiveType) /\ Len(archives') \in Nat /\ DOMAIN archives' = 1 .. Len(archives')
    BY ArchivesTyped
  <1>3. CASE agent.pc = "pack" /\ agent'.pc = "seal"
             /\ archives' = Append(archives, [job |-> agent.job, run |-> runs[agent.job], whole |-> FALSE])
    <2>1. [job |-> agent.job, run |-> runs[agent.job], whole |-> FALSE] \in ArchiveType
      <3>1. agent.job \in Jobs /\ runs[agent.job] \in Nat
        BY <1>3 DEF WorksOnJob, AtWork, Typed
      <3> QED BY <3>1 DEF ArchiveType
    <2> DEFINE new == [job |-> agent.job, run |-> runs[agent.job], whole |-> FALSE]
    <2>2. archives' = Append(archives, new) /\ new \in ArchiveType
      BY <1>3, <2>1
    <2> HIDE DEF new
    <2>3. /\ Len(archives') = Len(archives) + 1 /\ archives'[Len(archives) + 1] = new
          /\ \A k \in 1 .. Len(archives) : archives'[k] = archives[k]
      BY <2>2, AppendProperties
    <2> QED BY <1>1, <1>3, <2>3 DEF new
  <1>4. CASE agent.pc = "seal" /\ agent'.pc = "prune" /\ archives' = [archives EXCEPT ![Len(archives)].whole = TRUE]
    <2>1. Len(archives) > 0 /\ Last = [job |-> agent.job, run |-> runs[agent.job], whole |-> FALSE]
      BY <1>1, <1>4 DEF StageInv, Ours
    <2>2. archives' = [archives EXCEPT ![Len(archives)] = [Last EXCEPT !.whole = TRUE]]
      BY <1>4 DEF Last
    <2>3. [Last EXCEPT !.whole = TRUE] = [job |-> agent.job, run |-> runs[agent.job], whole |-> TRUE]
      <3>1. \A a \in ArchiveType : [a EXCEPT !.whole = TRUE] = [job |-> a.job, run |-> a.run, whole |-> TRUE]
        <4>1. \A a \in ArchiveType : LET b == [a EXCEPT !.whole = TRUE] IN b \in ArchiveType /\ b.job = a.job /\ b.run = a.run /\ b.whole
          BY DEF ArchiveType
        <4>2. \A b \in ArchiveType : b = [job |-> b.job, run |-> b.run, whole |-> b.whole]
          BY DEF ArchiveType
        <4> QED BY <4>1, <4>2
      <3>2. Last \in ArchiveType /\ Last.job = agent.job /\ Last.run = runs[agent.job]
        <4>1. Last \in ArchiveType
          BY <1>1, <2>1 DEF Last
        <4> QED BY <2>1, <4>1
      <3> QED BY <3>1, <3>2
    <2>4. /\ archives'[Len(archives)] = [job |-> agent.job, run |-> runs[agent.job], whole |-> TRUE]
          /\ \A k \in 1 .. Len(archives) - 1 : archives'[k] = archives[k]
          /\ DOMAIN archives' = DOMAIN archives
      BY <1>1, <2>1, <2>2, <2>3
    <2>5. Len(archives') = Len(archives)
      <3>1. 1 .. Len(archives') = 1 .. Len(archives)
        BY <1>1, <1>2, <2>4
      <3>2. \A n, m \in Nat : n > 0 /\ 1 .. m = 1 .. n => m = n
        <4> SUFFICES ASSUME NEW n \in Nat, NEW m \in Nat, n > 0, 1 .. m = 1 .. n PROVE m = n
          OBVIOUS
        <4>1. n \in 1 .. m /\ m > 0
          OBVIOUS
        <4>2. m \in 1 .. n
          BY <4>1
        <4> QED BY <4>1, <4>2
      <3> QED BY <1>1, <1>2, <2>1, <3>1, <3>2
    <2> QED BY <1>4, <2>1, <2>4, <2>5
  <1>5. CASE agent.pc = "prune" /\ agent'.pc = "restart" /\ archives' = Newest(archives)
    <2>1. Len(archives) > 0 /\ Last = [job |-> agent.job, run |-> runs[agent.job], whole |-> TRUE]
      BY <1>1, <1>5 DEF StageInv, Sealed, Ours
    <2>2. PICK cut \in 0 .. Len(archives) : /\ Len(archives') = Len(archives) - cut /\ cut < Len(archives)
                                            /\ \A k \in 1 .. Len(archives) - cut : archives'[k] = archives[cut + k]
      BY <1>5, <2>1, NewestShape
    <2>3. \A k \in DOMAIN archives' : cut + k \in DOMAIN archives /\ archives'[k] = archives[cut + k]
      BY <1>1, <1>2, <2>2
    <2>4. Len(archives') > 0 /\ Len(archives') <= Len(archives) /\ Len(archives') \in DOMAIN archives'
          /\ cut + Len(archives') = Len(archives)
      BY <1>1, <1>2, <2>2
    <2>5. archives'[Len(archives')] = Last
      BY <2>3, <2>4 DEF Last
    <2> QED BY <1>5, <2>1, <2>3, <2>4, <2>5
  <1>6. ASSUME agent.pc = "delete", agent'.pc = "report", NEW k \in DOMAIN archives,
               IsArchiveOf(archives[k], rows[agent.job].backup), archives' = Without(k)
        PROVE  /\ \A i \in DOMAIN archives' : \E l \in DOMAIN archives : archives'[i] = archives[l]
               /\ \A l \in DOMAIN archives : \/ IsArchiveOf(archives[l], rows[agent.job].backup)
                                             \/ \E i \in DOMAIN archives' : archives'[i] = archives[l]
    <2>1. /\ Len(archives') = Len(archives) - 1
          /\ \A i \in 1 .. Len(archives) - 1 : archives'[i] = archives[IF i < k THEN i ELSE i + 1]
      BY <1>6, WithoutShape
    <2>2. \A i \in DOMAIN archives' : \E l \in DOMAIN archives : archives'[i] = archives[l]
      <3> SUFFICES ASSUME NEW i \in DOMAIN archives' PROVE \E l \in DOMAIN archives : archives'[i] = archives[l]
        OBVIOUS
      <3> DEFINE l == IF i < k THEN i ELSE i + 1
      <3>1. l \in DOMAIN archives /\ archives'[i] = archives[l]
        BY <1>1, <1>2, <2>1
      <3> QED BY <3>1
    <2>3. ASSUME NEW l \in DOMAIN archives, l # k PROVE \E i \in DOMAIN archives' : archives'[i] = archives[l]
      <3> DEFINE i == IF l < k THEN l ELSE l - 1
      <3>1. i \in 1 .. Len(archives) - 1 /\ (IF i < k THEN i ELSE i + 1) = l
        BY <1>1, <1>6, <2>3
      <3> HIDE DEF i
      <3>2. i \in DOMAIN archives' /\ archives'[i] = archives[l]
        BY <1>2, <2>1, <3>1
      <3> QED BY <3>2
    <2> QED BY <1>6, <2>2, <2>3
  <1> QED BY <1>1, <1>3, <1>4, <1>5, <1>6 DEF ArchiveStep

LEMMA StageMoves ==
  ASSUME Typed, JobStep
  PROVE  \/ /\ agent.pc \in CreateSteps /\ agent'.pc \in CreateSteps \cup {"report"} /\ agent'.pc # "create"
            /\ agent'.pc \in {"restart", "report"} /\ agent'.status = "completed" =>
                 agent.pc \in {"prune", "restart"} /\ agent.status = "completed"
         \/ agent.pc = "delete" /\ agent'.pc = "report"
         \/ agent.pc \in RestoreSteps /\ agent'.pc \in RestoreSteps \cup {"report"}
  <1>1. agent \in Agent
    BY DEF Typed
  <1>2. CASE Create \/ Pack \/ Seal \/ Prune \/ Restart \/ Delete
    BY <1>1, <1>2 DEF Create, Pack, Seal, Prune, Restart, Delete, Go, Fail, CreateSteps, Agent
  <1>3. CASE Restore \/ Halt \/ Unpack \/ SetAside \/ Activate \/ Launch
    BY <1>1, <1>3 DEF Restore, Halt, Unpack, SetAside, Activate, Launch, Go, Fail, RestoreSteps, Agent
  <1>4. CASE Discard \/ Discarded \/ Undo \/ Erase \/ PutBack \/ Revive
    BY <1>1, <1>4 DEF Discard, Discarded, Undo, Erase, PutBack, Revive, Go, Fail, RestoreSteps, Agent
  <1> QED BY <1>2, <1>3, <1>4 DEF JobStep

LEMMA StageWorked ==
  ASSUME Typed, WorksOnJob, OrderInv, StageInv, archives \in Seq(ArchiveType), JobStep, UNCHANGED rows
  PROVE  StageInv'
  <1>1. AtWork /\ UNCHANGED <<results, runs>> /\ agent'.job = agent.job /\ Begun' = Begun /\ agent.job \in Begun
    BY JobStepShape DEF Works, Typed, Agent, Begun, OrderInv
  <1>2. DOMAIN archives = 1 .. Len(archives) /\ Len(archives) \in Nat
        /\ DOMAIN archives' = 1 .. Len(archives') /\ Len(archives') \in Nat
    BY ArchivesTyped
  <1> DEFINE new(w) == [job |-> agent.job, run |-> runs[agent.job], whole |-> w]
  <1>3. \A w : new(w).job = agent.job
    OBVIOUS
  <1>4. ASSUME NEW w, Len(archives') \in DOMAIN archives', archives'[Len(archives')] = new(w) PROVE Ours(w)'
    <2>1. archives' # <<>>
      BY <1>2, <1>4
    <2> QED BY <1>1, <1>4, <2>1 DEF Ours, Last
  <1>5. \A k \in DOMAIN archives' : archives'[k].job \in Begun
    <2>1. \A k \in DOMAIN archives' : archives'[k].job = agent.job \/ \E l \in DOMAIN archives : archives'[k] = archives[l]
      <3> SUFFICES ASSUME NEW k \in DOMAIN archives'
                   PROVE  archives'[k].job = agent.job \/ \E l \in DOMAIN archives : archives'[k] = archives[l]
        OBVIOUS
      <3>1. CASE Len(archives') = Len(archives) + 1 /\ (\A l \in DOMAIN archives : archives'[l] = archives[l])
                 /\ archives'[Len(archives) + 1] = new(FALSE)
        <4>1. k = Len(archives) + 1 \/ k \in DOMAIN archives
          BY <1>2, <3>1
        <4> QED BY <1>3, <3>1, <4>1
      <3>2. CASE Len(archives') = Len(archives) /\ (\A l \in 1 .. Len(archives) - 1 : archives'[l] = archives[l])
                 /\ archives'[Len(archives)] = new(TRUE)
        <4>1. k = Len(archives) \/ (k \in 1 .. Len(archives) - 1 /\ k \in DOMAIN archives)
          BY <1>2, <3>2
        <4> QED BY <1>3, <3>2, <4>1
      <3> QED BY <3>1, <3>2, ArchivesLeft
    <2> QED BY <1>1, <2>1 DEF StageInv
  <1>6. agent'.pc = "seal" => Ours(FALSE)'
    <2> SUFFICES ASSUME agent'.pc = "seal" PROVE Ours(FALSE)'
      OBVIOUS
    <2>1. Len(archives') = Len(archives) + 1 /\ archives'[Len(archives) + 1] = new(FALSE)
      BY ArchivesLeft
    <2>2. archives'[Len(archives')] = new(FALSE) /\ Len(archives') \in DOMAIN archives'
      BY <1>2, <2>1
    <2> QED BY <1>4, <2>2
  <1>7. ASSUME Sealed' PROVE Ours(TRUE)'
    <2>1. agent.pc \in CreateSteps
      BY <1>1, <1>7, StageMoves DEF Sealed, StageInv, RestoreSteps
    <2>2. agent'.pc = "prune" \/ (Sealed /\ agent.pc \in {"prune", "restart"})
      BY <1>7, <2>1, StageMoves DEF Sealed, CreateSteps, RestoreSteps
    <2>3. CASE agent'.pc = "prune"
      <3>1. Len(archives') = Len(archives) /\ Len(archives) > 0 /\ archives'[Len(archives)] = new(TRUE)
        BY <2>3, ArchivesLeft
      <3>2. archives'[Len(archives')] = new(TRUE) /\ Len(archives') \in DOMAIN archives'
        BY <1>2, <3>1
      <3> QED BY <1>4, <3>2
    <2>4. CASE Sealed /\ agent.pc \in {"prune", "restart"} /\ UNCHANGED archives
      <3>1. Ours(TRUE)
        BY <2>4 DEF StageInv
      <3> QED BY <1>1, <2>4, <3>1 DEF Ours, Last
    <2>5. CASE Sealed /\ agent.pc \in {"prune", "restart"} /\ archives' # archives
      <3>1. Len(archives') > 0 /\ archives'[Len(archives')] = new(TRUE)
        BY <2>5, ArchivesLeft
      <3>2. Len(archives') \in DOMAIN archives'
        BY <1>2, <3>1
      <3> QED BY <1>4, <3>1, <3>2
    <2> QED BY <2>2, <2>3, <2>4, <2>5
  <1>8. /\ agent'.pc \in CreateSteps => rows'[agent'.job].action = "create"
        /\ agent'.pc = "delete" => rows'[agent'.job].action = "delete"
        /\ agent'.pc \in RestoreSteps => rows'[agent'.job].action = "restore"
    BY <1>1, StageMoves DEF StageInv, CreateSteps, RestoreSteps
  <1> QED BY <1>1, <1>5, <1>6, <1>7, <1>8 DEF StageInv

LEMMA StageKept ==
  ASSUME Typed, WorksOnJob, OnceInv, CreationInv, TruthInv, OrderInv, StageInv, archives \in Seq(ArchiveType), [Next]_vars
  PROVE  StageInv'
  <1>1. CASE ~AtWork' /\ UNCHANGED <<archives, runs>>
    <2>1. agent'.pc \notin CreateSteps \cup RestoreSteps \cup {"delete", "seal", "prune", "restart", "report"}
      BY <1>1 DEF AtWork, CreateSteps, RestoreSteps
    <2>2. \A k \in DOMAIN archives' : archives'[k].job \in Begun'
      BY <1>1 DEF StageInv, Begun
    <2> QED BY <2>1, <2>2 DEF StageInv, Sealed
  <1>2. CASE ~AgentStep /\ AtWork' /\ UNCHANGED <<archives, runs, agent>>
    <2>1. AtWork /\ agent.job \in Jobs /\ IsRow(agent.job)
      BY <1>2 DEF AtWork, WorksOnJob, OnceInv
    <2>2. rows'[agent.job].action = rows[agent.job].action
      BY <2>1, StepMovesRows, RowsAdvance DEF RowKept
    <2>3. Begun' = Begun /\ (Sealed' <=> Sealed) /\ (Ours(TRUE)' <=> Ours(TRUE)) /\ (Ours(FALSE)' <=> Ours(FALSE))
      BY <1>2, <2>2 DEF Begun, Sealed, Ours, Last
    <2> QED BY <1>2, <2>2, <2>3 DEF StageInv
  <1>3. CASE AgentStep /\ JobStep
    BY <1>3, StageWorked DEF AgentStep
  <1>4. ASSUME AgentStep, NEW j \in Jobs, Begin(j) PROVE StageInv'
    <2>1. UNCHANGED <<archives, rows>> /\ runs \in [Jobs -> Nat] /\ rows[j].action \in Actions
      BY <1>4 DEF AgentStep, Begin, Typed, QueueTypeOK, Row
    <2>2. CASE results[j] \in Final
      <3>1. agent'.pc = "next" /\ UNCHANGED <<archives, runs>>
        BY <1>4, <2>1, <2>2 DEF Begin, Typed, Agent
      <3> QED BY <1>1, <3>1 DEF AtWork
    <2>3. CASE results[j] \notin Final
      <3>1. agent'.pc = rows[j].action /\ agent'.job = j /\ runs' = [runs EXCEPT ![j] = @ + 1]
        BY <1>4, <2>3 DEF Begin, Idle
      <3>2. \A k \in Jobs : runs[k] > 0 => runs'[k] > 0
        BY <2>1, <3>1
      <3>3. \A k \in DOMAIN archives' : archives'[k].job \in Begun'
        BY <2>1, <3>2 DEF StageInv, Begun
      <3> QED BY <2>1, <3>1, <3>3 DEF StageInv, Sealed, CreateSteps, RestoreSteps, Actions
    <2> QED BY <2>2, <2>3
  <1>5. CASE AgentStep /\ (Done \/ Report)
    <2>1. UNCHANGED <<archives, runs>>
      BY <1>5 DEF Done, Report, diskVars
    <2>2. agent'.pc \in {"idle", "next"}
      BY <1>5, ReportShape DEF Done, Idle
    <2>3. ~AtWork'
      BY <2>2 DEF AtWork
    <2> QED BY <1>1, <2>1, <2>3
  <1>6. CASE ~AgentStep
    BY <1>1, <1>2, <1>6, OutsideStep
  <1> QED BY <1>3, <1>4, <1>5, <1>6 DEF AgentStep, JobStep

LEMMA RestorableWorked ==
  ASSUME Typed, WorksOnJob, OnceInv, CreationInv, TruthInv, OrderInv, StageInv, archives \in Seq(ArchiveType), RestorableInv,
         JobStep, UNCHANGED rows
  PROVE  RestorableInv'
  <1>1. AtWork /\ UNCHANGED <<results, runs>> /\ agent.job \in Begun /\ agent.job \in Jobs /\ results[agent.job] = "running"
    BY JobStepShape DEF Works, OrderInv, WorksOnJob, TruthInv
  <1> SUFFICES ASSUME NEW j \in Jobs, rows[j].action = "create", results[j] = "completed"
               PROVE  (\E k \in DOMAIN archives' : Whole(k, j)') \/ \E d \in Jobs : Deleted(d, j)
    BY <1>1 DEF RestorableInv, Deleted
  <1>2. DOMAIN archives = 1 .. Len(archives) /\ Len(archives) \in Nat
        /\ DOMAIN archives' = 1 .. Len(archives') /\ Len(archives') \in Nat
        /\ \A k \in DOMAIN archives : archives[k] \in ArchiveType
    BY ArchivesTyped
  <1>3. \A k \in DOMAIN archives, l \in DOMAIN archives' : archives'[l] = archives[k] /\ Whole(k, j) => Whole(l, j)'
    BY <1>1 DEF Whole, IsArchiveOf
  <1> DEFINE new(w) == [job |-> agent.job, run |-> runs[agent.job], whole |-> w]
  <1>4. CASE \E d \in Jobs : Deleted(d, j)
    BY <1>4
  <1>5. ASSUME NEW k \in DOMAIN archives, Whole(k, j)
        PROVE  (\E l \in DOMAIN archives' : Whole(l, j)') \/ \E d \in Jobs : Deleted(d, j)
    <2>0. \A x, y, z \in Nat : x <= y /\ x > z => y > z
      OBVIOUS
    <2>1. \A a \in Jobs : rows[a].created \in Nat
      BY DEF Typed, QueueTypeOK, Row
    <2>2. CASE UNCHANGED archives
      BY <1>3, <1>5, <2>2
    <2>3. CASE /\ Len(archives') = Len(archives) + 1
               /\ \A l \in DOMAIN archives : archives'[l] = archives[l]
      <3>1. k \in DOMAIN archives' /\ archives'[k] = archives[k]
        BY <1>2, <2>3
      <3> QED BY <1>3, <1>5, <3>1
    <2>4. CASE /\ Len(archives') = Len(archives) /\ agent.pc = "seal"
               /\ \A l \in 1 .. Len(archives) - 1 : archives'[l] = archives[l]
      <3>1. k # Len(archives)
        BY <1>5, <2>4 DEF StageInv, Ours, Last, Whole
      <3>2. k \in DOMAIN archives' /\ archives'[k] = archives[k]
        BY <1>2, <2>4, <3>1
      <3> QED BY <1>3, <1>5, <3>2
    <2>5. CASE Len(archives') > 0 /\ archives'[Len(archives')] = new(TRUE)
      <3>1. Len(archives') \in DOMAIN archives' /\ archives'[Len(archives')].job = agent.job /\ archives'[Len(archives')].whole
        BY <1>2, <2>5
      <3>2. archives[k].job \in Begun /\ archives[k].job \in Jobs /\ IsRow(j) /\ IsRow(agent.job)
        BY <1>1, WaitingRows DEF StageInv, Begun, OnceInv
      <3>3. rows[archives[k].job].created <= rows[agent.job].created
        BY <1>1, <3>2 DEF OrderInv
      <3>4. rows[agent.job].created > rows[j].created
        <4>1. CASE rows[archives[k].job].created > rows[j].created
          BY <1>1, <2>1, <2>0, <3>2, <3>3, <4>1
        <4>2. CASE IsArchiveOf(archives[k], j)
          <5>1. rows[j].created <= rows[agent.job].created
            BY <3>3, <4>2 DEF IsArchiveOf
          <5>2. rows[j].created # rows[agent.job].created
            BY <1>1, <3>2 DEF CreationInv
          <5>3. \A x, y \in Nat : x <= y /\ x # y => y > x
            OBVIOUS
          <5> QED BY <1>1, <2>1, <5>1, <5>2, <5>3
        <4> QED BY <1>5, <4>1, <4>2 DEF Whole
      <3>5. PICK l \in DOMAIN archives' : archives'[l].job = agent.job /\ archives'[l].whole
        BY <3>1
      <3>6. rows[archives'[l].job].created > rows[j].created
        BY <3>4, <3>5
      <3> QED BY <3>5, <3>6 DEF Whole
    <2>6. CASE /\ agent.pc = "delete"
               /\ \A i \in DOMAIN archives : \/ IsArchiveOf(archives[i], rows[agent.job].backup)
                                             \/ \E l \in DOMAIN archives' : archives'[l] = archives[i]
      <3>1. CASE \E l \in DOMAIN archives' : archives'[l] = archives[k]
        BY <1>3, <1>5, <3>1
      <3>2. CASE IsArchiveOf(archives[k], rows[agent.job].backup)
        <4>1. archives[k].job = rows[agent.job].backup /\ archives[k].job \in Jobs
          BY <1>2, <3>2 DEF IsArchiveOf, ArchiveType
        <4>2. rows[rows[agent.job].backup].created >= rows[j].created
          <5>1. archives[k].job = j \/ rows[archives[k].job].created > rows[j].created
            BY <1>5 DEF Whole, IsArchiveOf
          <5>2. \A x, y \in Nat : x = y \/ x > y => x >= y
            OBVIOUS
          <5> QED BY <2>1, <4>1, <5>1, <5>2
        <4>3. Deleted(agent.job, j)
          BY <1>1, <2>6, <4>2 DEF Deleted, StageInv, Begun
        <4> QED BY <1>1, <4>3
      <3> QED BY <2>6, <3>1, <3>2
    <2> QED BY <2>2, <2>3, <2>4, <2>5, <2>6, ArchivesLeft
  <1> QED BY <1>4, <1>5 DEF RestorableInv

\* Rows move on, but their order stays.
LEMMA RestorableFrame ==
  ASSUME Typed, OnceInv, CreationInv, StageInv, RestorableInv, RowsMove, UNCHANGED archives,
         \A k \in Jobs : runs[k] > 0 => runs'[k] > 0,
         NEW j \in Jobs, rows'[j].action = "create", results[j] = "completed", runs'[j] = runs[j]
  PROVE  (\E k \in DOMAIN archives' : Whole(k, j)') \/ \E d \in Jobs : Deleted(d, j)'
  <1>1. \A k \in Jobs : IsRow(k) => RowKept(k)
    BY RowsAdvance
  <1>2. IsRow(j) /\ rows'[j].created = rows[j].created /\ rows[j].action = "create"
    BY <1>1 DEF OnceInv, RowKept
  <1>3. ASSUME NEW k \in DOMAIN archives, Whole(k, j) PROVE Whole(k, j)'
    <2>1. archives[k].job \in Jobs /\ IsRow(archives[k].job)
      BY WaitingRows DEF StageInv
    <2>2. rows'[archives[k].job].created = rows[archives[k].job].created
      BY <1>1, <2>1 DEF RowKept
    <2> QED BY <1>2, <1>3, <2>2 DEF Whole, IsArchiveOf
  <1>4. ASSUME NEW d \in Jobs, Deleted(d, j) PROVE Deleted(d, j)'
    <2>1. IsRow(d) /\ rows[d].action # "create"
      BY <1>4 DEF Deleted, OnceInv
    <2>2. rows[d].backup \in Jobs /\ IsRow(rows[d].backup)
      BY <2>1 DEF CreationInv, Completed, IsRow
    <2>3. rows'[d].backup = rows[d].backup /\ rows'[d].action = rows[d].action
          /\ rows'[rows[d].backup].created = rows[rows[d].backup].created
      BY <1>1, <2>1, <2>2 DEF RowKept
    <2> QED BY <1>2, <1>4, <2>3 DEF Deleted
  <1>5. (\E k \in DOMAIN archives : Whole(k, j)) \/ \E d \in Jobs : Deleted(d, j)
    BY <1>2 DEF RestorableInv
  <1> QED BY <1>3, <1>4, <1>5

LEMMA RestorableKept ==
  ASSUME Typed, WorksOnJob, OnceInv, CreationInv, TruthInv, OrderInv, StageInv, archives \in Seq(ArchiveType), RestorableInv,
         [Next]_vars
  PROVE  RestorableInv'
  <1>1. CASE AgentStep /\ JobStep
    BY <1>1, RestorableWorked DEF AgentStep
  <1>2. ASSUME ~(AgentStep /\ JobStep), NEW j \in Jobs, rows'[j].action = "create", results'[j] = "completed"
        PROVE  (\E k \in DOMAIN archives' : Whole(k, j)') \/ \E d \in Jobs : Deleted(d, j)'
    <2>1. UNCHANGED archives
      BY <1>2, OutsideStep DEF AgentStep, JobStep, Begin, Done, Report, diskVars
    <2>2. RowsMove
      BY StepMovesRows
    <2>3. ASSUME AgentStep, NEW i \in Jobs, Begin(i)
          PROVE  results[j] = "completed" /\ runs'[j] = runs[j] /\ \A k \in Jobs : runs[k] > 0 => runs'[k] > 0
      <3>1. results \in Reports /\ runs \in [Jobs -> Nat]
        BY DEF Typed
      <3>2. CASE UNCHANGED <<results, runs>>
        BY <1>2, <3>2
      <3>3. CASE results' = [results EXCEPT ![i] = "running"] /\ runs' = [runs EXCEPT ![i] = @ + 1]
        BY <1>2, <3>1, <3>3 DEF Reports
      <3> QED BY <2>3, <3>2, <3>3, BeginShape
    <2>4. CASE ~(AgentStep /\ \E i \in Jobs : Begin(i)) /\ results'[j] = results[j]
      BY <1>2, <2>1, <2>2, <2>4, ResultsStand, RestorableFrame
    <2>5. CASE ~(AgentStep /\ \E i \in Jobs : Begin(i)) /\ results'[j] # results[j]
      <3>1. AgentStep /\ Report /\ agent.job = j /\ agent.status = "completed" /\ runs' = runs /\ rows' = rows
        BY <2>5, <1>2, ResultsStand DEF AgentStep
      <3>2. archives # <<>> /\ Last = [job |-> j, run |-> runs[j], whole |-> TRUE]
        BY <1>2, <3>1 DEF Report, StageInv, Sealed, Ours
      <3>3. Len(archives) \in DOMAIN archives /\ IsArchiveOf(Last, j) /\ Last.whole
        BY <3>2 DEF IsArchiveOf
      <3>4. Whole(Len(archives), j)'
        BY <2>1, <3>1, <3>3 DEF Whole, IsArchiveOf, Last
      <3> QED BY <2>1, <3>3, <3>4
    <2> QED BY <1>2, <2>1, <2>2, <2>3, <2>4, <2>5, RestorableFrame
  <1> QED BY <1>1, <1>2 DEF RestorableInv

\* The last backup that the Controller saw completed can be restored, whatever backups failed or
\* died, were pruned or deleted or were begun since, unless a delete of it was carried out
\* (backup_client.py:177-235, backup_repository.py:167-169).
THEOREM LatestStaysRestorable == Spec => []LatestIsRestorable
  <1> DEFINE All == /\ Typed /\ WorksOnJob /\ DiskTyped /\ OnceInv /\ CreationInv /\ TruthInv /\ OrderInv /\ StageInv
                    /\ RestorableInv
  <1>1. Init => All
    <2> SUFFICES ASSUME Init PROVE All
      OBVIOUS
    <2>1. Typed /\ WorksOnJob
      BY InitTyped
    <2>2. /\ archives = <<>> /\ Begun = {} /\ Waits = {} /\ ~AtWork /\ agent = Idle /\ agent.pc = "idle"
          /\ \A j \in Jobs : ~IsRow(j) /\ ~IsFinal(j) /\ results[j] = "none" /\ runs[j] = 0
          /\ \A q \in RequestIds, j \in Jobs : requests[q].reports[j] = "none" /\ requests[q].cmds = {}
      BY DEF Init, QueueInit, Begun, Waits, AtWork, Idle, IsRow, IsFinal, Final, Free
    <2>3. DiskTyped
      BY DEF Init, DiskTyped, World, Tree, None
    <2>4. OnceInv
      BY <2>2 DEF Init, Idle, Free, OnceInv, RunsOnce, AwaitedBy
    <2>5. CreationInv /\ OrderInv /\ RestorableInv
      BY <2>2 DEF CreationInv, OrderInv, RestorableInv
    <2>6. TruthInv
      BY <2>2 DEF TruthInv, ReportsTrue, Final
    <2>7. StageInv
      BY <2>2 DEF StageInv, Sealed, CreateSteps, RestoreSteps
    <2> QED BY <2>1, <2>3, <2>4, <2>5, <2>6, <2>7
  <1>2. All /\ [Next]_vars => All'
    <2> SUFFICES ASSUME All, [Next]_vars PROVE All'
      OBVIOUS
    <2>1. archives \in Seq(ArchiveType)
      BY DEF DiskTyped
    <2>2. Typed' /\ WorksOnJob' /\ DiskTyped' /\ OnceInv' /\ TruthInv'
      BY StepTyped, StepDiskTyped, OnceKept, TruthKept
    <2>3. CreationInv'
      BY StepMovesRows, RowsAdvance
    <2>4. OrderInv' /\ StageInv' /\ RestorableInv'
      BY <2>1, OrderKept, StageKept, RestorableKept
    <2> QED BY <2>2, <2>3, <2>4
  <1>3. All => LatestIsRestorable
    <2> SUFFICES ASSUME All, NEW j \in Jobs, Latest(j),
                        ~\E k \in DOMAIN archives :
                           archives[k].whole /\ (IsArchiveOf(archives[k], j) \/ rows[archives[k].job].created > rows[j].created)
                 PROVE  \E d \in Jobs : rows[d].action = "delete" /\ rows[d].backup = j /\ runs[d] > 0
      BY DEF LatestIsRestorable
    <2>1. j \in Completed("create") /\ \A k \in Completed("create") : rows[k].created <= rows[j].created
      BY DEF Latest
    <2>2. rows[j].action = "create" /\ results[j] = "completed" /\ IsRow(j)
      BY <2>1 DEF Completed, TruthInv, IsFinal, Final, IsRow
    <2>3. PICK d \in Jobs : Deleted(d, j)
      BY <2>2 DEF RestorableInv, Whole
    <2>4. rows[d].backup \in Completed("create")
      BY <2>3 DEF Deleted, OnceInv, CreationInv
    <2>5. rows[d].backup \in Jobs /\ IsRow(rows[d].backup) /\ rows[rows[d].backup].created <= rows[j].created
      BY <2>1, <2>4 DEF Completed, IsRow
    <2>6. rows[rows[d].backup].created = rows[j].created
      <3>1. \A a \in Jobs : rows[a].created \in Nat
        BY DEF Typed, QueueTypeOK, Row
      <3>2. \A x, y \in Nat : x <= y /\ x >= y => x = y
        OBVIOUS
      <3> QED BY <2>3, <2>5, <3>1, <3>2 DEF Deleted
    <2>7. rows[d].backup = j
      BY <2>2, <2>5, <2>6 DEF CreationInv
    <2> QED BY <2>3, <2>7 DEF Deleted
  <1> HIDE DEF All
  <1> QED BY <1>1, <1>2, <1>3, PTL DEF Spec

\* A verdict at the Controller is the one in the Agent's result file, and although a report
\* overwrites whatever status it finds, no late, repeated or overtaken heartbeat changes it
\* (backup_repository.py:383-396).
THEOREM VerdictsStand ==
  Spec => /\ [](\A j \in Jobs : IsFinal(j) => results[j] = rows[j].status)
          /\ [][\A j \in Jobs : IsFinal(j) => rows'[j].status = rows[j].status]_vars
  <1> DEFINE All == Typed /\ WorksOnJob /\ OnceInv /\ TruthInv
             True == \A j \in Jobs : IsFinal(j) => results[j] = rows[j].status
             Stands == \A j \in Jobs : IsFinal(j) => rows'[j].status = rows[j].status
  <1>1. Init => All
    <2>1. Init => OnceInv
      BY DEF Init, Idle, Free, OnceInv, RunsOnce, AwaitedBy
    <2>2. Init => TruthInv
      BY DEF Init, QueueInit, TruthInv, ReportsTrue, AtWork, IsFinal, Final, Idle, Free
    <2> QED BY <2>1, <2>2, InitTyped
  <1>2. All /\ [Next]_vars => All'
    BY StepTyped, OnceKept, TruthKept
  <1>3. All => True
    BY DEF TruthInv
  <1>4. All /\ [Next]_vars => Stands
    <2> SUFFICES ASSUME All, [Next]_vars, NEW j \in Jobs, IsFinal(j) PROVE rows'[j].status = rows[j].status
      OBVIOUS
    <2>1. RowsMove
      BY StepMovesRows
    <2> QED BY <2>1 DEF RowsMove, RowKept, RowCame, IsFinal, IsRow, Final
  <1> HIDE DEF All, True, Stands
  <1>5. Spec => []True /\ [][Stands]_vars
    BY <1>1, <1>2, <1>3, <1>4, PTL DEF Spec
  <1> QED BY <1>5 DEF True, Stands

=============================================================================
