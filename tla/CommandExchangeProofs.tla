----------------------- MODULE CommandExchangeProofs -----------------------
(***************************************************************************)
(* The safety of CommandExchange for any number of instances, commands,    *)
(* requests and faults.  IInv is inductive: one lemma per group of actions *)
(* below, combined in Inductive.                                           *)
(***************************************************************************)
EXTENDS CommandExchange, TLAPS

USE QueueAssumption, AgentAssumption, FaultAssumption

\* Running an action yields a report and a record of the right form; an absent
\* record stays absent, and a completed removal leaves it absent.
LEMMA EffectsSound ==
  ASSUME NEW a \in AllActions, NEW before \in {"absent", "running", "stopped"},
         NEW e \in Effects(a, before)
  PROVE  /\ e.report \in Report
         /\ e.record \in {"absent", "running", "stopped"}
         /\ before = "absent" => e.record = "absent"
         /\ a = "remove" /\ e.report.status = "completed" => e.record = "absent"
  <1>1. CASE before = "absent"
    BY <1>1 DEF Effects, Report, AllActions, SerializedActions, LifecycleActions, FinalStates
  <1>2. CASE before # "absent"
    <2>1. RecordAfter(a, before) \in {"absent", "running", "stopped"}
      BY DEF RecordAfter, AllActions, SerializedActions
    <2>2. a = "remove" => RecordAfter(a, before) = "absent"
      BY DEF RecordAfter
    <2> QED BY <1>2, <2>1, <2>2 DEF Effects, Report, LifecycleActions, FinalStates
  <1> QED BY <1>1, <1>2

LEMMA InitIInv == Init => IInv
  BY DEF Init, IInv, QueueInit, AgentInit, TypeOK, QueueTypeOK, AgentTypeOK, WellReferred,
         RunsCounted, RemovalsTookEffect, ReportedIsRecorded, PurgedOnlyAfterRemoval,
         ContractOutlivesInstances, Decided, NoReport, NoRow, Row, Idle, Free, Request, RequestPC,
         AgentPC, Report, NoCommand, IsFinal, FinalStates, InstanceStatus, ContractStatus

-----------------------------------------------------------------------------
(* Users and administrators *)

\* A new row is queued for a command nothing refers to yet.
LEMMA InsertKeeps ==
  ASSUME IInv, NEW i \in Instances, NEW a \in AllActions, NEW c \in CommandIds,
         Insert(i, a, c), UNCHANGED <<instances, contracts, agentVars, requests, faultVars>>,
         pendingRemovals' \in SUBSET Instances
  PROVE  IInv'
  <1>1. PICK now \in 0 .. MaxClock :
          commands' = [commands EXCEPT ![c] = [status |-> "queued", instance |-> i, action |-> a, created |-> now]]
    BY DEF Insert
  <1>2. ~Decided(c)
    BY DEF Insert, NoRow, IInv, WellReferred
  <1>3. TypeOK'
    BY <1>1 DEF IInv, TypeOK, QueueTypeOK, AgentTypeOK, Row, RowStates, ActiveStates, agentVars, faultVars
  <1>4. WellReferred'
    BY <1>1 DEF IInv, TypeOK, QueueTypeOK, WellReferred, Decided, agentVars
  <1>5. RunsCounted'
    BY DEF IInv, RunsCounted, Decided, agentVars
  <1>6. RemovalsTookEffect'
    <2>1. history[c].status # "completed"
      BY <1>2 DEF Decided, NoReport
    <2>2. agent.pc = "record" => agent.cmd # c
      BY DEF Insert, NoRow, IInv, WellReferred
    <2> QED BY <1>1, <2>1, <2>2 DEF IInv, TypeOK, QueueTypeOK, RemovalsTookEffect, agentVars
  <1>7. ReportedIsRecorded'
    BY <1>1 DEF IInv, TypeOK, QueueTypeOK, ReportedIsRecorded, IsFinal, FinalStates, agentVars
  <1>8. PurgedOnlyAfterRemoval' /\ ContractOutlivesInstances'
    BY DEF IInv, PurgedOnlyAfterRemoval, ContractOutlivesInstances, agentVars
  <1> QED BY <1>3, <1>4, <1>5, <1>6, <1>7, <1>8 DEF IInv

\* Marking instances and contracts for deletion disturbs types and contracts only.
LEMMA MarkKeeps ==
  ASSUME IInv, UNCHANGED <<commands, agentVars, requests, faultVars>>, QueueTypeOK',
         \A i \in Instances : instances'[i] = "absent" <=> instances[i] = "absent",
         ContractOutlivesInstances'
  PROVE  IInv'
  BY DEF IInv, TypeOK, AgentTypeOK, WellReferred, RunsCounted, RemovalsTookEffect,
         ReportedIsRecorded, PurgedOnlyAfterRemoval, Decided, IsFinal, agentVars, faultVars

LEMMA UserStepKeeps == IInv /\ UserStep => IInv'
  <1> SUFFICES ASSUME IInv, UserStep PROVE IInv'
    OBVIOUS
  <1>1. PICK i \in Instances, a \in Actions, c \in CommandIds : Enqueue(i, a, c)
    BY DEF UserStep
  <1> QED BY <1>1, InsertKeeps DEF Enqueue, UserStep, IInv, TypeOK, QueueTypeOK

LEMMA AdminStepKeeps == IInv /\ AdminStep => IInv'
  <1> SUFFICES ASSUME IInv, AdminStep PROVE IInv'
    OBVIOUS
  <1>1. ASSUME NEW i \in Instances, BeginInstanceDelete(i) PROVE IInv'
    <2>1. QueueTypeOK'
      BY <1>1 DEF BeginInstanceDelete, IInv, TypeOK, QueueTypeOK, InstanceStatus
    <2>2. \A j \in Instances : instances'[j] = "absent" <=> instances[j] = "absent"
      BY <1>1 DEF BeginInstanceDelete, IInv, TypeOK, QueueTypeOK
    <2>3. ContractOutlivesInstances'
      BY <1>1, <2>2 DEF BeginInstanceDelete, IInv, ContractOutlivesInstances
    <2> QED BY <1>1, <2>1, <2>2, <2>3, MarkKeeps DEF BeginInstanceDelete, AdminStep
  <1>2. ASSUME NEW k \in Contracts, BeginContractDelete(k) PROVE IInv'
    <2>1. QueueTypeOK'
      BY <1>2 DEF BeginContractDelete, IInv, TypeOK, QueueTypeOK, InstanceStatus, ContractStatus
    <2>2. \A j \in Instances : instances'[j] = "absent" <=> instances[j] = "absent"
      BY <1>2 DEF BeginContractDelete, IInv, TypeOK, QueueTypeOK
    <2>3. ContractOutlivesInstances'
      BY <1>2, <2>2 DEF BeginContractDelete, IInv, TypeOK, QueueTypeOK, ContractOutlivesInstances
    <2> QED BY <1>2, <2>1, <2>2, <2>3, MarkKeeps DEF BeginContractDelete, AdminStep
  <1>3. ASSUME NEW i \in Instances, NEW c \in CommandIds, QueueRemoval(i, c) PROVE IInv'
    <2>1. pendingRemovals' \in SUBSET Instances
      BY <1>3 DEF QueueRemoval, IInv, TypeOK, QueueTypeOK
    <2>2. CASE Insert(i, "remove", c)
      BY <1>3, <2>1, <2>2, InsertKeeps DEF QueueRemoval, AdminStep, AllActions
    <2>3. CASE UNCHANGED commands
      BY <1>3, <2>1, <2>3, MarkKeeps
         DEF QueueRemoval, AdminStep, IInv, TypeOK, QueueTypeOK, ContractOutlivesInstances
    <2> QED BY <1>3, <2>2, <2>3 DEF QueueRemoval
  <1> QED BY <1>1, <1>2, <1>3 DEF AdminStep

-----------------------------------------------------------------------------
(* The Agent *)

\* Steps that change neither the queue, nor the Agent's files: the thread
\* and the requests stay well formed, and the thread is not about to record.
LEMMA MessageKeeps ==
  ASSUME IInv, UNCHANGED <<queueVars, registry, history, results, executions>>,
         TypeOK', WellReferred', agent.pc # "record", agent'.pc # "record"
  PROVE  IInv'
  BY DEF IInv, RunsCounted, RemovalsTookEffect, ReportedIsRecorded, PurgedOnlyAfterRemoval,
         ContractOutlivesInstances, Decided, IsFinal, queueVars

LEMMA SendKeeps ==
  ASSUME IInv, NEW q \in RequestIds, NEW flush \in BOOLEAN, Send(q, flush), agent.pc # "record",
         UNCHANGED <<queueVars, registry, history, results, executions, faultVars>>
  PROVE  IInv'
  <1>1. PICK r \in CommandIds \cup {NoCommand} :
          /\ FirstResult(r)
          /\ requests' = [requests EXCEPT ![q] = [Free EXCEPT !.pc = "sent", !.flush = flush, !.result = r]]
    BY DEF Send
  <1>2. r # NoCommand => Decided(r)
    BY <1>1 DEF FirstResult, IInv, WellReferred
  <1>3. TypeOK'
    BY <1>1 DEF Send, IInv, TypeOK, QueueTypeOK, AgentTypeOK, Idle, AgentPC, Report, Request, RequestPC,
                Free, queueVars, faultVars
  <1>4. WellReferred'
    BY <1>1, <1>2 DEF Send, IInv, TypeOK, WellReferred, Decided, Idle, Free, queueVars
  <1>5. agent'.pc # "record"
    BY DEF Send, Idle
  <1> QED BY <1>3, <1>4, <1>5, MessageKeeps

LEMMA ReceiveKeeps ==
  ASSUME IInv, NEW q \in RequestIds, Receive(q)
  PROVE  IInv'
  <1>1. TypeOK'
    BY DEF Receive, IInv, TypeOK, QueueTypeOK, AgentTypeOK, Idle, AgentPC, Request, RequestPC, Free,
           queueVars, faultVars
  <1>2. WellReferred'
    BY DEF Receive, IInv, TypeOK, WellReferred, Decided, Idle, Free, queueVars
  <1>3. agent.pc # "record" /\ agent'.pc # "record"
    BY DEF Receive, Idle
  <1> QED BY <1>1, <1>2, <1>3, MessageKeeps DEF Receive

\* Steps of handle_command that write nothing but the result directory.
LEMMA ResultKeeps ==
  ASSUME IInv, UNCHANGED <<queueVars, requests, faultVars, registry, history, executions>>,
         AgentTypeOK', \A c \in results' : Decided(c),
         agent.pc # "record", agent'.pc \notin {"handle", "record", "report"},
         agent'.cmd # NoCommand => agent'.cmd = agent.cmd
  PROVE  IInv'
  <1>1. TypeOK'
    BY DEF IInv, TypeOK, QueueTypeOK, queueVars, faultVars
  <1>2. WellReferred'
    BY DEF IInv, WellReferred, Decided, queueVars
  <1> QED BY <1>1, <1>2 DEF IInv, RunsCounted, RemovalsTookEffect, ReportedIsRecorded,
            PurgedOnlyAfterRemoval, ContractOutlivesInstances, Decided, IsFinal, queueVars

LEMMA ExecuteKeeps ==
  ASSUME IInv, Execute, UNCHANGED <<queueVars, requests, faultVars>>
  PROVE  IInv'
  <1> DEFINE c == agent.cmd
             i == commands[c].instance
             a == commands[c].action
  <1>1. c \in CommandIds /\ i \in Instances /\ a \in AllActions /\ ~Decided(c)
    BY DEF Execute, IInv, TypeOK, AgentTypeOK, WellReferred
  <1>2. PICK e \in Effects(a, registry[i]) :
          /\ registry' = [registry EXCEPT ![i] = e.record]
          /\ agent' = [agent EXCEPT !.pc = "record", !.outcome = e.report]
    BY DEF Execute
  <1>3. /\ e.report \in Report
        /\ e.record \in {"absent", "running", "stopped"}
        /\ registry[i] = "absent" => e.record = "absent"
        /\ a = "remove" /\ e.report.status = "completed" => e.record = "absent"
    BY <1>1, EffectsSound DEF IInv, TypeOK, AgentTypeOK
  <1>4. \A j \in Instances : registry[j] = "absent" => registry'[j] = "absent"
    BY <1>1, <1>2, <1>3 DEF IInv, TypeOK, AgentTypeOK
  <1>5. agent'.pc = "record" /\ agent'.cmd = c /\ agent'.outcome = e.report
    BY <1>2 DEF IInv, TypeOK, AgentTypeOK
  <1>6. executions' = [executions EXCEPT ![c] = @ + 1] /\ history' = history /\ results' = results
    BY DEF Execute
  <1>7. TypeOK'
    <2>1. registry' \in [Instances -> {"absent", "running", "stopped"}]
      BY <1>1, <1>2, <1>3 DEF IInv, TypeOK, AgentTypeOK
    <2>2. agent' \in [pc : AgentPC, request : RequestIds \cup {NoRequest},
                      cmd : CommandIds \cup {NoCommand}, ack : CommandIds \cup {NoCommand},
                      outcome : Report \cup {NoReport}]
      BY <1>2, <1>3 DEF IInv, TypeOK, AgentTypeOK, AgentPC
    <2>3. executions' \in [CommandIds -> Nat]
      <3>1. executions \in [CommandIds -> Nat]
        BY DEF IInv, TypeOK, AgentTypeOK
      <3>2. executions[c] + 1 \in Nat
        <4>1. executions[c] \in Nat
          BY <1>1, <3>1
        <4> QED BY <4>1
      <3>3. executions' = [executions EXCEPT ![c] = executions[c] + 1]
        BY <1>6
      <3> QED BY <1>1, <3>1, <3>2, <3>3
    <2> QED BY <1>6, <2>1, <2>2, <2>3 DEF IInv, TypeOK, QueueTypeOK, AgentTypeOK, queueVars, faultVars
  <1>8. WellReferred'
    BY <1>1, <1>3, <1>5, <1>6 DEF IInv, WellReferred, Decided, queueVars
  <1>9. RunsCounted'
    BY <1>1, <1>5, <1>6 DEF Execute, IInv, TypeOK, AgentTypeOK, RunsCounted, Decided
  <1>10. RemovalsTookEffect'
    <2>1. a = "remove" /\ e.report.status = "completed" => registry'[i] = "absent"
      BY <1>1, <1>2, <1>3 DEF IInv, TypeOK, AgentTypeOK
    <2>2. \A d \in CommandIds : commands[d].action = "remove" /\ history[d].status = "completed"
                                 => Decided(d)
      BY DEF Decided, NoReport
    <2> QED BY <1>4, <1>5, <1>6, <2>1, <2>2 DEF IInv, RemovalsTookEffect, WellReferred, queueVars
  <1>11. ReportedIsRecorded' /\ PurgedOnlyAfterRemoval' /\ ContractOutlivesInstances'
    BY <1>4, <1>6 DEF IInv, ReportedIsRecorded, PurgedOnlyAfterRemoval, ContractOutlivesInstances,
                      IsFinal, queueVars
  <1> QED BY <1>7, <1>8, <1>9, <1>10, <1>11 DEF IInv

LEMMA RecordHistoryKeeps ==
  ASSUME IInv, RecordHistory, UNCHANGED <<queueVars, requests, faultVars>>
  PROVE  IInv'
  <1> DEFINE c == agent.cmd
  <1>1. c \in CommandIds /\ commands[c].status # "none" /\ ~Decided(c) /\ agent.outcome \in Report
    BY DEF RecordHistory, IInv, TypeOK, AgentTypeOK, WellReferred
  <1>2. history' = [history EXCEPT ![c] = agent.outcome] /\ UNCHANGED <<registry, results, executions>>
    BY DEF RecordHistory
  <1>3. agent'.pc = "report" /\ agent'.cmd = c
    BY DEF RecordHistory, IInv, TypeOK, AgentTypeOK
  <1>4. agent.outcome # NoReport
    BY <1>1 DEF Report, NoReport, FinalStates
  <1>5. \A d \in CommandIds : /\ d # c => history'[d] = history[d]
                              /\ history'[c] = agent.outcome
    BY <1>1, <1>2 DEF IInv, TypeOK, AgentTypeOK
  <1>6. TypeOK'
    BY <1>1, <1>2 DEF RecordHistory, IInv, TypeOK, QueueTypeOK, AgentTypeOK, AgentPC, queueVars, faultVars
  <1>7. WellReferred'
    <2>1. \A d \in CommandIds : Decided(d)' <=> Decided(d) \/ d = c
      BY <1>1, <1>4, <1>5 DEF Decided
    <2>2. \A d \in CommandIds \cup {NoCommand} : Decided(d) /\ d # NoCommand => Decided(d)'
      BY <2>1
    <2>3. \A q \in RequestIds : requests[q].result \in CommandIds \cup {NoCommand}
      BY DEF IInv, TypeOK, Request
    <2>4. results \subseteq CommandIds
      BY DEF IInv, TypeOK, AgentTypeOK
    <2> QED BY <1>1, <1>2, <1>3, <2>1, <2>2, <2>3, <2>4 DEF IInv, WellReferred, queueVars
  <1>8. RunsCounted'
    BY <1>1, <1>2, <1>3, <1>4, <1>5 DEF RecordHistory, IInv, RunsCounted, Decided
  <1>9. RemovalsTookEffect'
    BY <1>1, <1>2, <1>3, <1>5 DEF RecordHistory, IInv, RemovalsTookEffect, queueVars
  <1>10. ReportedIsRecorded'
    BY <1>1, <1>5 DEF IInv, ReportedIsRecorded, IsFinal, FinalStates, Decided, NoReport, queueVars
  <1>11. PurgedOnlyAfterRemoval' /\ ContractOutlivesInstances'
    BY <1>2 DEF IInv, PurgedOnlyAfterRemoval, ContractOutlivesInstances, queueVars
  <1> QED BY <1>6, <1>7, <1>8, <1>9, <1>10, <1>11 DEF IInv

LEMMA AgentStepKeeps == IInv /\ AgentStep => IInv'
  <1> SUFFICES ASSUME IInv, AgentStep PROVE IInv'
    OBVIOUS
  <1>1. ASSUME NEW q \in RequestIds, SendHeartbeat(q) PROVE IInv'
    BY <1>1, SendKeeps DEF SendHeartbeat
  <1>2. ASSUME NEW q \in RequestIds, Receive(q) PROVE IInv'
    BY <1>2, ReceiveKeeps
  <1>3. CASE Flush
    <2>1. CASE results = {}
      BY <1>3, <2>1, MessageKeeps
         DEF Flush, IInv, TypeOK, QueueTypeOK, AgentTypeOK, WellReferred, Idle, AgentPC, Decided, queueVars, faultVars
    <2>2. CASE results # {}
      BY <1>3, <2>2, SendKeeps DEF Flush
    <2> QED BY <2>1, <2>2
  <1>4. CASE HandleCommand
    <2>1. CASE ReplayHistory
      BY <1>4, <2>1, ResultKeeps DEF HandleCommand, ReplayHistory, IInv, TypeOK, AgentTypeOK, AgentPC, WellReferred
    <2>2. CASE Execute
      BY <1>4, <2>2, ExecuteKeeps DEF HandleCommand
    <2>3. CASE RecordHistory
      BY <1>4, <2>3, RecordHistoryKeeps DEF HandleCommand
    <2>4. CASE WriteResult
      BY <1>4, <2>4, ResultKeeps DEF HandleCommand, WriteResult, IInv, TypeOK, AgentTypeOK, AgentPC, WellReferred
    <2>5. CASE ClearResult
      BY <1>4, <2>5, ResultKeeps
         DEF HandleCommand, ClearResult, IInv, TypeOK, AgentTypeOK, AgentPC, WellReferred, Idle
    <2> QED BY <1>4, <2>1, <2>2, <2>3, <2>4, <2>5 DEF HandleCommand
  <1> QED BY <1>1, <1>2, <1>3, <1>4 DEF AgentStep

-----------------------------------------------------------------------------
(* Controller threads *)

\* A thread's step that changes only requests.
LEMMA RequestKeeps ==
  ASSUME IInv, NEW q \in RequestIds, NEW r \in Request, UpdateRequest(q, r),
         UNCHANGED <<queueVars, agentVars, faultVars>>,
         r.result # NoCommand => Decided(r.result),
         r.cmd # NoCommand => commands[r.cmd].status # "none",
         r.pc \in {"recorded", "removed"} => r.result # NoCommand,
         r.pc = "picked" => r.cmd # NoCommand
  PROVE  IInv'
  <1>1. TypeOK'
    BY DEF UpdateRequest, IInv, TypeOK, QueueTypeOK, AgentTypeOK, queueVars, agentVars, faultVars
  <1>2. WellReferred'
    BY DEF UpdateRequest, IInv, TypeOK, WellReferred, Decided, queueVars, agentVars
  <1> QED BY <1>1, <1>2 DEF IInv, RunsCounted, RemovalsTookEffect, ReportedIsRecorded,
            PurgedOnlyAfterRemoval, ContractOutlivesInstances, Decided, IsFinal, queueVars, agentVars

\* A transaction of a thread: statuses of rows change along their life cycle,
\* instances and contracts change, and r is where the thread continues.
LEMMA TransactionKeeps ==
  ASSUME IInv, NEW q \in RequestIds, NEW r \in Request, UpdateRequest(q, r),
         UNCHANGED <<pendingRemovals, agentVars, faultVars>>, QueueTypeOK',
         \A c \in CommandIds : /\ commands'[c].instance = commands[c].instance
                               /\ commands'[c].action = commands[c].action
                               /\ commands'[c].status # "none" <=> commands[c].status # "none",
         r.result # NoCommand => Decided(r.result),
         r.cmd # NoCommand => commands[r.cmd].status # "none",
         r.pc \in {"recorded", "removed"} => r.result # NoCommand,
         r.pc = "picked" => r.cmd # NoCommand,
         ReportedIsRecorded', PurgedOnlyAfterRemoval', ContractOutlivesInstances'
  PROVE  IInv'
  <1>1. TypeOK'
    BY DEF UpdateRequest, IInv, TypeOK, AgentTypeOK, agentVars, faultVars
  <1>2. WellReferred'
    <2>1. \A c \in CommandIds :
            commands[c].status # "none" => commands'[c].instance \in Instances /\ commands'[c].action \in AllActions
      BY DEF IInv, WellReferred
    <2>2. \A p \in RequestIds : requests'[p] = IF p = q THEN r ELSE requests[p]
      BY DEF UpdateRequest, IInv, TypeOK
    <2>3. \A p \in RequestIds : requests[p].cmd \in CommandIds \cup {NoCommand}
      BY DEF IInv, TypeOK, Request
    <2>4. agent.cmd \in CommandIds \cup {NoCommand} /\ r.cmd \in CommandIds \cup {NoCommand}
      BY DEF IInv, TypeOK, AgentTypeOK, Request
    <2>5. /\ \A c \in CommandIds : Decided(c)' => commands'[c].status # "none"
          /\ \A c \in results' : Decided(c)'
      BY DEF IInv, WellReferred, Decided, agentVars
    <2>6. ASSUME NEW p \in RequestIds
          PROVE  /\ requests'[p].result # NoCommand => Decided(requests[p].result)'
                 /\ requests'[p].cmd # NoCommand => commands'[requests'[p].cmd].status # "none"
                 /\ requests'[p].pc \in {"recorded", "removed"} => requests'[p].result # NoCommand
                 /\ requests'[p].pc = "picked" => requests'[p].cmd # NoCommand
      <3>1. CASE p = q
        BY <3>1, <2>2, <2>4 DEF Decided, agentVars
      <3>2. CASE p # q
        BY <3>2, <2>2, <2>3 DEF IInv, WellReferred, Decided, agentVars
      <3> QED BY <3>1, <3>2
    <2>7. /\ agent'.cmd # NoCommand => commands'[agent'.cmd].status # "none"
          /\ agent'.pc \in {"handle", "record", "report"} => agent'.cmd # NoCommand
          /\ agent'.pc = "record" => ~Decided(agent.cmd)' /\ agent'.outcome \in Report
          /\ agent'.pc = "report" => Decided(agent.cmd)'
      BY <2>4 DEF IInv, WellReferred, Decided, agentVars
    <2> QED BY <2>1, <2>5, <2>6, <2>7 DEF WellReferred, Decided
  <1>3. RunsCounted'
    BY DEF IInv, RunsCounted, Decided, agentVars
  <1>4. RemovalsTookEffect'
    <2>1. agent.pc = "record" => agent.cmd \in CommandIds
      BY DEF IInv, TypeOK, AgentTypeOK, WellReferred
    <2> QED BY <2>1 DEF IInv, RemovalsTookEffect, agentVars
  <1> QED BY <1>1, <1>2, <1>3, <1>4 DEF IInv

LEMMA RequestsTyped ==
  ASSUME IInv, NEW q \in RequestIds
  PROVE  /\ requests[q] \in Request
         /\ requests[q].result # NoCommand => requests[q].result \in CommandIds /\ Decided(requests[q].result)
         /\ requests[q].cmd # NoCommand => requests[q].cmd \in CommandIds /\ commands[requests[q].cmd].status # "none"
         /\ requests[q].pc \in {"recorded", "removed"} => requests[q].result # NoCommand
         /\ requests[q].pc = "picked" => requests[q].cmd # NoCommand
  BY DEF IInv, TypeOK, WellReferred, Request

LEMMA RecordKeeps ==
  ASSUME IInv, NEW q \in RequestIds, Record(q)
  PROVE  IInv'
  <1> DEFINE c == requests[q].result
  <1>1. CASE c = NoCommand
    <2> DEFINE r == [requests[q] EXCEPT !.pc = "projected"]
    <2>1. r \in Request /\ r.result = NoCommand /\ r.cmd = requests[q].cmd /\ r.pc = "projected"
      BY <1>1, RequestsTyped DEF Request, RequestPC
    <2> QED BY <1>1, <2>1, RequestKeeps, RequestsTyped DEF Record, queueVars
  <1>2. CASE c # NoCommand /\ ~IsRow(c)
    <2> DEFINE r == [requests[q] EXCEPT !.pc = "done", !.ack = NoCommand, !.cmd = NoCommand]
    <2>1. r \in Request /\ r.result = c /\ r.cmd = NoCommand /\ r.pc = "done"
      BY RequestsTyped DEF Request, RequestPC
    <2>2. UpdateRequest(q, r) /\ UNCHANGED <<queueVars, agentVars, faultVars>>
      BY <1>2 DEF Record, Unavailable, queueVars
    <2> QED BY <1>2, <2>1, <2>2, RequestKeeps, RequestsTyped
  <1>3. CASE c # NoCommand /\ IsRow(c)
    <2> DEFINE r == [requests[q] EXCEPT !.pc = "recorded", !.ack = c]
    <2>1. c \in CommandIds /\ Decided(c)
      BY <1>3, RequestsTyped
    <2>2. r \in Request /\ r.result = c /\ r.cmd = requests[q].cmd /\ r.pc = "recorded"
      BY <2>1, RequestsTyped DEF Request, RequestPC
    <2>3. /\ UpdateRequest(q, r)
          /\ commands' = [commands EXCEPT ![c].status = IF @ \in ActiveStates THEN history[c].status ELSE @]
          /\ UNCHANGED <<instances, contracts, pendingRemovals, agentVars, faultVars>>
      BY <1>3 DEF Record, RecordResult
    <2>4. history[c].status \in FinalStates
      BY <2>1 DEF Decided, IInv, TypeOK, AgentTypeOK, Report
    <2>5. QueueTypeOK'
      BY <2>1, <2>3, <2>4 DEF IInv, TypeOK, QueueTypeOK, Row, RowStates
    <2>6. \A d \in CommandIds : /\ commands'[d].instance = commands[d].instance
                                /\ commands'[d].action = commands[d].action
                                /\ commands'[d].status # "none" <=> commands[d].status # "none"
      BY <2>1, <2>3, <2>4 DEF IInv, TypeOK, QueueTypeOK, Row, ActiveStates, FinalStates
    <2>7. ReportedIsRecorded'
      BY <2>1, <2>3, <2>4 DEF IInv, TypeOK, QueueTypeOK, Row, ReportedIsRecorded, IsFinal, agentVars
    <2>8. PurgedOnlyAfterRemoval' /\ ContractOutlivesInstances'
      BY <2>3 DEF IInv, PurgedOnlyAfterRemoval, ContractOutlivesInstances, agentVars
    <2> HIDE DEF r
    <2> QED BY <1>3, <2>1, <2>2, <2>3, <2>5, <2>6, <2>7, <2>8, TransactionKeeps, RequestsTyped
  <1> QED BY <1>1, <1>2, <1>3

LEMMA ProjectKeeps ==
  ASSUME IInv, NEW q \in RequestIds, Project(q)
  PROVE  IInv'
  <1> DEFINE c == requests[q].result
             i == commands[c].instance
             removed == commands[c].action = "remove" /\ history[c].status = "completed"
             r == [requests[q] EXCEPT !.pc = IF removed THEN "removed" ELSE "projected"]
  <1>1. c \in CommandIds /\ Decided(c) /\ i \in Instances /\ commands[c].action \in AllActions
    BY RequestsTyped DEF Project, IInv, WellReferred
  <1>2. r \in Request /\ r.result = c /\ r.cmd = requests[q].cmd /\ r.pc \in {"removed", "projected"}
    BY <1>1, RequestsTyped DEF Request, RequestPC
  <1>3. UpdateRequest(q, r) /\ UNCHANGED <<contracts, pendingRemovals, agentVars, faultVars>>
    BY DEF Project
  <1> HIDE DEF r
  <1>4. CASE removed
    <2>1. /\ instances' = [instances EXCEPT ![i] = "absent"]
          /\ commands' = [d \in CommandIds |-> IF IsRow(d) /\ commands[d].instance = i
                                               THEN [commands[d] EXCEPT !.status = "purged"]
                                               ELSE commands[d]]
      BY <1>4 DEF Project, DeleteInstance
    <2>2. QueueTypeOK'
      BY <1>1, <1>3, <2>1 DEF IInv, TypeOK, QueueTypeOK, Row, InstanceStatus
    <2>3. \A d \in CommandIds : /\ commands'[d].instance = commands[d].instance
                                /\ commands'[d].action = commands[d].action
                                /\ commands'[d].status # "none" <=> commands[d].status # "none"
      BY <2>1 DEF IInv, TypeOK, QueueTypeOK, Row, IsRow, RowStates, ActiveStates, FinalStates
    <2>4. ReportedIsRecorded'
      BY <1>3, <2>1 DEF IInv, TypeOK, QueueTypeOK, Row, ReportedIsRecorded, IsFinal, FinalStates, agentVars
    <2>5. PurgedOnlyAfterRemoval'
      BY <1>1, <1>3, <1>4, <2>1 DEF IInv, TypeOK, QueueTypeOK, PurgedOnlyAfterRemoval, RemovalsTookEffect, agentVars
    <2>6. ContractOutlivesInstances'
      BY <1>1, <1>3, <2>1 DEF IInv, TypeOK, QueueTypeOK, ContractOutlivesInstances
    <2> QED BY <1>1, <1>2, <1>3, <2>2, <2>3, <2>4, <2>5, <2>6, TransactionKeeps, RequestsTyped
  <1>5. CASE ~removed
    <2>1. commands' = commands
      BY <1>5 DEF Project
    <2>2. /\ instances' \in [Instances -> InstanceStatus]
          /\ \A j \in Instances : instances'[j] = "absent" <=> instances[j] = "absent"
      <3>1. CASE commands[c].action \in LifecycleActions
        <4> DEFINE s == ControllerStatus(commands[c].action, history[c])
        <4>1. s \in {"none", "failed", "online", "stopped"}
          BY DEF ControllerStatus
        <4>2. instances' = [instances EXCEPT ![i] = IF s = "none" \/ @ \in {"failed", "absent"} THEN @ ELSE s]
          BY <1>5, <3>1 DEF Project, ReconcileStatus
        <4> HIDE DEF s
        <4> QED BY <1>1, <4>1, <4>2 DEF IInv, TypeOK, QueueTypeOK, InstanceStatus
      <3>2. CASE commands[c].action \notin LifecycleActions
        BY <1>5, <3>2 DEF Project, IInv, TypeOK, QueueTypeOK
      <3> QED BY <3>1, <3>2
    <2>3. QueueTypeOK'
      BY <1>3, <2>1, <2>2 DEF IInv, TypeOK, QueueTypeOK
    <2>4. ReportedIsRecorded' /\ PurgedOnlyAfterRemoval' /\ ContractOutlivesInstances'
      BY <1>3, <2>1, <2>2 DEF IInv, TypeOK, QueueTypeOK, ReportedIsRecorded, PurgedOnlyAfterRemoval,
           ContractOutlivesInstances, IsFinal, agentVars
    <2>5. r.pc = "projected"
      BY <1>5, RequestsTyped DEF r, Request
    <2> QED BY <1>1, <1>2, <1>3, <2>1, <2>3, <2>4, <2>5, TransactionKeeps, RequestsTyped
  <1> QED BY <1>4, <1>5

LEMMA FinalizeKeeps ==
  ASSUME IInv, NEW q \in RequestIds, FinalizeContract(q)
  PROVE  IInv'
  <1> DEFINE i == commands[requests[q].result].instance
             r == [requests[q] EXCEPT !.pc = "projected"]
  <1>1. i \in Instances /\ ContractOf[i] \in Contracts
    BY RequestsTyped DEF FinalizeContract, IInv, WellReferred
  <1>2. r \in Request /\ r.result = requests[q].result /\ r.cmd = requests[q].cmd /\ r.pc = "projected"
    BY RequestsTyped DEF Request, RequestPC
  <1>3. /\ UpdateRequest(q, r)
        /\ FinalizeContractIfEmpty(ContractOf[i])
        /\ UNCHANGED <<instances, commands, pendingRemovals, agentVars, faultVars>>
    BY DEF FinalizeContract
  <1> HIDE DEF i, r
  <1>4. QueueTypeOK'
    BY <1>1, <1>3 DEF FinalizeContractIfEmpty, IInv, TypeOK, QueueTypeOK, ContractStatus
  <1>5. ReportedIsRecorded' /\ PurgedOnlyAfterRemoval'
    BY <1>3 DEF IInv, ReportedIsRecorded, PurgedOnlyAfterRemoval, IsFinal, agentVars
  <1>6. ContractOutlivesInstances'
    BY <1>1, <1>3 DEF FinalizeContractIfEmpty, IInv, TypeOK, QueueTypeOK, ContractOutlivesInstances
  <1> QED BY <1>2, <1>3, <1>4, <1>5, <1>6, TransactionKeeps, RequestsTyped

LEMMA PickKeeps ==
  ASSUME IInv, NEW q \in RequestIds, Pick(q)
  PROVE  IInv'
  <1>1. CASE UpdateRequest(q, [requests[q] EXCEPT !.pc = "done"])
    <2> DEFINE r == [requests[q] EXCEPT !.pc = "done"]
    <2>1. r \in Request /\ r.result = requests[q].result /\ r.cmd = requests[q].cmd /\ r.pc = "done"
      BY RequestsTyped DEF Request, RequestPC
    <2> QED BY <1>1, <2>1, RequestKeeps, RequestsTyped DEF Pick
  <1>2. ASSUME NEW c \in CommandIds, Oldest(c),
               UpdateRequest(q, [requests[q] EXCEPT !.pc = "picked", !.cmd = c])
        PROVE  IInv'
    <2> DEFINE r == [requests[q] EXCEPT !.pc = "picked", !.cmd = c]
    <2>1. r \in Request /\ r.result = requests[q].result /\ r.cmd = c /\ r.pc = "picked"
      BY RequestsTyped DEF Request, RequestPC
    <2>2. commands[c].status # "none" /\ c # NoCommand
      BY <1>2 DEF Oldest, IsActive, ActiveStates
    <2> HIDE DEF r
    <2> QED BY <1>2, <2>1, <2>2, RequestKeeps, RequestsTyped DEF Pick, r
  <1> QED BY <1>1, <1>2 DEF Pick

LEMMA DeliverKeeps ==
  ASSUME IInv, NEW q \in RequestIds, Deliver(q)
  PROVE  IInv'
  <1> DEFINE c == requests[q].cmd
             ack == IF requests[q].result = NoCommand /\ IsFinal(c) THEN c ELSE requests[q].ack
  <1>1. c \in CommandIds /\ commands[c].status # "none"
    BY RequestsTyped DEF Deliver
  <1>2. CASE IsRow(c)
    <2> DEFINE r == [requests[q] EXCEPT !.pc = "done", !.ack = ack]
    <2>1. r \in Request /\ r.result = requests[q].result /\ r.cmd = c /\ r.pc = "done"
      BY <1>1, RequestsTyped DEF Request, RequestPC
    <2>2. /\ UpdateRequest(q, r)
          /\ commands' = [commands EXCEPT ![c].status = IF @ = "queued" THEN "delivered" ELSE @]
          /\ UNCHANGED <<instances, contracts, pendingRemovals, agentVars, faultVars>>
      BY <1>2 DEF Deliver, MarkDelivered
    <2> HIDE DEF r
    <2>3. QueueTypeOK'
      BY <1>1, <2>2 DEF IInv, TypeOK, QueueTypeOK, Row, RowStates, ActiveStates
    <2>4. \A d \in CommandIds : /\ commands'[d].instance = commands[d].instance
                                /\ commands'[d].action = commands[d].action
                                /\ commands'[d].status # "none" <=> commands[d].status # "none"
                                /\ commands'[d].status \in FinalStates => commands'[d] = commands[d]
      BY <1>1, <2>2 DEF IInv, TypeOK, QueueTypeOK, Row, FinalStates
    <2>5. ReportedIsRecorded'
      BY <2>2, <2>4 DEF IInv, ReportedIsRecorded, IsFinal, agentVars
    <2>6. PurgedOnlyAfterRemoval' /\ ContractOutlivesInstances'
      BY <2>2 DEF IInv, PurgedOnlyAfterRemoval, ContractOutlivesInstances, agentVars
    <2> QED BY <1>1, <2>1, <2>2, <2>3, <2>4, <2>5, <2>6, TransactionKeeps, RequestsTyped
  <1>3. CASE ~IsRow(c)
    <2> DEFINE r == [requests[q] EXCEPT !.pc = "done", !.ack = NoCommand, !.cmd = NoCommand]
    <2>1. r \in Request /\ r.result = requests[q].result /\ r.cmd = NoCommand /\ r.pc = "done"
      BY RequestsTyped DEF Request, RequestPC
    <2>2. UpdateRequest(q, r) /\ UNCHANGED <<queueVars, agentVars, faultVars>>
      BY <1>3 DEF Deliver, Unavailable, queueVars
    <2> QED BY <2>1, <2>2, RequestKeeps, RequestsTyped
  <1> QED BY <1>2, <1>3

LEMMA HandlerKeeps ==
  ASSUME IInv, NEW q \in RequestIds, Handler(q)
  PROVE  IInv'
  BY RecordKeeps, ProjectKeeps, FinalizeKeeps, PickKeeps, DeliverKeeps DEF Handler

-----------------------------------------------------------------------------
(* Faults *)

LEMMA DiscardKeeps ==
  ASSUME IInv, NEW q \in RequestIds, DiscardOrphan(q)
  PROVE  IInv'
  <1>1. Free \in Request /\ Free.result = NoCommand /\ Free.cmd = NoCommand /\ Free.pc = "free"
    BY DEF Free, Request, RequestPC
  <1> QED BY <1>1, RequestKeeps DEF DiscardOrphan

\* The run of a daemon that dies before recording its outcome is not counted.
LEMMA CrashKeeps ==
  ASSUME IInv, Crash
  PROVE  IInv'
  <1> DEFINE c == agent.cmd
  <1>1. agent' = Idle /\ UNCHANGED <<queueVars, registry, history, results, requests, losses>>
    BY DEF Crash
  <1>2. agent.pc = "record" => c \in CommandIds /\ ~Decided(c)
    BY DEF IInv, TypeOK, AgentTypeOK, WellReferred
  <1>3. agent.pc = "record" => executions' = [executions EXCEPT ![c] = executions[c] - 1]
    BY DEF Crash
  <1>4. agent.pc # "record" => executions' = executions
    BY DEF Crash
  <1>5. agent.pc = "record" => executions[c] = 1
    BY <1>2 DEF IInv, RunsCounted
  <1>6. executions \in [CommandIds -> Nat]
    BY DEF IInv, TypeOK, AgentTypeOK
  <1>7. RunsCounted'
    BY <1>1, <1>2, <1>3, <1>4, <1>5, <1>6 DEF IInv, RunsCounted, Idle, Decided
  <1>8. executions' \in [CommandIds -> Nat]
    <2>1. CASE agent.pc = "record"
      BY <1>2, <1>3, <1>5, <1>6, <2>1
    <2>2. CASE agent.pc # "record"
      BY <1>4, <1>6, <2>2
    <2> QED BY <2>1, <2>2
  <1>9. TypeOK'
    BY <1>1, <1>8 DEF Crash, IInv, TypeOK, QueueTypeOK, AgentTypeOK, Idle, AgentPC, queueVars
  <1>10. WellReferred'
    BY <1>1 DEF IInv, WellReferred, Idle, Decided, queueVars
  <1>11. /\ RemovalsTookEffect' /\ ReportedIsRecorded'
         /\ PurgedOnlyAfterRemoval' /\ ContractOutlivesInstances'
    BY <1>1 DEF IInv, RemovalsTookEffect, ReportedIsRecorded, PurgedOnlyAfterRemoval,
                ContractOutlivesInstances, IsFinal, Idle, queueVars
  <1> QED BY <1>7, <1>9, <1>10, <1>11 DEF IInv

LEMMA LoseKeeps ==
  ASSUME IInv, NEW q \in RequestIds, Lose(q)
  PROVE  IInv'
  <1>1. requests' = [requests EXCEPT ![q] = Free]
    BY DEF Lose, UpdateRequest
  <1>2. agent' = agent \/ (agent.pc = "waiting" /\ agent' = Idle)
    BY DEF Lose, AwaitedBy
  <1>3. UNCHANGED <<queueVars, registry, history, results, executions>>
    BY DEF Lose
  <1>4. TypeOK'
    BY <1>1, <1>2, <1>3 DEF Lose, IInv, TypeOK, QueueTypeOK, AgentTypeOK, Idle, AgentPC, Free,
                            Request, RequestPC, queueVars
  <1>5. WellReferred'
    BY <1>1, <1>2, <1>3 DEF IInv, TypeOK, WellReferred, Idle, Free, Decided, queueVars
  <1>6. RunsCounted' /\ RemovalsTookEffect'
    BY <1>2, <1>3 DEF IInv, RunsCounted, RemovalsTookEffect, Idle, Decided, queueVars
  <1>7. ReportedIsRecorded' /\ PurgedOnlyAfterRemoval' /\ ContractOutlivesInstances'
    BY <1>3 DEF IInv, ReportedIsRecorded, PurgedOnlyAfterRemoval, ContractOutlivesInstances,
                IsFinal, queueVars
  <1> QED BY <1>4, <1>5, <1>6, <1>7 DEF IInv

LEMMA FaultsKeep == IInv /\ Faults => IInv'
  <1> SUFFICES ASSUME IInv, Faults PROVE IInv'
    OBVIOUS
  <1>1. CASE Crash
    BY <1>1, CrashKeeps
  <1>2. CASE Timeout
    <2>1. TypeOK' /\ WellReferred'
      BY <1>2 DEF Timeout, IInv, TypeOK, QueueTypeOK, AgentTypeOK, Idle, AgentPC, WellReferred,
                  Decided, queueVars
    <2> QED BY <1>2, <2>1, MessageKeeps DEF Timeout, Idle
  <1>3. CASE AdminCrash
    <2>1. TypeOK'
      BY <1>3 DEF AdminCrash, IInv, TypeOK, QueueTypeOK, AgentTypeOK, agentVars
    <2> QED BY <1>3, <2>1 DEF AdminCrash, IInv, WellReferred, RunsCounted, RemovalsTookEffect,
          ReportedIsRecorded, PurgedOnlyAfterRemoval, ContractOutlivesInstances, Decided, IsFinal, agentVars
  <1>4. ASSUME NEW q \in RequestIds, Lose(q) PROVE IInv'
    BY <1>4, LoseKeeps
  <1> QED BY <1>1, <1>2, <1>3, <1>4 DEF Faults

-----------------------------------------------------------------------------
(* The theorems *)

LEMMA StepKeeps == IInv /\ [Next]_vars => IInv'
  <1> SUFFICES ASSUME IInv, [Next]_vars PROVE IInv'
    OBVIOUS
  <1>1. CASE UNCHANGED vars
    BY <1>1 DEF vars, queueVars, agentVars, faultVars, IInv, TypeOK, QueueTypeOK, AgentTypeOK,
         WellReferred, RunsCounted, RemovalsTookEffect, ReportedIsRecorded, PurgedOnlyAfterRemoval,
         ContractOutlivesInstances, Decided, IsFinal
  <1>2. CASE Next
    BY <1>2, UserStepKeeps, AdminStepKeeps, AgentStepKeeps, HandlerKeeps, DiscardKeeps, FaultsKeep DEF Next
  <1> QED BY <1>1, <1>2

\* The invariant from which the safety properties follow holds in every reachable
\* state of the exchange.
THEOREM Inductive == Spec => []IInv
  <1>1. Init => IInv
    BY InitIInv
  <1>2. IInv /\ [Next]_vars => IInv'
    BY StepKeeps
  <1> QED BY <1>1, <1>2, PTL DEF Spec

\* Rows, files, memory and requests keep their types.
THEOREM TypesHold == Spec => []TypeOK
  <1>1. IInv => TypeOK
    BY DEF IInv
  <1> QED BY <1>1, Inductive, PTL

\* handle_command takes effect once per command, up to a crash before recording.
THEOREM CommandsRunOnce == Spec => []AtMostOnce
  <1>1. IInv => AtMostOnce
    BY DEF IInv, RunsCounted, AtMostOnce
  <1> QED BY <1>1, Inductive, PTL

\* apply_result only ever records what the Agent's history says.
THEOREM RecordsAreTrue == Spec => []ReportedIsRecorded
  <1>1. IInv => ReportedIsRecorded
    BY DEF IInv
  <1> QED BY <1>1, Inductive, PTL

\* delete_instance runs only after the Agent removed the runtime.
THEOREM DeletionIsConfirmed == Spec => []PurgedOnlyAfterRemoval
  <1>1. IInv => PurgedOnlyAfterRemoval
    BY DEF IInv
  <1> QED BY <1>1, Inductive, PTL

\* A contract row is deleted only when no instance of it is left.
THEOREM ContractsGoLast == Spec => []ContractOutlivesInstances
  <1>1. IInv => ContractOutlivesInstances
    BY DEF IInv
  <1> QED BY <1>1, Inductive, PTL

=============================================================================
