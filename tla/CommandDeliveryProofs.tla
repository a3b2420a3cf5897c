------------------------ MODULE CommandDeliveryProofs ------------------------
(***************************************************************************)
(* More about CommandExchange for any number of instances, commands,       *)
(* requests and faults: what a row may become in one step, and from it     *)
(* that active commands exclude each other, that final rows stay, that no  *)
(* result is dropped early and that only awaited commands are executed;    *)
(* and that every step is one step of CommandPromise or none.              *)
(***************************************************************************)
EXTENDS CommandExchangeProofs

-----------------------------------------------------------------------------
(* What one step may do to rows and files *)

\* A row that exists keeps its command, and its status moves one way.
RowMoves(c) ==
  \/ commands'[c] = commands[c]
  \/ /\ commands'[c].instance = commands[c].instance /\ commands'[c].action = commands[c].action
     /\ \/ commands[c].status \in ActiveStates /\ commands'[c].status \in FinalStates /\ Decided(c)
        \/ commands[c].status = "queued" /\ commands'[c].status = "delivered"
        \/ /\ IsRow(c) /\ commands'[c].status = "purged"
           /\ registry[commands[c].instance] = "absent" /\ instances'[commands[c].instance] = "absent"

Inserts == \E i \in Instances, a \in AllActions, c \in CommandIds : Insert(i, a, c)

LEMMA RowsTyped ==
  ASSUME IInv
  PROVE  /\ \A c \in CommandIds : commands[c] \in Row
         /\ commands \in [CommandIds -> Row]
         /\ \A q \in RequestIds : requests[q] \in Request
  BY DEF IInv, TypeOK, QueueTypeOK

\* The transactions of a handler thread.
LEMMA HandlerMoves ==
  ASSUME IInv, NEW q \in RequestIds, Handler(q), NEW c \in CommandIds
  PROVE  RowMoves(c)
  <1>1. CASE Record(q)
    <2> DEFINE r == requests[q].result
    <2>1. CASE UNCHANGED commands
      BY <2>1 DEF RowMoves
    <2>2. CASE r # NoCommand /\ RecordResult(r, history[r].status)
      <3>1. r \in CommandIds /\ Decided(r) /\ history[r].status \in FinalStates
        BY <2>2, RowsTyped DEF IInv, WellReferred, Request, TypeOK, AgentTypeOK, Report, Decided
      <3>2. commands' = [commands EXCEPT ![r].status = IF @ \in ActiveStates THEN history[r].status ELSE @]
        BY <2>2 DEF RecordResult
      <3>3. CASE c = r
        BY <3>1, <3>2, <3>3, RowsTyped DEF RowMoves, Row
      <3>4. CASE c # r
        BY <3>2, <3>4, RowsTyped DEF RowMoves
      <3> QED BY <3>3, <3>4
    <2> QED BY <1>1, <2>1, <2>2 DEF Record
  <1>2. CASE Project(q)
    <2>1. CASE UNCHANGED commands
      BY <2>1 DEF RowMoves
    <2>2. CASE /\ commands[requests[q].result].action = "remove" /\ history[requests[q].result].status = "completed"
               /\ DeleteInstance(commands[requests[q].result].instance)
      <3> DEFINE r == requests[q].result
                 i == commands[r].instance
      <3>1. r \in CommandIds /\ i \in Instances
        BY <1>2, RowsTyped DEF Project, IInv, WellReferred, Request
      <3>2. registry[i] = "absent"
        BY <2>2, <3>1 DEF IInv, RemovalsTookEffect
      <3>3. /\ instances' = [instances EXCEPT ![i] = "absent"]
            /\ commands'[c] = IF IsRow(c) /\ commands[c].instance = i
                              THEN [commands[c] EXCEPT !.status = "purged"] ELSE commands[c]
        BY <2>2 DEF DeleteInstance
      <3>4. instances'[i] = "absent"
        BY <3>1, <3>3 DEF IInv, TypeOK, QueueTypeOK
      <3> QED BY <3>2, <3>3, <3>4, RowsTyped DEF RowMoves, Row
    <2> QED BY <1>2, <2>1, <2>2 DEF Project
  <1>3. CASE FinalizeContract(q) \/ Pick(q)
    BY <1>3 DEF FinalizeContract, Pick, queueVars, RowMoves
  <1>4. CASE Deliver(q)
    <2> DEFINE d == requests[q].cmd
    <2>1. CASE UNCHANGED commands
      BY <2>1 DEF RowMoves
    <2>2. CASE MarkDelivered(d)
      <3>1. commands' = [commands EXCEPT ![d].status = IF @ = "queued" THEN "delivered" ELSE @]
        BY <2>2 DEF MarkDelivered
      <3>2. CASE c = d
        BY <3>1, <3>2, RowsTyped DEF RowMoves, Row
      <3>3. CASE c # d
        BY <3>1, <3>3, RowsTyped DEF RowMoves
      <3> QED BY <3>2, <3>3
    <2> QED BY <1>4, <2>1, <2>2 DEF Deliver
  <1> QED BY <1>1, <1>2, <1>3, <1>4 DEF Handler

\* Rows change by an insertion, which leaves the Agent and the requests alone, or one by one.
LEMMA StepShape ==
  ASSUME IInv, [Next]_vars
  PROVE  \/ Inserts /\ UNCHANGED <<agentVars, requests>>
         \/ \A c \in CommandIds : RowMoves(c)
  <1>1. CASE UserStep
    BY <1>1, QueueAssumption DEF UserStep, Enqueue, Inserts
  <1>2. CASE AdminStep
    BY <1>2 DEF AdminStep, BeginInstanceDelete, BeginContractDelete, QueueRemoval, Inserts, AllActions, RowMoves
  <1>3. CASE AgentStep
    BY <1>3 DEF AgentStep, SendHeartbeat, Receive, Flush, HandleCommand, queueVars, RowMoves
  <1>4. CASE \E q \in RequestIds : Handler(q)
    BY <1>4, HandlerMoves
  <1>5. CASE \E q \in RequestIds : DiscardOrphan(q)
    BY <1>5 DEF DiscardOrphan, queueVars, RowMoves
  <1>6. CASE Faults
    BY <1>6 DEF Faults, Crash, Timeout, AdminCrash, Lose, queueVars, RowMoves
  <1>7. CASE UNCHANGED vars
    BY <1>7 DEF vars, queueVars, RowMoves
  <1> QED BY <1>1, <1>2, <1>3, <1>4, <1>5, <1>6, <1>7 DEF Next

\* The Agent's history keeps what it holds, and a record that is gone stays gone.
LEMMA FilesStand ==
  ASSUME IInv, [Next]_vars
  PROVE  /\ \A c \in CommandIds : Decided(c) => history'[c] = history[c]
         /\ \A i \in Instances : registry[i] = "absent" => registry'[i] = "absent"
  <1>1. CASE HandleCommand
    <2>1. CASE RecordHistory
      <3>1. agent.cmd \in CommandIds /\ ~Decided(agent.cmd) /\ history \in [CommandIds -> Report \cup {NoReport}]
        BY <2>1 DEF RecordHistory, IInv, TypeOK, AgentTypeOK, WellReferred
      <3> QED BY <2>1, <3>1 DEF RecordHistory
    <2>2. CASE Execute
      <3> DEFINE c == agent.cmd
                 i == commands[c].instance
                 a == commands[c].action
      <3>1. c \in CommandIds /\ i \in Instances /\ a \in AllActions
        BY <2>2 DEF Execute, IInv, TypeOK, AgentTypeOK, WellReferred
      <3>2. PICK e \in Effects(a, registry[i]) : registry' = [registry EXCEPT ![i] = e.record]
        BY <2>2 DEF Execute
      <3>3. registry \in [Instances -> {"absent", "running", "stopped"}]
        BY DEF IInv, TypeOK, AgentTypeOK
      <3>4. registry[i] = "absent" => e.record = "absent"
        BY <3>1, <3>3, EffectsSound
      <3> QED BY <2>2, <3>1, <3>2, <3>3, <3>4 DEF Execute
    <2>3. CASE ReplayHistory \/ WriteResult \/ ClearResult
      BY <2>3 DEF ReplayHistory, WriteResult, ClearResult
    <2> QED BY <1>1, <2>1, <2>2, <2>3 DEF HandleCommand
  <1>2. CASE ~HandleCommand
    <2>1. UNCHANGED <<history, registry>>
      <3>1. CASE UserStep \/ AdminStep \/ Faults \/ UNCHANGED vars
        BY <3>1 DEF UserStep, AdminStep, Faults, Crash, Timeout, AdminCrash, Lose, vars, agentVars
      <3>2. CASE AgentStep
        BY <1>2, <3>2 DEF AgentStep, SendHeartbeat, Receive, Flush
      <3>3. CASE \E q \in RequestIds : Handler(q) \/ DiscardOrphan(q)
        BY <3>3 DEF Handler, Record, Project, FinalizeContract, Pick, Deliver, DiscardOrphan, agentVars
      <3> QED BY <3>1, <3>2, <3>3 DEF Next
    <2> QED BY <2>1
  <1> QED BY <1>1, <1>2

-----------------------------------------------------------------------------
(* What messages and memory may claim of a command *)

Settled(c) == IsFinal(c) \/ commands[c].status = "purged"

\* Recorded on the Agent, waited for by the Controller, or gone with its instance.
Live(c) ==
  \/ Decided(c)
  \/ commands[c].status = "delivered"
  \/ commands[c].status = "purged" /\ registry[commands[c].instance] = "absent"

RequestsClaim ==
  \A q \in RequestIds, c \in CommandIds :
    /\ requests[q].ack = c => Settled(c)
    /\ requests[q].cmd = c => requests[q].pc \in {"picked", "done"}
    /\ requests[q].cmd = c /\ requests[q].pc = "done" => Live(c)

AgentClaims ==
  \A c \in CommandIds :
    /\ agent.ack = c => Settled(c)
    /\ agent.cmd = c /\ agent.pc = "handle" => Live(c)

DeliveryInv == RequestsClaim /\ AgentClaims /\ OneSerializedActive

\* A claim stays true: files only grow and rows only move on.
LEMMA ClaimsStand ==
  ASSUME IInv, [Next]_vars, NEW c \in CommandIds
  PROVE  (Settled(c) => Settled(c)') /\ (Live(c) => Live(c)')
  <1>1. Decided(c) => Decided(c)'
    BY FilesStand DEF Decided
  <1>2. commands[c].status # "none" => commands[c].instance \in Instances
    BY DEF IInv, WellReferred
  <1>3. CASE Inserts
    <2>1. PICK i \in Instances, a \in AllActions, d \in CommandIds : Insert(i, a, d)
      BY <1>3 DEF Inserts
    <2>2. c # d => commands'[c] = commands[c]
      BY <2>1, RowsTyped DEF Insert
    <2>3. c = d => commands[c].status = "none"
      BY <2>1 DEF Insert, NoRow
    <2>4. registry[commands[c].instance] = "absent" /\ commands[c].status = "purged" => registry'[commands[c].instance] = "absent"
      BY <1>2, FilesStand
    <2> QED BY <1>1, <2>2, <2>3, <2>4 DEF Settled, Live, IsFinal, FinalStates
  <1>4. CASE RowMoves(c)
    <2>1. commands[c].status # "none" /\ registry[commands[c].instance] = "absent" => registry'[commands[c].instance] = "absent"
      BY <1>2, FilesStand
    <2>2. CASE commands'[c] = commands[c]
      BY <1>1, <2>1, <2>2 DEF Settled, Live, IsFinal
    <2>3. CASE commands[c].status \in ActiveStates /\ commands'[c].status \in FinalStates /\ Decided(c)
      BY <1>1, <2>3 DEF Settled, Live, IsFinal
    <2>4. CASE commands[c].status = "queued" /\ commands'[c].status = "delivered"
      BY <1>1, <2>4 DEF Settled, Live, IsFinal, FinalStates
    <2>5. CASE /\ IsRow(c) /\ commands'[c].status = "purged" /\ commands'[c].instance = commands[c].instance
               /\ registry[commands[c].instance] = "absent"
      BY <1>1, <2>1, <2>5 DEF Settled, Live, IsRow, RowStates, ActiveStates, FinalStates
    <2> QED BY <1>4, <2>2, <2>3, <2>4, <2>5 DEF RowMoves
  <1> QED BY <1>3, <1>4, StepShape

LEMMA ClaimsInit == Init => DeliveryInv
  BY QueueAssumption DEF Init, QueueInit, AgentInit, DeliveryInv, RequestsClaim, AgentClaims, OneSerializedActive, Idle, Free, NoCommand,
     NoRow, IsActive, ActiveStates

\* A step that leaves requests alone, or frees one, or sends one.
LEMMA RequestsClaimKept ==
  ASSUME IInv, RequestsClaim, [Next]_vars,
         \A q \in RequestIds : \/ requests'[q] = requests[q]
                               \/ requests'[q].ack = NoCommand /\ requests'[q].cmd = NoCommand
  PROVE  RequestsClaim'
  <1> SUFFICES ASSUME NEW q \in RequestIds, NEW c \in CommandIds
               PROVE  /\ requests'[q].ack = c => Settled(c)'
                      /\ requests'[q].cmd = c => requests'[q].pc \in {"picked", "done"}
                      /\ requests'[q].cmd = c /\ requests'[q].pc = "done" => Live(c)'
    BY DEF RequestsClaim
  <1>1. c # NoCommand
    BY QueueAssumption DEF NoCommand
  <1> QED BY <1>1, ClaimsStand DEF RequestsClaim

\* A handler thread's claims.
LEMMA HandlerClaims ==
  ASSUME IInv, RequestsClaim, [Next]_vars, NEW p \in RequestIds, Handler(p)
  PROVE  RequestsClaim'
  <1> SUFFICES ASSUME NEW q \in RequestIds, NEW c \in CommandIds
               PROVE  /\ requests'[q].ack = c => Settled(c)'
                      /\ requests'[q].cmd = c => requests'[q].pc \in {"picked", "done"}
                      /\ requests'[q].cmd = c /\ requests'[q].pc = "done" => Live(c)'
    BY DEF RequestsClaim
  <1>1. c # NoCommand
    BY QueueAssumption DEF NoCommand
  <1>2. PICK r : UpdateRequest(p, r)
    BY DEF Handler, Record, Project, FinalizeContract, Pick, Deliver, Unavailable
  <1>3. requests' = [requests EXCEPT ![p] = r] /\ requests \in [RequestIds -> Request]
    BY <1>2 DEF UpdateRequest, IInv, TypeOK
  <1>4. CASE q # p
    BY <1>3, <1>4, ClaimsStand DEF RequestsClaim
  <1>5. CASE q = p
    <2>1. requests'[q] = r /\ requests[q] \in Request
      BY <1>3, <1>5
    <2>0. Unavailable(p) => requests'[q].cmd = NoCommand /\ requests'[q].ack = NoCommand
      <3> DEFINE u == [requests[p] EXCEPT !.pc = "done", !.ack = NoCommand, !.cmd = NoCommand]
      <3>1. u.cmd = NoCommand /\ u.ack = NoCommand
        BY <1>5, <2>1 DEF Request
      <3>2. Unavailable(p) => requests' = [requests EXCEPT ![p] = u]
        BY DEF Unavailable, UpdateRequest
      <3> HIDE DEF u
      <3> QED BY <1>3, <1>5, <3>1, <3>2
    <2>2. CASE Record(p)
      <3> DEFINE d == requests[p].result
      <3>1. requests[q].cmd = NoCommand
        BY <1>5, <2>1, <2>2 DEF Record, RequestsClaim, Request
      <3>2. CASE requests'[q].cmd = NoCommand /\ requests'[q].ack = NoCommand
        BY <1>1, <3>2
      <3>3. CASE d = NoCommand /\ UpdateRequest(p, [requests[p] EXCEPT !.pc = "projected"])
        BY <1>1, <1>3, <1>5, <2>1, <3>1, <3>3, ClaimsStand DEF UpdateRequest, Request, RequestsClaim
      <3>4. CASE d # NoCommand /\ IsRow(d) /\ RecordResult(d, history[d].status)
                 /\ UpdateRequest(p, [requests[p] EXCEPT !.pc = "recorded", !.ack = d])
        <4>1. d \in CommandIds /\ Decided(d) /\ history[d].status \in FinalStates
          BY <3>4, RowsTyped DEF IInv, WellReferred, Request, TypeOK, AgentTypeOK, Report, Decided
        <4>2. commands'[d].status \in FinalStates
          BY <3>4, <4>1, RowsTyped DEF RecordResult, Row, IsRow, RowStates
        <4>3. requests'[q].ack = d /\ requests'[q].cmd = NoCommand
          BY <1>3, <1>5, <2>1, <3>1, <3>4 DEF UpdateRequest, Request
        <4> QED BY <1>1, <4>2, <4>3 DEF Settled, IsFinal
      <3>5. CASE Unavailable(p)
        BY <2>0, <3>2, <3>5
      <3> QED BY <2>2, <3>3, <3>4, <3>5 DEF Record
    <2>3. CASE Project(p) \/ FinalizeContract(p)
      <3>1. requests[p].pc \in {"recorded", "removed"}
        BY <2>3 DEF Project, FinalizeContract
      <3>2. requests'[q].ack = requests[q].ack /\ requests'[q].cmd = requests[q].cmd
        BY <1>3, <1>5, <2>1, <2>3 DEF Project, FinalizeContract, UpdateRequest, Request
      <3>3. requests[q].cmd # c
        BY <1>5, <3>1 DEF RequestsClaim
      <3> QED BY <3>2, <3>3, ClaimsStand DEF RequestsClaim
    <2>4. CASE Pick(p)
      <3>1. requests[q].cmd # c
        BY <1>5, <2>4 DEF Pick, RequestsClaim
      <3>2. CASE UpdateRequest(p, [requests[p] EXCEPT !.pc = "done"])
        <4>1. requests'[q].ack = requests[q].ack /\ requests'[q].cmd = requests[q].cmd
          BY <1>3, <1>5, <2>1, <3>2 DEF UpdateRequest, Request
        <4> QED BY <3>1, <4>1, ClaimsStand DEF RequestsClaim
      <3>3. CASE \E d \in CommandIds : UpdateRequest(p, [requests[p] EXCEPT !.pc = "picked", !.cmd = d])
        <4>1. requests'[q].ack = requests[q].ack /\ requests'[q].pc = "picked"
          BY <1>3, <1>5, <2>1, <3>3 DEF UpdateRequest, Request
        <4> QED BY <4>1, ClaimsStand DEF RequestsClaim
      <3> QED BY <2>4, <3>2, <3>3 DEF Pick
    <2>5. CASE Deliver(p)
      <3> DEFINE d == requests[p].cmd
                 ack == IF requests[p].result = NoCommand /\ IsFinal(d) THEN d ELSE requests[p].ack
      <3>1. CASE Unavailable(p)
        BY <1>1, <2>0, <3>1
      <3>2. CASE IsRow(d) /\ MarkDelivered(d) /\ UpdateRequest(p, [requests[p] EXCEPT !.pc = "done", !.ack = ack])
        <4>1. requests'[q].ack = ack /\ requests'[q].cmd = d /\ requests'[q].pc = "done"
          BY <1>3, <1>5, <2>1, <3>2 DEF UpdateRequest, Request
        <4>2. d = c => Live(c)'
          <5>1. SUFFICES ASSUME d = c PROVE Live(c)'
            OBVIOUS
          <5>2. CASE commands[c].status \in ActiveStates
            BY <3>2, <5>1, <5>2, RowsTyped DEF MarkDelivered, Live, ActiveStates, Row
          <5>3. CASE commands[c].status \in FinalStates
            <6>1. Decided(c)
              BY <5>3 DEF IInv, ReportedIsRecorded, IsFinal, FinalStates, Decided, NoReport
            <6> QED BY <6>1, ClaimsStand DEF Live
          <5> QED BY <3>2, <5>1, <5>2, <5>3 DEF IsRow, RowStates
        <4>3. ack = c => Settled(c)
          BY <1>5 DEF RequestsClaim, Settled
        <4> QED BY <4>1, <4>2, <4>3, ClaimsStand
      <3> QED BY <2>5, <3>1, <3>2 DEF Deliver
    <2> QED BY <2>2, <2>3, <2>4, <2>5 DEF Handler
  <1> QED BY <1>4, <1>5

LEMMA DeliveryStep ==
  ASSUME IInv, RequestsClaim, AgentClaims, [Next]_vars
  PROVE  RequestsClaim' /\ AgentClaims'
  <1> DEFINE Stays == \A c \in CommandIds : /\ agent'.ack = c => agent.ack = c
                                            /\ agent'.cmd = c /\ agent'.pc = "handle" => agent.cmd = c /\ agent.pc = "handle"
  <1>0. \A c \in CommandIds : c # NoCommand
    BY QueueAssumption DEF NoCommand
  <1>1. Stays => AgentClaims'
    <2> SUFFICES ASSUME Stays, NEW c \in CommandIds
                 PROVE  (agent'.ack = c => Settled(c)') /\ (agent'.cmd = c /\ agent'.pc = "handle" => Live(c)')
      BY DEF AgentClaims
    <2> QED BY ClaimsStand DEF AgentClaims
  <1>2. agent' = agent \/ agent' = Idle => Stays
    BY <1>0 DEF Idle
  <1>3. Free.ack = NoCommand /\ Free.cmd = NoCommand
    BY DEF Free
  <1>4. UNCHANGED requests => RequestsClaim'
    BY RequestsClaimKept
  <1>5. CASE UserStep \/ AdminStep \/ UNCHANGED vars \/ Crash \/ Timeout \/ AdminCrash
    <2>1. UNCHANGED requests /\ (agent' = agent \/ agent' = Idle)
      BY <1>5 DEF UserStep, AdminStep, vars, agentVars, Crash, Timeout, AdminCrash
    <2> QED BY <1>1, <1>2, <1>4, <2>1
  <1>6. ASSUME NEW q \in RequestIds, Lose(q) \/ DiscardOrphan(q) PROVE RequestsClaim' /\ AgentClaims'
    <2>1. requests' = [requests EXCEPT ![q] = Free] /\ (agent' = agent \/ agent' = Idle)
      BY <1>6 DEF Lose, DiscardOrphan, UpdateRequest, agentVars
    <2>2. RequestsClaim'
      BY <1>3, <2>1, RequestsClaimKept DEF IInv, TypeOK
    <2> QED BY <1>1, <1>2, <2>1, <2>2
  <1>7. ASSUME NEW q \in RequestIds, Handler(q) PROVE RequestsClaim' /\ AgentClaims'
    <2>1. agent' = agent
      BY <1>7 DEF Handler, Record, Project, FinalizeContract, Pick, Deliver, agentVars
    <2> QED BY <1>1, <1>2, <1>7, <2>1, HandlerClaims
  <1>8. ASSUME NEW q \in RequestIds, NEW flush \in BOOLEAN, Send(q, flush) PROVE RequestsClaim' /\ AgentClaims'
    <2>1. /\ agent' = [Idle EXCEPT !.pc = "waiting", !.request = q]
          /\ \E r : requests' = [requests EXCEPT ![q] = [Free EXCEPT !.pc = "sent", !.flush = flush, !.result = r]]
      BY <1>8 DEF Send
    <2>2. Stays
      BY <1>0, <2>1 DEF Idle
    <2>3. RequestsClaim'
      <3>1. \A r : LET f == [Free EXCEPT !.pc = "sent", !.flush = flush, !.result = r]
                   IN  f.ack = NoCommand /\ f.cmd = NoCommand
        BY DEF Free
      <3>2. PICK f : requests' = [requests EXCEPT ![q] = f] /\ f.ack = NoCommand /\ f.cmd = NoCommand
        BY <2>1, <3>1
      <3> QED BY <3>2, RequestsClaimKept DEF IInv, TypeOK
    <2> QED BY <1>1, <2>2, <2>3
  <1>9. ASSUME NEW q \in RequestIds, Receive(q) PROVE RequestsClaim' /\ AgentClaims'
    <2>1. /\ requests[q].pc = "done" /\ requests' = [requests EXCEPT ![q] = Free]
          /\ agent'.ack = requests[q].ack /\ agent'.cmd = requests[q].cmd
      BY <1>9 DEF Receive, Idle
    <2>2. RequestsClaim'
      BY <1>3, <2>1, RequestsClaimKept DEF IInv, TypeOK
    <2>3. AgentClaims'
      <3> SUFFICES ASSUME NEW c \in CommandIds
                   PROVE  (agent'.ack = c => Settled(c)') /\ (agent'.cmd = c /\ agent'.pc = "handle" => Live(c)')
        BY DEF AgentClaims
      <3> QED BY <2>1, ClaimsStand DEF RequestsClaim
    <2> QED BY <2>2, <2>3
  <1>10. CASE HandleCommand
    <2>1. UNCHANGED requests
      BY <1>10 DEF HandleCommand
    <2>2. agent \in [pc : AgentPC, request : RequestIds \cup {NoRequest}, cmd : CommandIds \cup {NoCommand},
                     ack : CommandIds \cup {NoCommand}, outcome : Report \cup {NoReport}]
      BY DEF IInv, TypeOK, AgentTypeOK
    <2>3. Stays
      <3>1. CASE Execute \/ RecordHistory \/ ReplayHistory \/ WriteResult
        BY <2>2, <3>1 DEF Execute, RecordHistory, ReplayHistory, WriteResult
      <3>2. CASE ClearResult
        BY <1>0, <3>2 DEF ClearResult, Idle
      <3> QED BY <1>10, <3>1, <3>2 DEF HandleCommand
    <2> QED BY <1>1, <1>4, <2>1, <2>3
  <1>11. CASE Flush
    <2>1. CASE agent' = Idle /\ UNCHANGED requests
      BY <1>1, <1>2, <1>4, <2>1
    <2> QED BY <1>8, <1>11, <2>1 DEF Flush
  <1> QED BY <1>5, <1>6, <1>7, <1>8, <1>9, <1>10, <1>11 DEF Next, AgentStep, SendHeartbeat, Faults

\* A new row excludes nothing that is active, and active rows come from nowhere else.
LEMMA ExclusionStep ==
  ASSUME IInv, OneSerializedActive, [Next]_vars
  PROVE  OneSerializedActive'
  <1> SUFFICES ASSUME NEW c \in CommandIds, NEW d \in CommandIds, c # d,
                      commands'[c].status \in ActiveStates, commands'[d].status \in ActiveStates,
                      commands'[c].instance = commands'[d].instance
               PROVE  ~Excludes(commands'[c].action, commands'[d].action)
    BY DEF OneSerializedActive, IsActive
  <1>1. CASE Inserts
    <2>1. PICK i \in Instances, a \in AllActions, e \in CommandIds : Insert(i, a, e)
      BY <1>1 DEF Inserts
    <2>2. /\ \A b \in CommandIds \ {e} : commands'[b] = commands[b]
          /\ commands'[e].instance = i /\ commands'[e].action = a
          /\ \A b \in CommandIds : IsActive(b) /\ commands[b].instance = i => ~Excludes(a, commands[b].action)
      BY <2>1, RowsTyped DEF Insert
    <2>3. CASE c # e /\ d # e
      BY <2>2, <2>3 DEF OneSerializedActive, IsActive
    <2>4. CASE c = e \/ d = e
      <3>1. \A x, y : Excludes(x, y) => Excludes(y, x)
        BY DEF Excludes
      <3> QED BY <2>2, <2>4, <3>1 DEF IsActive
    <2> QED BY <2>3, <2>4
  <1>2. CASE \A b \in CommandIds : RowMoves(b)
    <2>1. \A b \in {c, d} : /\ commands[b].status \in ActiveStates
                            /\ commands'[b].instance = commands[b].instance /\ commands'[b].action = commands[b].action
      BY <1>2 DEF RowMoves, ActiveStates, FinalStates
    <2> QED BY <2>1 DEF OneSerializedActive, IsActive
  <1> QED BY <1>1, <1>2, StepShape

-----------------------------------------------------------------------------
(* The theorems *)

THEOREM Delivered == Spec => [](IInv /\ DeliveryInv)
  <1>1. IInv /\ DeliveryInv /\ [Next]_vars => DeliveryInv'
    BY DeliveryStep, ExclusionStep DEF DeliveryInv
  <1> QED BY <1>1, ClaimsInit, Inductive, PTL DEF Spec

\* Arbitration: enqueue and mark_delivered never hold two active commands of one instance
\* that exclude each other (agent_instance_runtime_repository.py, enqueue).
THEOREM ActiveCommandsExclude == Spec => []OneSerializedActive
  <1>1. DeliveryInv => OneSerializedActive
    BY DEF DeliveryInv
  <1> QED BY <1>1, Delivered, PTL

\* The daemon starts only a command the Controller waits for, or one whose instance is gone.
THEOREM OnlyAwaitedRun == Spec => []ExecutesOnlyLive
  <1>1. DeliveryInv => ExecutesOnlyLive
    BY DEF DeliveryInv, AgentClaims, ExecutesOnlyLive, Live
  <1> QED BY <1>1, Delivered, PTL

\* The guarded UPDATE of apply_result: a final row keeps its first result until it is purged.
THEOREM FirstResultStays == Spec => FinalIsForever
  <1>1. IInv /\ [Next]_vars =>
          [\A c \in CommandIds : IsFinal(c) =>
             \/ commands'[c].status = commands[c].status
             \/ commands'[c].status = "purged" /\ instances'[commands[c].instance] = "absent"]_vars
    <2> SUFFICES ASSUME IInv, [Next]_vars, NEW c \in CommandIds, IsFinal(c)
                 PROVE  \/ commands'[c].status = commands[c].status
                        \/ commands'[c].status = "purged" /\ instances'[commands[c].instance] = "absent"
      OBVIOUS
    <2>1. CASE Inserts
      BY <2>1, RowsTyped DEF Inserts, Insert, NoRow, IsFinal, FinalStates
    <2>2. CASE RowMoves(c)
      BY <2>2 DEF RowMoves, IsFinal, FinalStates, ActiveStates
    <2> QED BY <2>1, <2>2, StepShape
  <1> QED BY <1>1, Inductive, PTL DEF Spec, FinalIsForever

\* clear_result drops only what the Controller has recorded or purged.
THEOREM ResultsAwaitRecording == Spec => NoResultLost
  <1>1. IInv /\ DeliveryInv /\ [Next]_vars =>
          [\A c \in results : c \in results' \/ IsFinal(c) \/ commands[c].status = "purged"]_vars
    <2> SUFFICES ASSUME IInv, AgentClaims, [Next]_vars, NEW c \in results, c \notin results'
                 PROVE  IsFinal(c) \/ commands[c].status = "purged"
      BY DEF DeliveryInv
    <2>1. c \in CommandIds
      BY DEF IInv, TypeOK, AgentTypeOK
    <2>2. HandleCommand
      <3>1. ~(UserStep \/ AdminStep \/ Faults \/ UNCHANGED vars)
        BY DEF UserStep, AdminStep, Faults, Crash, Timeout, AdminCrash, Lose, vars, agentVars
      <3>2. ~\E q \in RequestIds : Handler(q) \/ DiscardOrphan(q)
        BY DEF Handler, Record, Project, FinalizeContract, Pick, Deliver, DiscardOrphan, agentVars
      <3>3. ~(Flush \/ \E q \in RequestIds : SendHeartbeat(q) \/ Receive(q))
        BY DEF SendHeartbeat, Receive, Flush
      <3> QED BY <3>1, <3>2, <3>3 DEF Next, AgentStep
    <2>3. ClearResult
      BY <2>2 DEF HandleCommand, Execute, RecordHistory, ReplayHistory, WriteResult
    <2>4. c = agent.ack
      BY <2>3 DEF ClearResult
    <2> QED BY <2>1, <2>4 DEF AgentClaims, Settled
  <1> QED BY <1>1, Delivered, PTL DEF Spec, NoResultLost

-----------------------------------------------------------------------------
(* What makes a deletion a step of the promise *)

\* A thread about to project a result has recorded it; an instance and its rows go together.
PromiseInv ==
  /\ \A q \in RequestIds : requests[q].pc = "recorded" => requests[q].ack = requests[q].result
  /\ \A c \in CommandIds : commands[c].status # "none" =>
       (commands[c].status = "purged" <=> instances[commands[c].instance] = "absent")

\* apply_result ends in a deletion.
Deletes(q) ==
  LET r == requests[q].result
  IN  /\ Project(q) /\ history[r].status = "completed"
      /\ DeleteInstance(commands[r].instance)

LEMMA InstancesTyped ==
  ASSUME IInv
  PROVE  /\ instances \in [Instances -> InstanceStatus]
         /\ \A c \in CommandIds : commands[c].status # "none" => commands[c].instance \in Instances
  BY DEF IInv, TypeOK, QueueTypeOK, WellReferred

\* Only a deletion makes an instance absent, and nothing brings it back.
LEMMA InstancesStand ==
  ASSUME IInv, [Next]_vars, NEW i \in Instances
  PROVE  (instances'[i] = "absent" <=> instances[i] = "absent") \/ \E q \in RequestIds : Deletes(q)
  <1>1. CASE UserStep \/ Faults \/ AgentStep \/ UNCHANGED vars \/ \E q \in RequestIds : DiscardOrphan(q)
    BY <1>1 DEF UserStep, Enqueue, Faults, Crash, Timeout, AdminCrash, Lose, AgentStep, SendHeartbeat, Receive, Flush,
       HandleCommand, DiscardOrphan, vars, queueVars
  <1>2. CASE AdminStep
    <2>1. CASE \E j \in Instances : BeginInstanceDelete(j)
      BY <2>1, InstancesTyped DEF BeginInstanceDelete
    <2>2. CASE \E k \in Contracts : BeginContractDelete(k)
      BY <2>2, InstancesTyped DEF BeginContractDelete
    <2> QED BY <1>2, <2>1, <2>2 DEF AdminStep, QueueRemoval
  <1>3. ASSUME NEW q \in RequestIds, Project(q), ~Deletes(q) PROVE instances'[i] = "absent" <=> instances[i] = "absent"
    <2>1. CASE UNCHANGED instances
      BY <2>1
    <2>2. ASSUME NEW j, NEW a, NEW report, ReconcileStatus(j, ControllerStatus(a, report))
          PROVE  instances'[i] = "absent" <=> instances[i] = "absent"
      <3>1. ControllerStatus(a, report) # "absent"
        BY DEF ControllerStatus
      <3> QED BY <2>2, <3>1, InstancesTyped DEF ReconcileStatus
    <2> QED BY <1>3, <2>1, <2>2 DEF Project, Deletes
  <1>4. ASSUME NEW q \in RequestIds, Handler(q), ~Project(q) PROVE UNCHANGED instances
    BY <1>4 DEF Handler, Record, FinalizeContract, Pick, Deliver, queueVars
  <1> QED BY <1>1, <1>2, <1>3, <1>4 DEF Next, Handler

\* The instance that a deletion is about, and what becomes of rows.
LEMMA DeletionShape ==
  ASSUME IInv, DeliveryInv, PromiseInv, NEW q \in RequestIds, Deletes(q)
  PROVE  \E r \in CommandIds :
           LET i == commands[r].instance
           IN  /\ i \in Instances /\ Settled(r) /\ history[r].status = "completed"
               /\ instances' = [instances EXCEPT ![i] = "absent"]
               /\ \A c \in CommandIds : commands'[c] = IF IsRow(c) /\ commands[c].instance = i
                                                       THEN [commands[c] EXCEPT !.status = "purged"] ELSE commands[c]
               /\ UNCHANGED history
  <1> DEFINE r == requests[q].result
  <1>1. requests[q].pc = "recorded" /\ r \in CommandIds
    BY RowsTyped DEF Deletes, Project, IInv, WellReferred, Request
  <1>2. Settled(r)
    BY <1>1 DEF PromiseInv, DeliveryInv, RequestsClaim
  <1>3. commands[r].instance \in Instances
    BY <1>1, <1>2, InstancesTyped DEF Settled, IsFinal, FinalStates
  <1>4. UNCHANGED history
    BY DEF Deletes, Project, agentVars
  <1> QED BY <1>1, <1>2, <1>3, <1>4 DEF Deletes, DeleteInstance

LEMMA PromiseInvInit == Init => PromiseInv
  BY DEF Init, QueueInit, PromiseInv, Free, NoRow

LEMMA AcksKept ==
  ASSUME IInv, PromiseInv, [Next]_vars
  PROVE  \A q \in RequestIds : requests'[q].pc = "recorded" => requests'[q].ack = requests'[q].result
  <1> SUFFICES ASSUME NEW q \in RequestIds, requests'[q].pc = "recorded", requests'[q] # requests[q]
               PROVE  requests'[q].ack = requests'[q].result
    BY DEF PromiseInv
  <1>1. requests \in [RequestIds -> Request] /\ requests[q] \in Request
    BY DEF IInv, TypeOK
  <1>2. CASE Record(q)
    <2> DEFINE d == requests[q].result
    <2>1. CASE \/ UpdateRequest(q, [requests[q] EXCEPT !.pc = "projected"])
               \/ UpdateRequest(q, [requests[q] EXCEPT !.pc = "done", !.ack = NoCommand, !.cmd = NoCommand])
      BY <1>1, <2>1 DEF UpdateRequest, Request
    <2>2. CASE UpdateRequest(q, [requests[q] EXCEPT !.pc = "recorded", !.ack = d])
      BY <1>1, <2>2 DEF UpdateRequest, Request
    <2> QED BY <1>2, <2>1, <2>2 DEF Record, Unavailable
  <1>3. CASE Project(q) \/ FinalizeContract(q) \/ Pick(q) \/ Deliver(q)
    <2>1. PICK f : requests' = [requests EXCEPT ![q] = f] /\ f.pc # "recorded"
      <3>1. CASE Project(q) \/ FinalizeContract(q)
        BY <1>1, <3>1 DEF Project, FinalizeContract, UpdateRequest, Request
      <3>2. CASE Pick(q)
        BY <1>1, <3>2 DEF Pick, UpdateRequest, Request
      <3>3. CASE Deliver(q)
        <4>1. \A x : [requests[q] EXCEPT !.pc = "done", !.ack = x].pc = "done"
          BY <1>1 DEF Request
        <4>2. [requests[q] EXCEPT !.pc = "done", !.ack = NoCommand, !.cmd = NoCommand].pc = "done"
          BY <1>1 DEF Request
        <4> QED BY <3>3, <4>1, <4>2 DEF Deliver, Unavailable, UpdateRequest
      <3> QED BY <1>3, <3>1, <3>2, <3>3
    <2> QED BY <1>1, <2>1
  <1>4. ASSUME NEW p \in RequestIds, Handler(p) PROVE p = q
    BY <1>1, <1>4 DEF Handler, Record, Project, FinalizeContract, Pick, Deliver, Unavailable, UpdateRequest
  <1>5. ASSUME NEW p \in RequestIds PROVE ~(SendHeartbeat(p) \/ Receive(p) \/ DiscardOrphan(p) \/ Lose(p)) /\ ~Flush
    <2>1. ~(Receive(p) \/ DiscardOrphan(p) \/ Lose(p))
      BY <1>1 DEF Receive, DiscardOrphan, Lose, UpdateRequest, Free
    <2>2. ASSUME NEW s \in RequestIds, NEW flush PROVE ~Send(s, flush)
      <3>1. \A x : [Free EXCEPT !.pc = "sent", !.flush = flush, !.result = x].pc = "sent"
        BY DEF Free
      <3>2. ASSUME NEW f, f.pc = "sent", requests' = [requests EXCEPT ![s] = f] PROVE FALSE
        BY <1>1, <3>2
      <3> QED BY <3>1, <3>2 DEF Send
    <2> QED BY <2>1, <2>2 DEF SendHeartbeat, Flush
  <1>6. ~(UserStep \/ AdminStep \/ HandleCommand \/ Crash \/ Timeout \/ AdminCrash \/ UNCHANGED vars)
    BY DEF UserStep, AdminStep, HandleCommand, Crash, Timeout, AdminCrash, vars
  <1> QED BY <1>2, <1>3, <1>4, <1>5, <1>6 DEF Next, Handler, AgentStep, Faults

LEMMA PurgesKept ==
  ASSUME IInv, DeliveryInv, PromiseInv, [Next]_vars
  PROVE  \A c \in CommandIds : commands'[c].status # "none" =>
           (commands'[c].status = "purged" <=> instances'[commands'[c].instance] = "absent")
  <1> SUFFICES ASSUME NEW c \in CommandIds, commands'[c].status # "none"
               PROVE  commands'[c].status = "purged" <=> instances'[commands'[c].instance] = "absent"
    OBVIOUS
  <1>1. CASE \E q \in RequestIds : Deletes(q)
    <2>1. PICK r \in CommandIds :
            LET i == commands[r].instance
            IN  /\ i \in Instances
                /\ instances' = [instances EXCEPT ![i] = "absent"]
                /\ commands'[c] = IF IsRow(c) /\ commands[c].instance = i
                                  THEN [commands[c] EXCEPT !.status = "purged"] ELSE commands[c]
      BY <1>1, DeletionShape
    <2>2. commands[c].status # "none" /\ commands[c] \in Row /\ commands[c].instance \in Instances
      BY <2>1, RowsTyped, InstancesTyped DEF IsRow, RowStates, ActiveStates, FinalStates
    <2>3. IsRow(c) <=> commands[c].status # "purged"
      BY <2>2 DEF IsRow, Row, RowStates, ActiveStates, FinalStates
    <2>4. CASE IsRow(c) /\ commands[c].instance = commands[r].instance
      BY <2>1, <2>2, <2>4, InstancesTyped DEF Row
    <2>5. CASE ~(IsRow(c) /\ commands[c].instance = commands[r].instance)
      BY <2>1, <2>2, <2>3, <2>5, InstancesTyped DEF PromiseInv
    <2> QED BY <2>4, <2>5
  <1>2. CASE ~\E q \in RequestIds : Deletes(q)
    <2>1. \A i \in Instances : instances'[i] = "absent" <=> instances[i] = "absent"
      BY <1>2, InstancesStand
    <2>2. CASE Inserts
      <3>1. PICK i \in Instances, a \in AllActions, d \in CommandIds : Insert(i, a, d)
        BY <2>2 DEF Inserts
      <3>2. CASE c = d
        BY <2>1, <3>1, <3>2, RowsTyped DEF Insert
      <3>3. CASE c # d
        BY <2>1, <3>1, <3>3, RowsTyped, InstancesTyped DEF Insert, PromiseInv
      <3> QED BY <3>2, <3>3
    <2>3. CASE RowMoves(c)
      <3>1. CASE commands'[c] = commands[c]
        BY <2>1, <3>1, InstancesTyped DEF PromiseInv
      <3>2. CASE commands'[c] # commands[c]
        BY <2>1, <2>3, <3>2, InstancesTyped
           DEF RowMoves, PromiseInv, IsRow, RowStates, ActiveStates, FinalStates
      <3> QED BY <3>1, <3>2
    <2> QED BY <2>2, <2>3, StepShape
  <1> QED BY <1>1, <1>2

-----------------------------------------------------------------------------
(* Every step is a step of the promise *)

LEMMA PhaseTyped ==
  ASSUME IInv, NEW c \in CommandIds
  PROVE  /\ Phase(c) = "unknown" <=> commands[c].status = "none"
         /\ Phase(c) = "issued" <=> IsActive(c)
         /\ Phase(c) \in Promise!Verdicts <=> IsFinal(c)
         /\ IsFinal(c) => Phase(c) = commands[c].status
         /\ Phase(c) = "forgotten" <=> commands[c].status = "purged"
  BY RowsTyped DEF Phase, IsActive, IsFinal, ActiveStates, FinalStates, Row, RowStates, Promise!Verdicts

LEMMA VerdictOfDecided ==
  ASSUME IInv, NEW c \in CommandIds
  PROVE  /\ Decided(c) <=> history[c].status # "none"
         /\ Decided(c) => history[c].status \in {"completed", "failed"}
  BY DEF IInv, TypeOK, AgentTypeOK, Decided, Report, NoReport, FinalStates

LEMMA PromiseInit == Init => Promise!Init
  <1> SUFFICES ASSUME Init PROVE Promise!Init
    OBVIOUS
  <1>1. \A c \in CommandIds : commands[c].status = "none" /\ history[c].status = "none"
    BY DEF Init, QueueInit, AgentInit, NoRow, NoReport
  <1>2. \A c \in CommandIds : Phase(c) = "unknown"
    BY <1>1 DEF Phase, IsActive, IsFinal, ActiveStates, FinalStates
  <1> QED BY <1>1, <1>2 DEF Promise!Init

\* Enqueue and QueueRemoval issue a command.
LEMMA InsertIssues ==
  ASSUME IInv, Inserts, UNCHANGED history
  PROVE  Promise!Next
  <1>1. PICK i \in Instances, a \in AllActions, c \in CommandIds : Insert(i, a, c)
    BY DEF Inserts
  <1>2. Phase(c) = "unknown" /\ Phase(c)' = "issued"
    <2>1. commands[c].status = "none" /\ commands'[c].status = "queued"
      BY <1>1, RowsTyped DEF Insert, NoRow
    <2> QED BY <2>1 DEF Phase, IsActive, IsFinal, ActiveStates, FinalStates
  <1>3. \A d \in CommandIds \ {c} : Phase(d)' = Phase(d)
    <2>1. \A d \in CommandIds \ {c} : commands'[d] = commands[d]
      BY <1>1, RowsTyped DEF Insert
    <2> QED BY <2>1 DEF Phase, IsActive, IsFinal
  <1> DEFINE P == [d \in CommandIds |-> Phase(d)]
             Q == [d \in CommandIds |-> Phase(d)']
  <1>4. Q = [P EXCEPT ![c] = "issued"]
    BY <1>2, <1>3
  <1>5. Promise!Issue(c)
    BY <1>2, <1>4 DEF Promise!Issue
  <1> QED BY <1>5 DEF Promise!Next

\* _record_command_history decides a command: issued, or forgotten with its instance.
LEMMA HistoryDecides ==
  ASSUME IInv, RecordHistory, UNCHANGED commands
  PROVE  Promise!Next
  <1>1. /\ agent.cmd \in CommandIds /\ agent.outcome \in Report /\ ~Decided(agent.cmd)
        /\ commands[agent.cmd].status # "none"
        /\ history' = [history EXCEPT ![agent.cmd] = agent.outcome] /\ history \in [CommandIds -> Report \cup {NoReport}]
    BY DEF RecordHistory, IInv, TypeOK, AgentTypeOK, WellReferred
  <1>2. PICK c \in CommandIds, v \in Promise!Verdicts : c = agent.cmd /\ v = agent.outcome.status
    BY <1>1 DEF Report, FinalStates, Promise!Verdicts
  <1>3. history[c].status = "none" /\ ~IsFinal(c)
    BY <1>1, <1>2, VerdictOfDecided DEF IInv, ReportedIsRecorded, IsFinal, FinalStates
  <1>4. Phase(c) \in {"issued", "forgotten"}
    BY <1>1, <1>2, <1>3, RowsTyped DEF Phase, IsActive, IsFinal, Row, RowStates
  <1>5. \A d \in CommandIds : Phase(d)' = Phase(d)
    BY DEF Phase, IsActive, IsFinal
  <1> DEFINE V == [d \in CommandIds |-> history[d].status]
             W == [d \in CommandIds |-> history'[d].status]
  <1>6. W = [V EXCEPT ![c] = v]
    BY <1>1, <1>2
  <1>7. Promise!Decide(c, v)
    BY <1>3, <1>4, <1>5, <1>6 DEF Promise!Decide
  <1> QED BY <1>7 DEF Promise!Next

\* The guarded UPDATE lets the issuer learn the verdict, once.
LEMMA RecordLearns ==
  ASSUME IInv, NEW c \in CommandIds, Decided(c), RecordResult(c, history[c].status), UNCHANGED history
  PROVE  [Promise!Next]_(Promise!vars)
  <1>1. history[c].status \in FinalStates
    BY VerdictOfDecided DEF FinalStates
  <1>2. \A d \in CommandIds \ {c} : Phase(d)' = Phase(d)
    <2>1. \A d \in CommandIds \ {c} : commands'[d] = commands[d]
      BY RowsTyped DEF RecordResult
    <2> QED BY <2>1 DEF Phase, IsActive, IsFinal
  <1>3. CASE IsActive(c)
    <2>1. Phase(c) = "issued" /\ Phase(c)' = history[c].status
      BY <1>1, <1>3, RowsTyped DEF RecordResult, Phase, IsActive, IsFinal, ActiveStates, FinalStates, Row
    <2> DEFINE P == [d \in CommandIds |-> Phase(d)]
               Q == [d \in CommandIds |-> Phase(d)']
    <2>2. Q = [P EXCEPT ![c] = history[c].status]
      BY <1>2, <2>1
    <2>3. Promise!Learn(c)
      BY <2>1, <2>2, VerdictOfDecided DEF Promise!Learn
    <2> QED BY <2>3 DEF Promise!Next
  <1>4. CASE ~IsActive(c)
    <2>1. commands'[c] = commands[c]
      BY <1>4, RowsTyped DEF RecordResult, IsActive, Row
    <2>2. \A d \in CommandIds : Phase(d)' = Phase(d)
      BY <1>2, <2>1 DEF Phase, IsActive, IsFinal
    <2> QED BY <2>2 DEF Promise!vars
  <1> QED BY <1>3, <1>4

\* A deletion forgets the instance's rows, the completed removal among them; the deletion
\* of a second thread, with the same result, finds nothing left.
LEMMA DeletionForgets ==
  ASSUME IInv, DeliveryInv, PromiseInv, NEW q \in RequestIds, Deletes(q)
  PROVE  [Promise!Next]_(Promise!vars)
  <1>1. PICK r \in CommandIds :
          LET i == commands[r].instance
          IN  /\ i \in Instances /\ Settled(r) /\ history[r].status = "completed"
              /\ instances' = [instances EXCEPT ![i] = "absent"]
              /\ \A c \in CommandIds : commands'[c] = IF IsRow(c) /\ commands[c].instance = i
                                                      THEN [commands[c] EXCEPT !.status = "purged"] ELSE commands[c]
              /\ UNCHANGED history
    BY DeletionShape
  <1> DEFINE i == commands[r].instance
             gone == {c \in CommandIds : IsRow(c) /\ commands[c].instance = i}
  <1>2. \A c \in gone : Phase(c) \in {"issued"} \cup Promise!Verdicts /\ Phase(c)' = "forgotten"
    <2> SUFFICES ASSUME NEW c \in gone PROVE Phase(c) \in {"issued"} \cup Promise!Verdicts /\ Phase(c)' = "forgotten"
      OBVIOUS
    <2>1. commands'[c].status = "purged"
      BY <1>1, RowsTyped DEF Row
    <2> QED BY <2>1 DEF Phase, IsRow, IsActive, IsFinal, RowStates, ActiveStates, FinalStates, Promise!Verdicts
  <1>3. \A c \in CommandIds \ gone : Phase(c)' = Phase(c)
    <2>1. \A c \in CommandIds \ gone : commands'[c] = commands[c]
      BY <1>1
    <2> QED BY <2>1 DEF Phase, IsActive, IsFinal
  <1>4. CASE IsFinal(r)
    <2>1. r \in gone /\ Phase(r) = "completed"
      BY <1>1, <1>4 DEF IInv, ReportedIsRecorded, IsRow, IsFinal, Phase, IsActive, RowStates, ActiveStates, FinalStates
    <2> DEFINE P == [c \in CommandIds |-> Phase(c)]
               Q == [c \in CommandIds |-> Phase(c)']
    <2>2. Q = [c \in CommandIds |-> IF c \in gone THEN "forgotten" ELSE P[c]]
      BY <1>2, <1>3
    <2>3. gone \in SUBSET CommandIds
      OBVIOUS
    <2> HIDE DEF gone
    <2>4. \A c \in gone : c \in CommandIds /\ P[c] \in {"issued"} \cup Promise!Verdicts
      BY <1>2, <2>3
    <2>5. Promise!Forget(gone)
      BY <1>1, <2>1, <2>2, <2>4 DEF Promise!Forget
    <2> QED BY <2>3, <2>5 DEF Promise!Next
  <1>5. CASE commands[r].status = "purged"
    <2>1. instances[i] = "absent"
      BY <1>5 DEF PromiseInv
    <2>2. gone = {}
      BY <2>1 DEF PromiseInv, IsRow, RowStates, ActiveStates, FinalStates
    <2>3. \A c \in CommandIds : Phase(c)' = Phase(c)
      BY <1>3, <2>2
    <2> QED BY <1>1, <2>3 DEF Promise!vars
  <1> QED BY <1>1, <1>4, <1>5 DEF Settled

\* A delivery is the Controller's own business.
LEMMA DeliveryStutters ==
  ASSUME IInv, NEW c \in CommandIds, MarkDelivered(c), UNCHANGED history
  PROVE  UNCHANGED Promise!vars
  <1>1. \A d \in CommandIds : Phase(d)' = Phase(d)
    <2> SUFFICES ASSUME NEW d \in CommandIds PROVE Phase(d)' = Phase(d)
      OBVIOUS
    <2>1. CASE d # c \/ commands[d].status # "queued"
      <3>1. commands'[d] = commands[d]
        BY <2>1, RowsTyped DEF MarkDelivered, Row
      <3> QED BY <3>1 DEF Phase, IsActive, IsFinal
    <2>2. CASE d = c /\ commands[d].status = "queued"
      <3>1. commands'[d].status = "delivered"
        BY <2>2, RowsTyped DEF MarkDelivered, Row
      <3> QED BY <2>2, <3>1 DEF Phase, IsActive, ActiveStates
    <2> QED BY <2>1, <2>2
  <1> QED BY <1>1 DEF Promise!vars

LEMMA RestStutters ==
  ASSUME UNCHANGED <<commands, history>>
  PROVE  UNCHANGED Promise!vars
  BY DEF Promise!vars, Phase, IsActive, IsFinal

LEMMA HandlerPromise ==
  ASSUME IInv, DeliveryInv, PromiseInv, NEW q \in RequestIds, Handler(q)
  PROVE  [Promise!Next]_(Promise!vars)
  <1>1. UNCHANGED history
    BY DEF Handler, Record, Project, FinalizeContract, Pick, Deliver, agentVars
  <1>2. CASE UNCHANGED commands
    BY <1>1, <1>2, RestStutters
  <1>3. CASE Record(q) /\ ~UNCHANGED commands
    <2> DEFINE r == requests[q].result
    <2>1. r # NoCommand /\ RecordResult(r, history[r].status)
      BY <1>3 DEF Record
    <2>2. r \in CommandIds /\ Decided(r)
      BY <2>1, RowsTyped DEF IInv, WellReferred, Request
    <2> QED BY <1>1, <2>1, <2>2, RecordLearns
  <1>4. CASE Project(q) /\ ~UNCHANGED commands
    <2>1. Deletes(q)
      BY <1>4 DEF Project, Deletes
    <2> QED BY <2>1, DeletionForgets
  <1>5. CASE Deliver(q) /\ ~UNCHANGED commands
    <2> DEFINE d == requests[q].cmd
    <2>1. MarkDelivered(d)
      BY <1>5 DEF Deliver
    <2>2. d \in CommandIds
      BY <1>5, RowsTyped DEF Deliver, IInv, WellReferred, Request
    <2> QED BY <1>1, <2>1, <2>2, DeliveryStutters
  <1>6. FinalizeContract(q) \/ Pick(q) => UNCHANGED commands
    BY DEF FinalizeContract, Pick, queueVars
  <1> QED BY <1>2, <1>3, <1>4, <1>5, <1>6 DEF Handler

LEMMA PromiseStep ==
  ASSUME IInv, DeliveryInv, PromiseInv, [Next]_vars
  PROVE  [Promise!Next]_(Promise!vars)
  <1>1. CASE UserStep
    <2>1. Inserts /\ UNCHANGED history
      BY <1>1, QueueAssumption DEF UserStep, Enqueue, Inserts, agentVars
    <2> QED BY <2>1, InsertIssues
  <1>2. CASE AdminStep
    <2>1. UNCHANGED history /\ (UNCHANGED commands \/ Inserts)
      BY <1>2 DEF AdminStep, BeginInstanceDelete, BeginContractDelete, QueueRemoval, Inserts, AllActions, agentVars
    <2> QED BY <2>1, InsertIssues, RestStutters
  <1>3. CASE HandleCommand
    <2>1. UNCHANGED commands
      BY <1>3 DEF HandleCommand, queueVars
    <2>2. RecordHistory \/ UNCHANGED history
      BY <1>3 DEF HandleCommand, ReplayHistory, Execute, WriteResult, ClearResult
    <2> QED BY <2>1, <2>2, HistoryDecides, RestStutters
  <1>4. CASE \E q \in RequestIds : Handler(q)
    BY <1>4, HandlerPromise
  <1>5. CASE Flush \/ Faults \/ UNCHANGED vars \/ \E q \in RequestIds : SendHeartbeat(q) \/ Receive(q) \/ DiscardOrphan(q)
    <2>1. UNCHANGED <<commands, history>>
      BY <1>5 DEF SendHeartbeat, Receive, Flush, DiscardOrphan, Faults, Crash, Timeout, AdminCrash, Lose, vars, queueVars, agentVars
    <2> QED BY <2>1, RestStutters
  <1> QED BY <1>1, <1>2, <1>3, <1>4, <1>5 DEF Next, AgentStep

\* What a user may rely on: whatever is lost, repeated, crashed or served out of order, a command
\* reaches one verdict on the Agent, the Controller learns that verdict and no other, and rows are
\* forgotten only with a removal that completed (agent_instance_runtime_repository.py, apply_result).
THEOREM ExchangeKeepsPromise == Spec => PromiseKept
  <1>1. IInv /\ DeliveryInv /\ PromiseInv /\ [Next]_vars => PromiseInv'
    BY AcksKept, PurgesKept DEF PromiseInv
  <1>2. IInv /\ DeliveryInv /\ PromiseInv /\ [Next]_vars => [Promise!Next]_(Promise!vars)
    BY PromiseStep
  <1> QED BY <1>1, <1>2, PromiseInit, PromiseInvInit, Delivered, PTL DEF Spec, PromiseKept, Promise!Spec

=============================================================================
