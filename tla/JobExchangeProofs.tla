------------------------- MODULE JobExchangeProofs -------------------------
(***************************************************************************)
(* The safety of JobExchange for any number of instances, jobs, requests   *)
(* and faults.  IInv is inductive: one lemma per action, combined in       *)
(* StepKeeps; the action properties follow from it.  With RunInv it shows  *)
(* that the exchange implements JobPromise.                                *)
(***************************************************************************)
EXTENDS JobExchange, TLAPS

USE JobQueueAssumption, JobFaultAssumption

LEMMA ChannelTyped == \A j \in Jobs : Channel(j) \in Channels
  BY DEF Channel, Channels

LEMMA InitIInv == Init => IInv
  <1> SUFFICES ASSUME Init PROVE IInv
    OBVIOUS
  <1>1. Free \in Request /\ Idle \in Agent
    BY DEF Free, Request, RequestPC, Idle, Agent, AgentPC, Report, NoReport, MaybeJob, Channels
  <1>2. TypeOK
    BY <1>1 DEF Init, QueueInit, TypeOK, QueueTypeOK, PublicStatus, NoRow, Row, ExecutorStates
  <1>3. WellReferred
    BY DEF Init, WellReferred, Refers, Truthful, FinalStates, Free, Idle, NoReport
  <1>4. FilesCoverRuns /\ AtMostOnce
    BY DEF Init, FilesCoverRuns, Ran, AtMostOnce
  <1>5. PendingIsFresh
    BY ChannelTyped DEF Init, PendingIsFresh, Pending, Ahead, AwaitedBy, Idle, Jobs
  <1>6. ReportedIsRecorded /\ OneActivePerInstance
    BY DEF Init, QueueInit, ReportedIsRecorded, OneActivePerInstance, IsFinal, IsActive, NoRow,
           FinalStates, ActiveStates, Jobs
  <1> QED BY <1>2, <1>3, <1>4, <1>5, <1>6 DEF IInv

-----------------------------------------------------------------------------
(* What the transactions do to the rows *)

\* Rows appear, end and are purged; they never go back.
Forward ==
  \A j \in Jobs :
    /\ rows[j].status # "none" => rows'[j].status # "none"
    /\ IsFinal(j) => rows'[j].status \in {rows[j].status, "purged"}
    /\ rows[j].status = "purged" => rows'[j].status = "purged"

\* No row becomes active that was not, and instances stay.
NoNewActive ==
  \A j \in Jobs :
    rows'[j].status \in ActiveStates => rows[j].status \in ActiveStates /\ rows'[j].instance = rows[j].instance

LEMMA OneActiveKept ==
  ASSUME OneActivePerInstance, NoNewActive
  PROVE  OneActivePerInstance'
  BY DEF OneActivePerInstance, NoNewActive, IsActive, Jobs

LEMMA InsertForward ==
  ASSUME QueueTypeOK, NEW j \in Jobs, NEW i \in Instances \cup {"none"}, InsertRow(j, i)
  PROVE  /\ rows' \in [Jobs -> Row]
         /\ Forward
         /\ \A d \in Jobs : d # j => rows'[d] = rows[d]
         /\ rows'[j].status = "queued" /\ rows'[j].instance = i
         /\ rows[j].status = "none"
  <1>1. PICK now \in 0 .. MaxClock :
          rows' = [rows EXCEPT ![j] = [status |-> "queued", instance |-> i, created |-> now]]
    BY DEF InsertRow
  <1>2. rows[j].status = "none"
    BY DEF InsertRow, NoRow
  <1> QED BY <1>1, <1>2 DEF QueueTypeOK, Row, RowStates, ActiveStates, FinalStates, Forward, IsFinal

LEMMA RecordForward ==
  ASSUME QueueTypeOK, NEW j \in Jobs, NEW status \in ResultStates, RecordReport(j, status),
         rows[j].status \notin {"none", "purged"}
  PROVE  /\ rows' \in [Jobs -> Row]
         /\ Forward /\ NoNewActive
         /\ \A d \in Jobs : d # j => rows'[d] = rows[d]
         /\ rows'[j].status = IF rows[j].status \in FinalStates THEN rows[j].status ELSE status
  BY DEF RecordReport, QueueTypeOK, Row, RowStates, ActiveStates, FinalStates, ResultStates, Forward,
         NoNewActive, IsFinal

LEMMA MarkForward ==
  ASSUME QueueTypeOK, NEW j \in Jobs, MarkDelivered(j)
  PROVE  /\ rows' \in [Jobs -> Row]
         /\ Forward /\ NoNewActive
         /\ \A d \in Jobs : rows'[d].status = rows[d].status
                            \/ (rows[d].status = "queued" /\ rows'[d].status = "delivered")
  BY DEF MarkDelivered, QueueTypeOK, Row, RowStates, ActiveStates, FinalStates, Forward, NoNewActive, IsFinal

-----------------------------------------------------------------------------
(* Users and administrators *)

\* A transaction that ends no job leaves files, requests and memory sound.
LEMMA RowStepKeeps ==
  ASSUME IInv, QueueTypeOK', Forward, OneActivePerInstance',
         \A j \in Jobs : rows'[j].status \in FinalStates => rows[j].status = rows'[j].status,
         UNCHANGED <<fileVars, agent, requests, faultVars>>
  PROVE  IInv'
  <1>1. TypeOK'
    BY DEF IInv, TypeOK, fileVars, faultVars
  <1>2. \A k \in Channels, s \in Report : Truthful(s, k) => Truthful(s, k)'
    BY DEF Truthful, Refers, Forward, IsFinal, FinalStates, Report, MaybeJob
  <1>3. \A k \in Channels, j \in MaybeJob : Refers(j, k) => Refers(j, k)'
    BY DEF Refers, Forward, MaybeJob
  <1>4. WellReferred'
    <2>1. \A q \in RequestIds, k \in Channels :
            /\ requests[q].report[k].job \in MaybeJob /\ requests[q].state[k] \in Report
            /\ requests[q].cmd[k] \in MaybeJob
      BY DEF IInv, TypeOK, Request, Report
    <2>2. \A k \in Channels : agent.state[k] \in Report /\ agent.cmd[k] \in MaybeJob
      BY DEF IInv, TypeOK, Agent
    <2>3. \A j \in Jobs : rows[j].status # "none" => rows'[j].status # "none"
      BY DEF Forward
    <2>4. UNCHANGED <<results, outcomes, executors, agent, requests>>
      BY DEF fileVars
    <2>5. \A q \in RequestIds, k \in Channels :
            Refers(requests[q].report[k].job, k)' /\ Truthful(requests[q].state[k], k)' /\ Refers(requests[q].cmd[k], k)'
      BY <1>2, <1>3, <2>1, <2>4 DEF IInv, WellReferred
    <2>6. \A k \in Channels : Truthful(agent.state[k], k)' /\ Refers(agent.cmd[k], k)'
      BY <1>2, <1>3, <2>2, <2>4 DEF IInv, WellReferred
    <2> QED BY <2>3, <2>4, <2>5, <2>6 DEF IInv, WellReferred
  <1>5. FilesCoverRuns'
    BY DEF IInv, FilesCoverRuns, Ran, Forward, IsFinal, FinalStates, fileVars
  <1>6. PendingIsFresh'
    <2>1. \A j \in Jobs : Pending(j)' = Pending(j) /\ Ran(j)' = Ran(j)
      BY DEF Pending, Ahead, AwaitedBy, Ran, fileVars
    <2> QED BY <2>1 DEF IInv, PendingIsFresh, IsFinal, fileVars
  <1>7. AtMostOnce' /\ ReportedIsRecorded'
    BY DEF IInv, AtMostOnce, ReportedIsRecorded, IsFinal, fileVars
  <1> QED BY <1>1, <1>4, <1>5, <1>6, <1>7 DEF IInv

LEMMA UserStepKeeps == IInv /\ UserStep => IInv'
  <1> SUFFICES ASSUME IInv, UserStep PROVE IInv'
    OBVIOUS
  <1> USE DEF UserStep
  <1>1. QueueTypeOK
    BY DEF IInv, TypeOK
  <1>2. ASSUME NEW i \in Instances, NEW j \in Provisions, EnqueueProvision(i, j) PROVE IInv'
    <2>1. j \in Jobs /\ InsertRow(j, i) /\ public' = public
      BY <1>2 DEF EnqueueProvision, Jobs
    <2>2. QueueTypeOK' /\ Forward
      BY <1>1, <2>1, InsertForward DEF QueueTypeOK
    <2>3. OneActivePerInstance'
      BY <1>1, <1>2, <2>1, InsertForward DEF IInv, OneActivePerInstance, EnqueueProvision, IsActive, Jobs
    <2>4. \A d \in Jobs : rows'[d].status \in FinalStates => rows[d].status = rows'[d].status
      BY <1>1, <2>1, InsertForward DEF FinalStates
    <2> QED BY <2>2, <2>3, <2>4, RowStepKeeps
  <1>3. ASSUME NEW j \in GameJobs, EnqueueGame(j) PROVE IInv'
    <2>1. j \in Jobs /\ j \notin Provisions /\ InsertRow(j, "none") /\ public' = public
      BY <1>3 DEF EnqueueGame, Jobs
    <2>2. QueueTypeOK' /\ Forward
      BY <1>1, <2>1, InsertForward DEF QueueTypeOK
    <2>3. OneActivePerInstance'
      BY <1>1, <2>1, InsertForward DEF IInv, OneActivePerInstance, IsActive, Jobs
    <2>4. \A d \in Jobs : rows'[d].status \in FinalStates => rows[d].status = rows'[d].status
      BY <1>1, <2>1, InsertForward DEF FinalStates
    <2> QED BY <2>2, <2>3, <2>4, RowStepKeeps
  <1>4. ASSUME NEW i \in Instances, DeleteInstance(i) PROVE IInv'
    <2>1. /\ rows' \in [Jobs -> Row]
          /\ Forward /\ NoNewActive
          /\ \A d \in Jobs : rows'[d].status \in FinalStates => rows[d].status = rows'[d].status
      BY <1>1, <1>4 DEF DeleteInstance, QueueTypeOK, Row, RowStates, Forward, NoNewActive, IsFinal,
                        ActiveStates, FinalStates
    <2>2. QueueTypeOK'
      BY <1>1, <1>4, <2>1 DEF DeleteInstance, QueueTypeOK, PublicStatus
    <2> QED BY <2>1, <2>2, OneActiveKept, RowStepKeeps DEF IInv
  <1> QED BY <1>2, <1>3, <1>4

-----------------------------------------------------------------------------
(* The Agent's heartbeat loop *)

\* Steps of messages: queue and files stay.
LEMMA MessageKeeps ==
  ASSUME IInv, UNCHANGED <<queueVars, fileVars>>, TypeOK',
         \A q \in RequestIds, k \in Channels :
           /\ \/ requests'[q].report[k] = NoReport
              \/ requests'[q].report[k] \in Newest(k)
              \/ requests'[q].report[k] = requests[q].report[k]
           /\ Truthful(requests'[q].state[k], k)
           /\ Refers(requests'[q].cmd[k], k),
         \A q \in RequestIds : requests'[q].pc = "deliver" => requests'[q].cmd[requests'[q].channel] # NoJob,
         \A k \in Channels : Truthful(agent'.state[k], k) /\ Refers(agent'.cmd[k], k),
         PendingIsFresh'
  PROVE  IInv'
  <1>1. /\ rows' = rows /\ results' = results /\ executors' = executors
        /\ outcomes' = outcomes /\ starts' = starts
    BY DEF queueVars, fileVars
  <1>2. \A k \in Channels : \A j : (Refers(j, k)' <=> Refers(j, k)) /\ \A s : Truthful(s, k)' <=> Truthful(s, k)
    BY <1>1 DEF Refers, Truthful, IsFinal
  <1>3. ASSUME NEW q \in RequestIds, NEW k \in Channels
        PROVE  LET told == requests'[q].report[k]
               IN  /\ Refers(told.job, k)
                   /\ told.job # NoJob => told.status \in ResultStates
                   /\ told.job # NoJob /\ told.status \in FinalStates => told.status \in outcomes[told.job]
    <2>1. CASE requests'[q].report[k] = NoReport
      BY <2>1 DEF NoReport, Refers
    <2>2. CASE requests'[q].report[k] = requests[q].report[k]
      BY <2>2 DEF IInv, WellReferred
    <2>3. CASE requests'[q].report[k] \in Newest(k) /\ requests'[q].report[k] # NoReport
      <3>1. PICK j \in Jobs : Channel(j) = k /\ results[j] # "none"
                              /\ requests'[q].report[k] = [job |-> j, status |-> results[j]]
        BY <2>3 DEF Newest
      <3>2. results[j] \in ResultStates
        BY <3>1 DEF IInv, TypeOK
      <3> QED BY <3>1, <3>2 DEF IInv, WellReferred, Refers
    <2> QED BY <2>1, <2>2, <2>3
  <1>4. WellReferred'
    <2>1. \A q \in RequestIds, k \in Channels :
            /\ Refers(requests[q].report[k].job, k)'
            /\ Truthful(requests[q].state[k], k)'
            /\ Refers(requests[q].cmd[k], k)'
      BY <1>2, <1>3
    <2>2. \A k \in Channels : Truthful(agent.state[k], k)' /\ Refers(agent.cmd[k], k)'
      BY <1>2
    <2>3. \A j \in Jobs : /\ (results[j] # "none" \/ outcomes[j] # {} \/ executors[j] # "none" => rows[j].status # "none")'
                          /\ (results[j] \in FinalStates => results[j] \in outcomes[j])'
      BY <1>1 DEF IInv, WellReferred
    <2> QED BY <1>1, <1>3, <2>1, <2>2, <2>3 DEF WellReferred
  <1>5. FilesCoverRuns' /\ AtMostOnce' /\ ReportedIsRecorded' /\ OneActivePerInstance'
    BY <1>1 DEF IInv, FilesCoverRuns, Ran, AtMostOnce, ReportedIsRecorded, OneActivePerInstance, IsFinal, IsActive
  <1> QED BY <1>4, <1>5 DEF IInv

LEMMA FreeSound ==
  /\ Free \in Request /\ Idle \in Agent
  /\ Free.pc # "deliver"
  /\ \A k \in Channels : /\ Free.report[k] = NoReport /\ Free.state[k] = NoReport /\ Free.cmd[k] = NoJob
                         /\ Idle.state[k] = NoReport /\ Idle.cmd[k] = NoJob
                         /\ Truthful(NoReport, k) /\ Refers(NoJob, k)
  BY DEF Free, Request, RequestPC, Idle, Agent, AgentPC, Report, NoReport, MaybeJob, Channels,
         Truthful, Refers, FinalStates

\* Without a waiting or staging daemon nothing is pending.
LEMMA IdlePending ==
  ASSUME agent'.pc = "idle", UNCHANGED fileVars
  PROVE  PendingIsFresh'
  BY DEF PendingIsFresh, Pending, Ahead, AwaitedBy

LEMMA SendKeeps ==
  ASSUME IInv, NEW q \in RequestIds, SendHeartbeat(q)
  PROVE  IInv'
  <1>1. PICK p \in Newest("provision"), g \in Newest("game") :
          requests' = [requests EXCEPT ![q] =
            [Free EXCEPT !.pc = "record", !.report = [k \in Channels |-> IF k = "game" THEN g ELSE p]]]
    BY DEF SendHeartbeat
  <1>2. \A k \in Channels : Newest(k) \subseteq Report
    BY DEF Newest, NoReport, Report, MaybeJob, ResultStates, RowStates, ActiveStates, IInv, TypeOK
  <1>3. p \in Report /\ g \in Report
    BY <1>2 DEF Channels
  <1>4. agent' = [Idle EXCEPT !.pc = "waiting", !.request = q]
    BY DEF SendHeartbeat
  <1>5. /\ requests'[q].report = [k \in Channels |-> IF k = "game" THEN g ELSE p]
        /\ requests'[q].state = Free.state /\ requests'[q].cmd = Free.cmd
        /\ \A o \in RequestIds \ {q} : requests'[o] = requests[o]
    BY <1>1 DEF IInv, TypeOK, Free
  <1>6. TypeOK'
    BY <1>1, <1>3, <1>4, FreeSound
       DEF SendHeartbeat, IInv, TypeOK, QueueTypeOK, Request, RequestPC, Free, Agent, AgentPC, Idle, queueVars, fileVars, faultVars
  <1>7. PendingIsFresh'
    <2>1. \A k \in Channels : requests'[q].cmd[k] = NoJob
      BY <1>5, FreeSound
    <2> QED BY <1>4, <2>1, ChannelTyped DEF PendingIsFresh, Pending, Ahead, AwaitedBy, Idle, Jobs
  <1>8. \A o \in RequestIds, k \in Channels :
          /\ \/ requests'[o].report[k] \in Newest(k) \/ requests'[o].report[k] = requests[o].report[k]
          /\ Truthful(requests'[o].state[k], k) /\ Refers(requests'[o].cmd[k], k)
    <2>1. CASE TRUE
      BY <1>5, FreeSound DEF IInv, WellReferred, Channels
    <2> QED BY <2>1
  <1>9. \A k \in Channels : Truthful(agent'.state[k], k) /\ Refers(agent'.cmd[k], k)
    BY <1>4, FreeSound DEF Idle
  <1>10. \A o \in RequestIds : requests'[o].pc = "deliver" => requests'[o].cmd[requests'[o].channel] # NoJob
    <2>1. requests'[q].pc = "record"
      BY <1>1, <1>3 DEF Free, IInv, TypeOK
    <2> QED BY <1>5, <2>1 DEF IInv, WellReferred
  <1> QED BY <1>6, <1>7, <1>8, <1>9, <1>10, MessageKeeps DEF SendHeartbeat

LEMMA ReceiveKeeps ==
  ASSUME IInv, NEW q \in RequestIds, Receive(q)
  PROVE  IInv'
  <1>1. /\ agent' = [Idle EXCEPT !.pc = "stage", !.state = requests[q].state, !.cmd = requests[q].cmd]
        /\ requests' = [requests EXCEPT ![q] = Free]
        /\ AwaitedBy(q)
    BY DEF Receive, AwaitedBy
  <1>2. TypeOK'
    <2>1. requests[q].state \in [Channels -> Report] /\ requests[q].cmd \in [Channels -> MaybeJob]
      BY DEF IInv, TypeOK, Request
    <2>2. agent' \in Agent
      BY <1>1, <2>1 DEF Agent, AgentPC, Idle, Channels
    <2>3. requests' \in [RequestIds -> Request]
      BY <1>1, FreeSound DEF IInv, TypeOK
    <2> QED BY <2>2, <2>3 DEF Receive, IInv, TypeOK, QueueTypeOK, queueVars, fileVars, faultVars
  <1>3. \A o \in RequestIds : requests'[o] = Free \/ requests'[o] = requests[o]
    BY <1>1 DEF IInv, TypeOK
  <1>4. PendingIsFresh'
    <2>1. \A j \in Jobs : Pending(j)' => Pending(j)
      BY <1>1 DEF Pending, Ahead, AwaitedBy, Idle
    <2> QED BY <2>1 DEF Receive, IInv, PendingIsFresh, Ran, IsFinal, queueVars, fileVars
  <1>5. \A o \in RequestIds, k \in Channels :
          /\ requests'[o].report[k] = NoReport \/ requests'[o].report[k] = requests[o].report[k]
          /\ Truthful(requests'[o].state[k], k) /\ Refers(requests'[o].cmd[k], k)
    BY <1>3, FreeSound DEF IInv, WellReferred
  <1>6. \A k \in Channels : Truthful(agent'.state[k], k) /\ Refers(agent'.cmd[k], k)
    BY <1>1 DEF Idle, IInv, WellReferred
  <1>7. \A o \in RequestIds : requests'[o].pc = "deliver" => requests'[o].cmd[requests'[o].channel] # NoJob
    BY <1>3, FreeSound DEF IInv, WellReferred
  <1> QED BY <1>2, <1>4, <1>5, <1>6, <1>7, MessageKeeps DEF Receive

\* The daemon gives a request up, or nobody waits for it any more.
LEMMA DropKeeps ==
  ASSUME IInv, UNCHANGED <<queueVars, fileVars>>, crashes' \in 0 .. MaxCrashes, losses' \in 0 .. MaxLosses,
         agent' = agent \/ agent' = Idle,
         \A q \in RequestIds : requests'[q] = Free \/ requests'[q] = requests[q],
         requests' \in [RequestIds -> Request]
  PROVE  IInv'
  <1>1. TypeOK'
    BY FreeSound DEF IInv, TypeOK, QueueTypeOK, queueVars, fileVars
  <1>2. PendingIsFresh'
    <2>1. \A j \in Jobs : Pending(j)' => Pending(j)
      BY ChannelTyped, FreeSound DEF Pending, Ahead, AwaitedBy, Idle, Jobs
    <2> QED BY <2>1 DEF IInv, PendingIsFresh, Ran, IsFinal, queueVars, fileVars
  <1>3. \A o \in RequestIds, k \in Channels :
          /\ requests'[o].report[k] = NoReport \/ requests'[o].report[k] = requests[o].report[k]
          /\ Truthful(requests'[o].state[k], k) /\ Refers(requests'[o].cmd[k], k)
    BY FreeSound DEF IInv, WellReferred
  <1>4. \A k \in Channels : Truthful(agent'.state[k], k) /\ Refers(agent'.cmd[k], k)
    BY FreeSound DEF IInv, WellReferred
  <1>5. \A o \in RequestIds : requests'[o].pc = "deliver" => requests'[o].cmd[requests'[o].channel] # NoJob
    BY FreeSound DEF IInv, WellReferred
  <1> QED BY <1>1, <1>2, <1>3, <1>4, <1>5, MessageKeeps

-----------------------------------------------------------------------------
(* Steps that write or remove result files *)

\* Writing keeps the other files; nothing is reported that was not written.
LEMMA FileStepKeeps ==
  ASSUME IInv, UNCHANGED <<queueVars, requests>>, TypeOK',
         \A j \in Jobs :
           /\ results'[j] # "none" \/ outcomes'[j] # {} \/ executors'[j] # "none" => rows[j].status # "none"
           /\ results'[j] \in FinalStates => results'[j] \in outcomes'[j]
           /\ outcomes[j] \subseteq outcomes'[j],
         \A k \in Channels : /\ agent'.state[k] \in {agent.state[k], NoReport}
                             /\ agent'.cmd[k] \in {agent.cmd[k], NoJob},
         FilesCoverRuns', PendingIsFresh', AtMostOnce'
  PROVE  IInv'
  <1>1. rows' = rows /\ requests' = requests
    BY DEF queueVars
  <1>2. \A k \in Channels : \A j : (Refers(j, k)' <=> Refers(j, k)) /\ \A s : Truthful(s, k)' <=> Truthful(s, k)
    BY <1>1 DEF Refers, Truthful, IsFinal
  <1>3. \A q \in RequestIds, k \in Channels : requests[q].report[k].job \in MaybeJob
    BY DEF IInv, TypeOK, Request, Report
  <1>4. \A k \in Channels : Truthful(agent.state[k], k)' /\ Refers(agent.cmd[k], k)'
    <2>1. \A k \in Channels : Truthful(agent'.state[k], k) /\ Refers(agent'.cmd[k], k)
      BY FreeSound DEF IInv, WellReferred
    <2> QED BY <1>2, <2>1
  <1>5. \A q \in RequestIds, k \in Channels :
          LET told == requests[q].report[k]
          IN  /\ Refers(told.job, k)
              /\ told.job # NoJob => told.status \in ResultStates
              /\ told.job # NoJob /\ told.status \in FinalStates => told.status \in outcomes'[told.job]
              /\ Truthful(requests[q].state[k], k)
              /\ Refers(requests[q].cmd[k], k)
    BY <1>3 DEF IInv, WellReferred, MaybeJob
  <1>5a. \A q \in RequestIds : requests[q].pc = "deliver" => requests[q].cmd[requests[q].channel] # NoJob
    BY DEF IInv, WellReferred
  <1>6. WellReferred'
    BY <1>1, <1>2, <1>4, <1>5, <1>5a DEF WellReferred
  <1>7. ReportedIsRecorded' /\ OneActivePerInstance'
    BY <1>1 DEF IInv, ReportedIsRecorded, OneActivePerInstance, IsFinal, IsActive, Jobs
  <1> QED BY <1>6, <1>7 DEF IInv

LEMMA WriteTyped ==
  ASSUME TypeOK, NEW j \in Jobs, NEW status \in ResultStates, Write(j, status)
  PROVE  /\ results' \in [Jobs -> ResultStates \cup {"none"}]
         /\ newer' \in [Jobs -> SUBSET Jobs]
         /\ results'[j] = status
         /\ \A d \in Jobs : d # j => results'[d] = results[d]
  BY DEF Write, TypeOK

LEMMA RemoveTyped ==
  ASSUME TypeOK, NEW j \in Jobs, Remove(j)
  PROVE  /\ results' \in [Jobs -> ResultStates \cup {"none"}]
         /\ newer' \in [Jobs -> SUBSET Jobs]
         /\ results'[j] = "none"
         /\ \A d \in Jobs : d # j => results'[d] = results[d]
  BY DEF Remove, TypeOK

\* The job about to be staged is in the queue, and it never ran.
LEMMA StagedIsFresh ==
  ASSUME IInv, agent.pc = "stage", agent.cmd[agent.channel] # NoJob, results[agent.cmd[agent.channel]] = "none"
  PROVE  LET j == agent.cmd[agent.channel]
         IN  /\ j \in Jobs /\ Channel(j) = agent.channel /\ rows[j].status # "none"
             /\ ~Ran(j) /\ ~IsFinal(j)
  <1> DEFINE j == agent.cmd[agent.channel]
  <1>1. agent.channel \in Channels /\ j \in Jobs
    BY DEF IInv, TypeOK, Agent, MaybeJob
  <1>2. Channel(j) = agent.channel /\ rows[j].status # "none"
    BY <1>1 DEF IInv, WellReferred, Refers
  <1>3. Pending(j)
    BY <1>2 DEF Pending, Ahead
  <1> QED BY <1>1, <1>2, <1>3 DEF IInv, PendingIsFresh

LEMMA StageKeeps ==
  ASSUME IInv, Stage
  PROVE  IInv'
  <1> DEFINE j == agent.cmd[agent.channel]
  <1>1. /\ j \in Jobs /\ Channel(j) = agent.channel /\ rows[j].status # "none"
        /\ starts[j] = 0
    <2>1. j \in Jobs /\ Channel(j) = agent.channel /\ rows[j].status # "none" /\ ~Ran(j)
      BY StagedIsFresh DEF Stage
    <2> QED BY <2>1 DEF Ran, IInv, TypeOK
  <1>2. "running" \in ResultStates /\ "running" \notin FinalStates
    BY DEF ResultStates, FinalStates
  <1>3. /\ results' \in [Jobs -> ResultStates \cup {"none"}] /\ newer' \in [Jobs -> SUBSET Jobs]
        /\ results'[j] = "running" /\ \A d \in Jobs : d # j => results'[d] = results[d]
    BY <1>1, <1>2, WriteTyped DEF Stage, IInv
  <1>4. /\ executors' = [executors EXCEPT ![j] = "working"]
        /\ starts' = [starts EXCEPT ![j] = @ + 1]
        /\ agent' = [agent EXCEPT !.pc = "clear"]
        /\ UNCHANGED <<queueVars, outcomes, requests, faultVars>>
    BY DEF Stage
  <1>5. TypeOK'
    BY <1>1, <1>3, <1>4 DEF IInv, TypeOK, QueueTypeOK, ExecutorStates, Agent, AgentPC, queueVars, faultVars
  <1>6. FilesCoverRuns' /\ AtMostOnce'
    BY <1>1, <1>3, <1>4 DEF IInv, TypeOK, FilesCoverRuns, AtMostOnce, Ran, IsFinal, queueVars
  <1>7. PendingIsFresh'
    <2>1. \A d \in Jobs : Pending(d)' => Pending(d)
      BY <1>4 DEF Stage, Pending, Ahead, AwaitedBy, IInv, TypeOK, Agent
    <2>2. \A d \in Jobs : results'[d] # "none" \/ (results'[d] = results[d] /\ (Ran(d)' <=> Ran(d)))
      BY <1>1, <1>2, <1>3, <1>4 DEF Ran, IInv, TypeOK
    <2> QED BY <1>4, <2>1, <2>2 DEF IInv, PendingIsFresh, IsFinal, queueVars
  <1>8. \A d \in Jobs :
           /\ results'[d] # "none" \/ outcomes'[d] # {} \/ executors'[d] # "none" => rows[d].status # "none"
           /\ results'[d] \in FinalStates => results'[d] \in outcomes'[d]
    BY <1>1, <1>2, <1>3, <1>4 DEF IInv, TypeOK, WellReferred
  <1>9. agent'.state = agent.state /\ agent'.cmd = agent.cmd
    BY <1>4 DEF IInv, TypeOK, Agent
  <1> QED BY <1>4, <1>5, <1>6, <1>7, <1>8, <1>9, FileStepKeeps

LEMMA StageNothingKeeps ==
  ASSUME IInv, StageNothing
  PROVE  IInv'
  <1>1. agent' = [agent EXCEPT !.pc = "clear"] /\ UNCHANGED <<queueVars, fileVars, requests, faultVars>>
    BY DEF StageNothing
  <1>2. TypeOK'
    BY <1>1 DEF IInv, TypeOK, QueueTypeOK, Agent, AgentPC, queueVars, fileVars, faultVars
  <1>3. PendingIsFresh'
    <2>1. \A d \in Jobs : Pending(d)' => Pending(d)
      BY <1>1 DEF StageNothing, Pending, Ahead, AwaitedBy, IInv, TypeOK, Agent
    <2> QED BY <1>1, <2>1 DEF IInv, PendingIsFresh, IsFinal, Ran, queueVars, fileVars
  <1>4. agent'.state = agent.state /\ agent'.cmd = agent.cmd
    BY <1>1 DEF IInv, TypeOK, Agent
  <1>5. FilesCoverRuns' /\ AtMostOnce'
    BY <1>1 DEF IInv, FilesCoverRuns, AtMostOnce, Ran, IsFinal, queueVars, fileVars
  <1> QED BY <1>1, <1>2, <1>3, <1>4, <1>5, FileStepKeeps DEF IInv, WellReferred, fileVars

LEMMA StageFailsKeeps ==
  ASSUME IInv, StageFails
  PROVE  IInv'
  <1> DEFINE j == agent.cmd[agent.channel]
  <1>1. j \in Jobs /\ rows[j].status # "none"
    BY StagedIsFresh DEF StageFails
  <1>2. "failed" \in ResultStates /\ "failed" \in FinalStates
    BY DEF ResultStates, FinalStates
  <1>3. /\ results' \in [Jobs -> ResultStates \cup {"none"}] /\ newer' \in [Jobs -> SUBSET Jobs]
        /\ results'[j] = "failed" /\ \A d \in Jobs : d # j => results'[d] = results[d]
    BY <1>1, <1>2, WriteTyped DEF StageFails, IInv
  <1>4. /\ outcomes' = [outcomes EXCEPT ![j] = @ \cup {"failed"}]
        /\ agent' = Idle /\ losses' \in 0 .. MaxLosses
        /\ UNCHANGED <<queueVars, executors, starts, requests, crashes>>
    BY DEF StageFails, IInv, TypeOK
  <1>5. TypeOK'
    BY <1>1, <1>2, <1>3, <1>4, FreeSound DEF IInv, TypeOK, QueueTypeOK, queueVars
  <1>6. FilesCoverRuns' /\ AtMostOnce'
    BY <1>1, <1>3, <1>4 DEF IInv, TypeOK, FilesCoverRuns, AtMostOnce, Ran, IsFinal, queueVars
  <1>7. PendingIsFresh'
    BY <1>4 DEF PendingIsFresh, Pending, Ahead, AwaitedBy, Idle
  <1>8. \A d \in Jobs :
           /\ results'[d] # "none" \/ outcomes'[d] # {} \/ executors'[d] # "none" => rows[d].status # "none"
           /\ results'[d] \in FinalStates => results'[d] \in outcomes'[d]
           /\ outcomes[d] \subseteq outcomes'[d]
    BY <1>1, <1>2, <1>3, <1>4 DEF IInv, TypeOK, WellReferred
  <1> QED BY <1>4, <1>5, <1>6, <1>7, <1>8, FreeSound, FileStepKeeps

\* What a final answer acknowledges, the Controller is done with.
LEMMA ClearedIsDone ==
  ASSUME IInv, agent.state[agent.channel].status \in FinalStates
  PROVE  LET j == agent.state[agent.channel].job
         IN  j \in Jobs /\ Channel(j) = agent.channel /\ (IsFinal(j) \/ rows[j].status = "purged")
  BY DEF IInv, TypeOK, Agent, Report, MaybeJob, WellReferred, Truthful, Refers

LEMMA ClearKeeps ==
  ASSUME IInv, Clear
  PROVE  IInv'
  <1> DEFINE done == agent.state[agent.channel]
             j == done.job
  <1>1. agent' = NextChannel(agent) /\ UNCHANGED <<queueVars, executors, starts, outcomes, requests, faultVars>>
    BY DEF Clear
  <1>2. /\ agent' \in Agent /\ agent'.pc \in {"stage", "idle"}
        /\ agent'.pc = "stage" => agent.channel = "provision" /\ agent'.channel = "game" /\ agent'.cmd = agent.cmd
        /\ \A k \in Channels : /\ agent'.state[k] \in {agent.state[k], NoReport}
                               /\ agent'.cmd[k] \in {agent.cmd[k], NoJob}
    BY <1>1, FreeSound DEF NextChannel, IInv, TypeOK, Agent, AgentPC, Channels, Idle
  <1>3. \/ results' = results /\ newer' = newer
        \/ /\ j \in Jobs /\ Channel(j) = agent.channel /\ (IsFinal(j) \/ rows[j].status = "purged")
           /\ results' \in [Jobs -> ResultStates \cup {"none"}] /\ newer' \in [Jobs -> SUBSET Jobs]
           /\ results'[j] = "none" /\ \A d \in Jobs : d # j => results'[d] = results[d]
    BY ClearedIsDone, RemoveTyped DEF Clear, IInv
  <1>4. TypeOK'
    BY <1>1, <1>2, <1>3 DEF IInv, TypeOK, QueueTypeOK, queueVars, faultVars
  <1>5. FilesCoverRuns' /\ AtMostOnce'
    BY <1>1, <1>3 DEF IInv, FilesCoverRuns, AtMostOnce, Ran, IsFinal, queueVars
  <1>6. PendingIsFresh'
    <2>1. \A d \in Jobs : Pending(d)' => Pending(d) /\ Channel(d) = "game" /\ agent.channel = "provision"
      BY <1>1, <1>2, ChannelTyped DEF Clear, Pending, Ahead, AwaitedBy, Channels
    <2>2. \A d \in Jobs : Pending(d)' => results'[d] = results[d]
      BY <1>3, <2>1
    <2> QED BY <1>1, <2>1, <2>2 DEF IInv, PendingIsFresh, Ran, IsFinal, queueVars
  <1>7. \A d \in Jobs :
           /\ results'[d] # "none" \/ outcomes'[d] # {} \/ executors'[d] # "none" => rows[d].status # "none"
           /\ results'[d] \in FinalStates => results'[d] \in outcomes'[d]
    BY <1>1, <1>3 DEF IInv, WellReferred, FinalStates
  <1> QED BY <1>1, <1>2, <1>4, <1>5, <1>6, <1>7, FileStepKeeps

LEMMA ExecutorStepKeeps ==
  ASSUME IInv, NEW j \in Jobs, ExecutorStep(j)
  PROVE  IInv'
  <1>1. /\ executors[j] # "none" /\ UNCHANGED <<queueVars, starts, agent, requests, crashes>>
        /\ losses' \in 0 .. MaxLosses
    BY DEF ExecutorStep, Exit, Finish, Overturn, IInv, TypeOK
  <1>2. rows[j].status # "none"
    BY <1>1 DEF IInv, WellReferred
  <1>3. \/ results' = results /\ newer' = newer /\ outcomes' = outcomes
        \/ \E status \in FinalStates :
             /\ results' \in [Jobs -> ResultStates \cup {"none"}] /\ newer' \in [Jobs -> SUBSET Jobs]
             /\ results'[j] = status /\ \A d \in Jobs : d # j => results'[d] = results[d]
             /\ outcomes' = [outcomes EXCEPT ![j] = @ \cup {status}]
    <2>1. CASE Exit(j)
      BY <2>1 DEF Exit
    <2>2. ASSUME NEW status \in FinalStates, Finish(j, status) PROVE <1>3!2
      <3>1. status \in ResultStates
        BY DEF ResultStates
      <3> QED BY <2>2, <3>1, WriteTyped DEF Finish, IInv
    <2>3. CASE Overturn(j)
      <3>1. "failed" \in ResultStates /\ "failed" \in FinalStates
        BY DEF ResultStates, FinalStates
      <3> QED BY <2>3, <3>1, WriteTyped DEF Overturn, IInv
    <2> QED BY <2>1, <2>2, <2>3 DEF ExecutorStep
  <1>4. executors' \in [Jobs -> ExecutorStates] /\ \A d \in Jobs : d # j => executors'[d] = executors[d]
    BY DEF ExecutorStep, Exit, Finish, Overturn, ExecutorStates, IInv, TypeOK
  <1>5. /\ outcomes' \in [Jobs -> SUBSET FinalStates]
        /\ \A d \in Jobs : outcomes[d] \subseteq outcomes'[d] /\ (d # j => outcomes'[d] = outcomes[d])
        /\ results'[j] \in FinalStates => results'[j] \in outcomes'[j]
        /\ \A d \in Jobs : outcomes'[d] # {} /\ outcomes[d] = {} => results'[d] # "none"
        /\ \A d \in Jobs : results[d] # "none" => results'[d] # "none"
    BY <1>3 DEF IInv, TypeOK, WellReferred, FinalStates
  <1>6. TypeOK'
    BY <1>1, <1>3, <1>4, <1>5 DEF IInv, TypeOK, QueueTypeOK, queueVars
  <1>7. FilesCoverRuns' /\ AtMostOnce'
    BY <1>1, <1>5 DEF IInv, FilesCoverRuns, AtMostOnce, Ran, IsFinal, queueVars
  <1>8. PendingIsFresh'
    <2>1. \A d \in Jobs : Pending(d)' <=> Pending(d)
      BY <1>1 DEF Pending, Ahead, AwaitedBy
    <2> QED BY <1>1, <1>5, <2>1 DEF IInv, PendingIsFresh, Ran, IsFinal, queueVars
  <1>9. \A d \in Jobs :
           /\ results'[d] # "none" \/ outcomes'[d] # {} \/ executors'[d] # "none" => rows[d].status # "none"
           /\ results'[d] \in FinalStates => results'[d] \in outcomes'[d]
    BY <1>2, <1>3, <1>4, <1>5 DEF IInv, WellReferred
  <1> QED BY <1>1, <1>5, <1>6, <1>7, <1>8, <1>9, FileStepKeeps

LEMMA CrashKeeps ==
  ASSUME IInv, Crash
  PROVE  IInv'
  <1>1. /\ agent' = Idle /\ executors' = [j \in Jobs |-> "none"] /\ crashes' \in 0 .. MaxCrashes
        /\ UNCHANGED <<queueVars, results, newer, starts, outcomes, requests, losses>>
    BY DEF Crash, IInv, TypeOK
  <1>2. TypeOK'
    BY <1>1, FreeSound DEF IInv, TypeOK, QueueTypeOK, ExecutorStates, queueVars
  <1>3. FilesCoverRuns' /\ AtMostOnce'
    BY <1>1 DEF IInv, FilesCoverRuns, AtMostOnce, Ran, IsFinal, queueVars
  <1>4. PendingIsFresh'
    BY <1>1 DEF PendingIsFresh, Pending, Ahead, AwaitedBy, Idle
  <1> QED BY <1>1, <1>2, <1>3, <1>4, FreeSound, FileStepKeeps DEF IInv, WellReferred

-----------------------------------------------------------------------------
(* A Controller thread *)

\* A transaction moves rows forward to what was reported, and the request learns
\* final states that are the rows' own or a command that was active just now.
LEMMA HandlerStepKeeps ==
  ASSUME IInv, NEW q \in RequestIds, UNCHANGED <<fileVars, agent, faultVars>>,
         QueueTypeOK', Forward, NoNewActive, ReportedIsRecorded',
         NEW r \in Request, requests' = [requests EXCEPT ![q] = r],
         r.report = requests[q].report,
         r.pc = "deliver" => r.cmd[r.channel] # NoJob,
         \A k \in Channels : /\ r.state[k] = requests[q].state[k] \/ Truthful(r.state[k], k)'
                             /\ \/ r.cmd[k] \in {requests[q].cmd[k], NoJob}
                                \/ /\ r.cmd[k] \in Jobs /\ Channel(r.cmd[k]) = k
                                   /\ IsActive(r.cmd[k]) /\ rows' = rows
  PROVE  IInv'
  <1>1. /\ results' = results /\ executors' = executors /\ outcomes' = outcomes
        /\ starts' = starts /\ agent' = agent
        /\ requests'[q] = r /\ \A o \in RequestIds \ {q} : requests'[o] = requests[o]
    BY DEF fileVars, IInv, TypeOK
  <1>2. TypeOK'
    BY DEF IInv, TypeOK, fileVars, faultVars
  <1>3. \A k \in Channels, s \in Report : Truthful(s, k) => Truthful(s, k)'
    BY DEF Truthful, Refers, Forward, IsFinal, FinalStates, Report, MaybeJob
  <1>4. \A k \in Channels, j \in MaybeJob : Refers(j, k) => Refers(j, k)'
    BY DEF Refers, Forward, MaybeJob
  <1>5. \A o \in RequestIds, k \in Channels :
          /\ requests[o].report[k].job \in MaybeJob /\ requests[o].state[k] \in Report
          /\ requests[o].cmd[k] \in MaybeJob
          /\ agent.state[k] \in Report /\ agent.cmd[k] \in MaybeJob
    BY DEF IInv, TypeOK, Request, Report, Agent
  <1>6. WellReferred'
    <2>1. \A o \in RequestIds, k \in Channels : Refers(requests[o].report[k].job, k)'
      BY <1>1, <1>4, <1>5 DEF IInv, WellReferred
    <2>2. \A o \in RequestIds, k \in Channels : Truthful(requests[o].state[k], k)'
      BY <1>1, <1>3, <1>5 DEF IInv, WellReferred
    <2>3. \A o \in RequestIds, k \in Channels : Refers(requests[o].cmd[k], k)'
      <3>1. \A k \in Channels : Refers(r.cmd[k], k)'
        <4>1. ASSUME NEW k \in Channels, r.cmd[k] \in {requests[q].cmd[k], NoJob} PROVE Refers(r.cmd[k], k)'
          BY <1>4, <1>5, <4>1 DEF IInv, WellReferred, Refers
        <4>2. ASSUME NEW k \in Channels, r.cmd[k] \in Jobs, Channel(r.cmd[k]) = k, IsActive(r.cmd[k]), rows' = rows
              PROVE  Refers(r.cmd[k], k)'
          BY <4>2 DEF Refers, IsActive, ActiveStates
        <4> QED BY <4>1, <4>2
      <3> QED BY <1>1, <1>4, <1>5, <3>1 DEF IInv, WellReferred
    <2>4. \A k \in Channels : Truthful(agent.state[k], k)' /\ Refers(agent.cmd[k], k)'
      <3>1. \A k \in Channels : Truthful(agent.state[k], k)'
        BY <1>1, <1>3 DEF IInv, TypeOK, Agent, WellReferred
      <3>2. \A k \in Channels : Refers(agent.cmd[k], k)'
        BY <1>1, <1>4 DEF IInv, TypeOK, Agent, WellReferred
      <3> QED BY <3>1, <3>2
    <2>5. \A j \in Jobs : rows[j].status # "none" => rows'[j].status # "none"
      BY DEF Forward
    <2>6. \A o \in RequestIds, k \in Channels :
            LET told == requests'[o].report[k]
            IN  /\ told.job # NoJob => told.status \in ResultStates
                /\ told.job # NoJob /\ told.status \in FinalStates => told.status \in outcomes[told.job]
      BY <1>1 DEF IInv, WellReferred
    <2>7. \A o \in RequestIds : requests'[o].pc = "deliver" => requests'[o].cmd[requests'[o].channel] # NoJob
      BY <1>1 DEF IInv, WellReferred
    <2> QED BY <1>1, <2>1, <2>2, <2>3, <2>4, <2>5, <2>6, <2>7 DEF IInv, WellReferred
  <1>7. FilesCoverRuns'
    BY <1>1 DEF IInv, FilesCoverRuns, Ran, Forward, IsFinal, FinalStates
  <1>8. PendingIsFresh'
    <2>1. ASSUME NEW j \in Jobs, Pending(j)', ~Pending(j)
          PROVE  IsActive(j) /\ rows' = rows
      <3>1. Channel(j) \in Channels
        BY ChannelTyped
      <3>2. AwaitedBy(q) /\ r.cmd[Channel(j)] = j /\ requests[q].cmd[Channel(j)] # j
        BY <1>1, <2>1 DEF Pending, Ahead, AwaitedBy
      <3> QED BY <3>1, <3>2 DEF Jobs
    <2>2. ASSUME NEW j \in Jobs, Pending(j)', IsActive(j), rows' = rows
          PROVE  results'[j] # "none" \/ (~Ran(j)' /\ ~IsFinal(j)')
      BY <1>1, <2>2 DEF IInv, FilesCoverRuns, Ran, IsActive, IsFinal, ActiveStates, FinalStates
    <2>3. ASSUME NEW j \in Jobs, Pending(j)
          PROVE  results'[j] # "none" \/ (~Ran(j)' /\ ~IsFinal(j)')
      BY <1>1, <2>3 DEF IInv, PendingIsFresh, Ran, ReportedIsRecorded, IsFinal
    <2> QED BY <2>1, <2>2, <2>3 DEF PendingIsFresh
  <1>9. AtMostOnce' /\ OneActivePerInstance'
    BY <1>1, OneActiveKept DEF IInv, AtMostOnce
  <1> QED BY <1>2, <1>6, <1>7, <1>8, <1>9 DEF IInv

LEMMA RowsSame ==
  ASSUME rows' = rows
  PROVE  Forward /\ NoNewActive
  BY DEF Forward, NoNewActive

\* The request record after a step, and what Advance and Unavailable leave alone.
LEMMA AdvanceTyped ==
  ASSUME NEW r \in Request
  PROVE  /\ Advance(r) \in Request
         /\ Advance(r).pc # "deliver"
         /\ Advance(r).report = r.report /\ Advance(r).state = r.state /\ Advance(r).cmd = r.cmd
  BY DEF Advance, Request, RequestPC, Channels

LEMMA UnavailableTyped ==
  ASSUME NEW r \in Request
  PROVE  /\ Unavailable(r) \in Request
         /\ Unavailable(r).pc # "deliver"
         /\ Unavailable(r).report = r.report
         /\ \A k \in Channels : /\ Unavailable(r).state[k] \in {r.state[k], NoReport}
                                /\ Unavailable(r).cmd[k] \in {r.cmd[k], NoJob}
  <1> DEFINE u == [r EXCEPT !.state[r.channel] = NoReport, !.cmd[r.channel] = NoJob]
  <1>1. NoReport \in Report /\ NoJob \in MaybeJob
    BY FreeSound DEF NoReport, Report, MaybeJob
  <1>2. /\ u \in Request /\ u.report = r.report
        /\ \A k \in Channels : u.state[k] \in {r.state[k], NoReport} /\ u.cmd[k] \in {r.cmd[k], NoJob}
    BY <1>1 DEF Request
  <1> QED BY <1>2, AdvanceTyped DEF Unavailable

LEMMA UnavailableKeeps ==
  ASSUME IInv, NEW q \in RequestIds, UNCHANGED <<queueVars, fileVars, agent, faultVars>>,
         Update(q, Unavailable(requests[q]))
  PROVE  IInv'
  <1>1. PICK n : n = Unavailable(requests[q])
    OBVIOUS
  <1>2. requests[q] \in Request
    BY DEF IInv, TypeOK
  <1>3. /\ n \in Request /\ n.pc # "deliver" /\ n.report = requests[q].report
        /\ \A k \in Channels : /\ n.state[k] \in {requests[q].state[k], NoReport}
                               /\ n.cmd[k] \in {requests[q].cmd[k], NoJob}
    BY <1>1, <1>2, UnavailableTyped
  <1>4. QueueTypeOK' /\ Forward /\ NoNewActive /\ ReportedIsRecorded'
    BY RowsSame DEF IInv, TypeOK, QueueTypeOK, ReportedIsRecorded, IsFinal, queueVars, fileVars
  <1>5. \A k \in Channels : n.state[k] = requests[q].state[k] \/ Truthful(n.state[k], k)'
    BY <1>3 DEF Truthful, NoReport, FinalStates
  <1>6. requests' = [requests EXCEPT ![q] = n] /\ UNCHANGED <<fileVars, agent, faultVars>>
    BY <1>1 DEF Update
  <1>7. \A k \in Channels : /\ n.state[k] = requests[q].state[k] \/ Truthful(n.state[k], k)'
                            /\ n.cmd[k] \in {requests[q].cmd[k], NoJob}
    BY <1>3, <1>5
  <1>8. n \in Request /\ n.report = requests[q].report /\ (n.pc = "deliver" => n.cmd[n.channel] # NoJob)
    BY <1>3
  <1>9. \A k \in Channels : /\ n.state[k] = requests[q].state[k] \/ Truthful(n.state[k], k)'
                            /\ \/ n.cmd[k] \in {requests[q].cmd[k], NoJob}
                               \/ /\ n.cmd[k] \in Jobs /\ Channel(n.cmd[k]) = k
                                  /\ IsActive(n.cmd[k]) /\ rows' = rows
    BY <1>7
  <1> QED BY <1>4, <1>6, <1>8, <1>9, HandlerStepKeeps

LEMMA RecordKeeps ==
  ASSUME IInv, NEW q \in RequestIds, Record(q)
  PROVE  IInv'
  <1> DEFINE r == requests[q]
             k == r.channel
             told == r.report[k]
  <1>1. r \in Request /\ k \in Channels /\ told \in Report
    BY DEF IInv, TypeOK, Request
  <1>2. public' = public /\ UNCHANGED <<fileVars, agent, faultVars>>
    BY DEF Record
  <1>3. CASE told.job = NoJob
    <2>1. rows' = rows /\ requests' = [requests EXCEPT ![q] = [r EXCEPT !.pc = "pick"]]
      BY <1>3 DEF Record, Update
    <2>2. [r EXCEPT !.pc = "pick"] \in Request
      BY <1>1 DEF Request, RequestPC
    <2>3. QueueTypeOK' /\ ReportedIsRecorded'
      BY <1>2, <2>1 DEF IInv, TypeOK, QueueTypeOK, ReportedIsRecorded, IsFinal, fileVars
    <2> QED BY <1>1, <1>2, <2>1, <2>2, <2>3, RowsSame, HandlerStepKeeps DEF Request
  <1>4. CASE told.job # NoJob /\ rows[told.job].status = "purged"
    BY <1>2, <1>4, UnavailableKeeps DEF Record, queueVars
  <1>5. CASE told.job # NoJob /\ rows[told.job].status # "purged"
    <2>1. PICK j, c, s : j = told.job /\ c = k /\ s = rows'[told.job].status
      OBVIOUS
    <2>2. PICK n : n = [r EXCEPT !.pc = "pick", !.state[c] = [job |-> j, status |-> s]]
      OBVIOUS
    <2>3. RecordReport(j, told.status) /\ requests' = [requests EXCEPT ![q] = n]
      BY <1>5, <2>1, <2>2 DEF Record, Update
    <2>4. /\ j \in Jobs /\ c \in Channels /\ Channel(j) = c /\ told.status \in ResultStates
          /\ rows[j].status \notin {"none", "purged"}
          /\ told.status \in FinalStates => told.status \in outcomes[j]
      BY <1>1, <1>5, <2>1 DEF Report, MaybeJob, IInv, WellReferred, Refers
    <2>5. QueueTypeOK
      BY DEF IInv, TypeOK
    <2>6. /\ rows' \in [Jobs -> Row] /\ Forward /\ NoNewActive
          /\ \A d \in Jobs : d # j => rows'[d] = rows[d]
          /\ rows'[j].status = IF rows[j].status \in FinalStates THEN rows[j].status ELSE told.status
      BY <2>3, <2>4, <2>5, RecordForward
    <2>7. QueueTypeOK' /\ ReportedIsRecorded'
      BY <1>2, <2>4, <2>5, <2>6 DEF QueueTypeOK, IInv, ReportedIsRecorded, IsFinal, fileVars
    <2>8. s \in RowStates /\ s # "none" /\ s = rows'[j].status
      BY <2>1, <2>4, <2>5, <2>6 DEF QueueTypeOK, Row, RowStates, ResultStates, ActiveStates, FinalStates
    <2>9. [job |-> j, status |-> s] \in Report
      BY <2>4, <2>8 DEF Report, MaybeJob
    <2>10. /\ n \in Request /\ n.pc = "pick" /\ n.report = r.report /\ n.cmd = r.cmd
           /\ \A d \in Channels : n.state[d] = r.state[d] \/ (d = c /\ n.state[d] = [job |-> j, status |-> s])
      BY <1>1, <2>2, <2>4, <2>9 DEF Request, RequestPC
    <2>11. Truthful([job |-> j, status |-> s], c)'
      BY <2>4, <2>8 DEF Truthful, Refers, IsFinal, RowStates
    <2>12. \A d \in Channels : n.state[d] = r.state[d] \/ Truthful(n.state[d], d)'
      BY <2>10, <2>11
    <2> QED BY <1>2, <2>3, <2>6, <2>7, <2>10, <2>12, HandlerStepKeeps
  <1> QED BY <1>3, <1>4, <1>5

\* A thread that changes no row, and learns nothing but the command it picked.
LEMMA ReadKeeps ==
  ASSUME IInv, NEW q \in RequestIds, rows' = rows, QueueTypeOK', UNCHANGED <<fileVars, agent, faultVars>>,
         NEW n \in Request, requests' = [requests EXCEPT ![q] = n],
         n.report = requests[q].report, n.state = requests[q].state,
         n.pc = "deliver" => n.cmd[n.channel] # NoJob,
         \A k \in Channels : \/ n.cmd[k] = requests[q].cmd[k]
                             \/ n.cmd[k] \in Jobs /\ Channel(n.cmd[k]) = k /\ IsActive(n.cmd[k])
  PROVE  IInv'
  <1>1. ReportedIsRecorded'
    BY DEF IInv, ReportedIsRecorded, IsFinal, fileVars
  <1> QED BY <1>1, RowsSame, HandlerStepKeeps

LEMMA PickKeeps ==
  ASSUME IInv, NEW q \in RequestIds, Pick(q)
  PROVE  IInv'
  <1> DEFINE r == requests[q]
  <1>1. r \in Request /\ r.channel \in Channels
    BY DEF IInv, TypeOK, Request
  <1>2. rows' = rows /\ QueueTypeOK' /\ UNCHANGED <<fileVars, agent, faultVars>>
    BY DEF Pick, IInv, TypeOK, QueueTypeOK, queueVars
  <1>3. CASE \E j \in Jobs : Oldest(r.channel, j) /\ Update(q, [r EXCEPT !.pc = "deliver", !.cmd[r.channel] = j])
    <2>1. PICK j \in Jobs : Oldest(r.channel, j) /\ Update(q, [r EXCEPT !.pc = "deliver", !.cmd[r.channel] = j])
      BY <1>3
    <2>2. PICK n : n = [r EXCEPT !.pc = "deliver", !.cmd[r.channel] = j]
      OBVIOUS
    <2>3. /\ n \in Request /\ n.report = r.report /\ n.state = r.state
          /\ n.cmd[n.channel] # NoJob
          /\ \A k \in Channels : n.cmd[k] = r.cmd[k] \/ (k = r.channel /\ n.cmd[k] = j)
      BY <1>1, <2>2 DEF Request, RequestPC, MaybeJob
    <2>4. Channel(j) = r.channel /\ IsActive(j)
      BY <2>1 DEF Oldest
    <2>5. requests' = [requests EXCEPT ![q] = n]
      BY <2>1, <2>2 DEF Update
    <2> QED BY <1>2, <2>3, <2>4, <2>5, ReadKeeps
  <1>4. CASE Update(q, IF r.channel = "provision" THEN [r EXCEPT !.pc = "project"] ELSE Advance(r))
    <2>1. PICK n : n = IF r.channel = "provision" THEN [r EXCEPT !.pc = "project"] ELSE Advance(r)
      OBVIOUS
    <2>2. n \in Request /\ n.pc # "deliver" /\ n.report = r.report /\ n.state = r.state /\ n.cmd = r.cmd
      BY <1>1, <2>1, AdvanceTyped DEF Request, RequestPC
    <2>3. requests' = [requests EXCEPT ![q] = n]
      BY <1>4, <2>1 DEF Update
    <2> QED BY <1>2, <2>2, <2>3, ReadKeeps
  <1> QED BY <1>3, <1>4 DEF Pick

LEMMA DeliverKeeps ==
  ASSUME IInv, NEW q \in RequestIds, Deliver(q)
  PROVE  IInv'
  <1> DEFINE r == requests[q]
             k == r.channel
             j == r.cmd[k]
  <1>1. r \in Request /\ k \in Channels /\ j \in Jobs
    BY DEF Deliver, IInv, TypeOK, Request, MaybeJob, WellReferred
  <1>2. public' = public /\ UNCHANGED <<fileVars, agent, faultVars>>
    BY DEF Deliver
  <1>3. CASE rows[j].status = "purged"
    BY <1>2, <1>3, UnavailableKeeps DEF Deliver, queueVars
  <1>4. CASE rows[j].status # "purged"
    <2>1. PICK c, d, s : c = k /\ d = j /\ s = rows'[j].status
      OBVIOUS
    <2>2. PICK m : m = IF r.state[c] # NoReport THEN r ELSE [r EXCEPT !.state[c] = [job |-> d, status |-> s]]
      OBVIOUS
    <2>3. PICK n : n = IF c = "provision" THEN [m EXCEPT !.pc = "project"] ELSE Advance(m)
      OBVIOUS
    <2>4. MarkDelivered(d) /\ requests' = [requests EXCEPT ![q] = n]
      BY <1>4, <2>1, <2>2, <2>3 DEF Deliver, Update
    <2>5. QueueTypeOK
      BY DEF IInv, TypeOK
    <2>6. /\ d \in Jobs /\ c \in Channels /\ Channel(d) = c
          /\ rows[d].status # "none" /\ rows[d].status \in RowStates
      BY <1>1, <1>4, <2>1, <2>5 DEF IInv, WellReferred, Refers, QueueTypeOK, Row
    <2>7. /\ rows' \in [Jobs -> Row] /\ Forward /\ NoNewActive
          /\ \A e \in Jobs : rows'[e].status = rows[e].status
                             \/ (rows[e].status = "queued" /\ rows'[e].status = "delivered")
      BY <2>4, <2>5, <2>6, MarkForward
    <2>8. QueueTypeOK' /\ ReportedIsRecorded'
      BY <1>2, <2>5, <2>7 DEF QueueTypeOK, IInv, ReportedIsRecorded, IsFinal, FinalStates, fileVars
    <2>9. s = rows'[d].status
      BY <2>1
    <2>10. s \in RowStates /\ s # "none"
      BY <2>6, <2>7, <2>9 DEF RowStates, ActiveStates, FinalStates
    <2>11. [job |-> d, status |-> s] \in Report
      BY <2>6, <2>10 DEF Report, MaybeJob
    <2>12. /\ m \in Request /\ m.report = r.report /\ m.cmd = r.cmd
           /\ \A e \in Channels : m.state[e] = r.state[e] \/ (e = c /\ m.state[e] = [job |-> d, status |-> s])
      BY <1>1, <2>1, <2>2, <2>11 DEF Request
    <2>13. n \in Request /\ n.pc # "deliver" /\ n.report = m.report /\ n.state = m.state /\ n.cmd = m.cmd
      BY <2>3, <2>12, AdvanceTyped DEF Request, RequestPC
    <2>14. Truthful([job |-> d, status |-> s], c)'
      BY <2>6, <2>9, <2>10 DEF Truthful, Refers, IsFinal, RowStates
    <2>15. \A e \in Channels : n.state[e] = r.state[e] \/ Truthful(n.state[e], e)'
      BY <2>12, <2>13, <2>14
    <2>16. n \in Request /\ n.report = requests[q].report /\ n.pc # "deliver"
      BY <2>12, <2>13
    <2>17. \A e \in Channels : /\ n.state[e] = requests[q].state[e] \/ Truthful(n.state[e], e)'
                               /\ \/ n.cmd[e] \in {requests[q].cmd[e], NoJob}
                                  \/ /\ n.cmd[e] \in Jobs /\ Channel(n.cmd[e]) = e
                                     /\ IsActive(n.cmd[e]) /\ rows' = rows
      BY <2>12, <2>13, <2>15
    <2>18. requests' = [requests EXCEPT ![q] = n]
      BY <2>4
    <2>19. n.pc = "deliver" => n.cmd[n.channel] # NoJob
      BY <2>16
    <2> HIDE DEF r, k, j
    <2> QED BY <1>2, <2>7, <2>8, <2>16, <2>17, <2>18, <2>19, HandlerStepKeeps
  <1> QED BY <1>3, <1>4

LEMMA ProjectKeeps ==
  ASSUME IInv, NEW q \in RequestIds, Project(q)
  PROVE  IInv'
  <1> DEFINE r == requests[q]
             shown == r.state["provision"]
  <1>1. r \in Request /\ shown \in Report
    BY DEF IInv, TypeOK, Request, Channels
  <1>2. rows' = rows /\ UNCHANGED <<fileVars, agent, faultVars>>
    BY DEF Project
  <1>3. QueueTypeOK'
    <2>1. CASE shown.job = NoJob
      BY <1>2, <2>1 DEF Project, IInv, TypeOK, QueueTypeOK
    <2>2. CASE shown.job # NoJob
      <3>1. PICK i : i = rows[shown.job].instance
        OBVIOUS
      <3>2. shown.status \in RowStates \cup {"none"} /\ ProjectState(i, shown.status)
        BY <1>1, <2>2, <3>1 DEF Project, Report
      <3>3. shown.status # "none"
        BY <2>2 DEF IInv, WellReferred, Truthful, Channels
      <3>4. PublicState(shown.status) \in PublicStatus
        BY <3>2, <3>3 DEF PublicState, PublicStatus, RowStates, ActiveStates, FinalStates
      <3> QED BY <1>2, <3>2, <3>4 DEF ProjectState, IInv, TypeOK, QueueTypeOK
    <2> QED BY <2>1, <2>2
  <1>4. PICK n : n = Advance(r)
    OBVIOUS
  <1>5. requests' = [requests EXCEPT ![q] = n]
    BY <1>4 DEF Project, Update
  <1> QED BY <1>1, <1>2, <1>3, <1>4, <1>5, AdvanceTyped, ReadKeeps

LEMMA DiscardKeeps ==
  ASSUME IInv, NEW q \in RequestIds, DiscardOrphan(q)
  PROVE  IInv'
  BY FreeSound, DropKeeps DEF DiscardOrphan, Update, IInv, TypeOK, queueVars, faultVars

LEMMA FaultsKeep == IInv /\ Faults => IInv'
  <1> SUFFICES ASSUME IInv, Faults PROVE IInv'
    OBVIOUS
  <1>1. CASE Timeout
    BY <1>1, FreeSound, DropKeeps DEF Timeout, IInv, TypeOK
  <1>2. ASSUME NEW q \in RequestIds, Lose(q) PROVE IInv'
    BY <1>2, FreeSound, DropKeeps DEF Lose, Update, IInv, TypeOK
  <1> QED BY <1>1, <1>2, CrashKeeps, StageFailsKeeps DEF Faults

-----------------------------------------------------------------------------
(* The theorems *)

LEMMA StepKeeps == IInv /\ [Next]_vars => IInv'
  <1> SUFFICES ASSUME IInv, [Next]_vars PROVE IInv'
    OBVIOUS
  <1>1. CASE UNCHANGED vars
    <2>1. Forward
      BY <1>1, RowsSame DEF vars, queueVars
    <2> QED BY <1>1, <2>1, RowStepKeeps DEF vars, queueVars, IInv, TypeOK, QueueTypeOK, OneActivePerInstance, IsActive
  <1>2. CASE AgentStep
    BY <1>2, SendKeeps, ReceiveKeeps, StageKeeps, StageNothingKeeps, ClearKeeps DEF AgentStep
  <1>3. ASSUME NEW q \in RequestIds, Handler(q) PROVE IInv'
    BY <1>3, RecordKeeps, PickKeeps, DeliverKeeps, ProjectKeeps DEF Handler
  <1> QED BY <1>1, <1>2, <1>3, UserStepKeeps, ExecutorStepKeeps, DiscardKeeps, FaultsKeep DEF Next

\* The invariant from which the safety properties follow holds in every reachable
\* state of the exchange.
THEOREM Inductive == Spec => []IInv
  <1> QED BY InitIInv, StepKeeps, PTL DEF Spec

\* Rows, files, memory and requests keep their types.
THEOREM TypesHold == Spec => []TypeOK
  <1>1. IInv => TypeOK
    BY DEF IInv
  <1> QED BY <1>1, Inductive, PTL

\* A job's executor is started at most once, however often stage_provisioning_command
\* or stage_game_data_command is handed the job.
THEOREM JobsStartOnce == Spec => []AtMostOnce
  <1>1. IInv => AtMostOnce
    BY DEF IInv
  <1> QED BY <1>1, Inductive, PTL

\* apply_result only ever records what the Agent wrote for that job.
THEOREM RecordsAreTrue == Spec => []ReportedIsRecorded
  <1>1. IInv => ReportedIsRecorded
    BY DEF IInv
  <1> QED BY <1>1, Inductive, PTL

\* enqueue keeps one active provisioning per instance.
THEOREM OneProvisioningAtATime == Spec => []OneActivePerInstance
  <1>1. IInv => OneActivePerInstance
    BY DEF IInv
  <1> QED BY <1>1, Inductive, PTL

\* clear_provisioning_result and clear_game_data_result remove only what the
\* Controller has recorded or has deleted.
THEOREM ResultsAreKept == Spec => NoResultLost
  <1> DEFINE Kept == \A j \in Jobs : results[j] # "none" /\ results'[j] = "none" => IsFinal(j) \/ rows[j].status = "purged"
  <1>1. ASSUME IInv, [Next]_vars PROVE Kept
    <2>1. CASE Clear
      BY <1>1, <2>1, ClearedIsDone, RemoveTyped DEF Clear, IInv
    <2>2. CASE Stage
      BY <1>1, <2>2 DEF Stage, Write, IInv, TypeOK
    <2>3. CASE StageFails
      BY <1>1, <2>3 DEF StageFails, Write, IInv, TypeOK
    <2>4. ASSUME NEW j \in Jobs, ExecutorStep(j) PROVE Kept
      BY <1>1, <2>4 DEF ExecutorStep, Exit, Finish, Overturn, Write, IInv, TypeOK, FinalStates
    <2>5. CASE results' = results
      BY <2>5
    <2> QED BY <1>1, <2>1, <2>2, <2>3, <2>4, <2>5
          DEF Next, UserStep, AgentStep, SendHeartbeat, Receive, StageNothing, Handler, Record, Pick, Deliver,
              Project, DiscardOrphan, Faults, Crash, Timeout, Lose, vars, fileVars
  <1> QED BY <1>1, Inductive, PTL DEF Spec, NoResultLost

\* A final row is never changed but by the deletion of its instance.
THEOREM VerdictsStand == Spec => FinalIsForever
  <1> DEFINE Stands == \A j \in Jobs : IsFinal(j) => rows'[j].status \in {rows[j].status, "purged"}
  <1>1. ASSUME IInv, [Next]_vars PROVE Stands
    <2>1. QueueTypeOK
      BY <1>1 DEF IInv, TypeOK
    <2>2. ASSUME NEW i \in Instances \cup {"none"}, NEW j \in Jobs, InsertRow(j, i) PROVE Stands
      BY <2>1, <2>2, InsertForward DEF Forward
    <2>3. ASSUME NEW i \in Instances, DeleteInstance(i) PROVE Stands
      BY <2>1, <2>3 DEF DeleteInstance, QueueTypeOK, IsFinal
    <2>4. ASSUME NEW j, NEW status, RecordReport(j, status) PROVE Stands
      BY <2>1, <2>4 DEF RecordReport, QueueTypeOK, IsFinal, Row
    <2>5. ASSUME NEW j, MarkDelivered(j) PROVE Stands
      BY <2>1, <2>5 DEF MarkDelivered, QueueTypeOK, IsFinal, Row, FinalStates
    <2>6. CASE rows' = rows
      BY <2>6
    <2>7. CASE UserStep
      <3>1. \A j \in Provisions : j \in Jobs
        BY DEF Jobs
      <3>2. \A j \in GameJobs : j \in Jobs
        BY DEF Jobs
      <3> QED BY <2>2, <2>3, <2>7, <3>1, <3>2 DEF UserStep, EnqueueProvision, EnqueueGame
    <2>8. ASSUME NEW q \in RequestIds, Handler(q) PROVE Stands
      BY <2>4, <2>5, <2>6, <2>8 DEF Handler, Record, Pick, Deliver, Project, queueVars
    <2> QED BY <1>1, <2>6, <2>7, <2>8
          DEF Next, AgentStep, SendHeartbeat, Receive, Stage, StageNothing, Clear, ExecutorStep,
              DiscardOrphan, Faults, Crash, Timeout, StageFails, Lose, vars, queueVars
  <1> QED BY <1>1, Inductive, PTL DEF Spec, FinalIsForever

\* Only a job the Controller still waits for, or has deleted, is started.
THEOREM StartsAreLive == Spec => StartsOnlyLive
  <1> DEFINE Live == \A j \in Jobs : starts'[j] > starts[j] => IsActive(j) \/ rows[j].status = "purged"
  <1>1. ASSUME IInv, [Next]_vars PROVE Live
    <2>1. starts \in [Jobs -> Nat]
      BY <1>1 DEF IInv, TypeOK
    <2>2. CASE Stage
      <3> DEFINE j == agent.cmd[agent.channel]
      <3>1. /\ j \in Jobs /\ rows[j].status # "none" /\ ~IsFinal(j)
            /\ \A d \in Jobs \ {j} : starts'[d] = starts[d]
        BY <1>1, <2>1, <2>2, StagedIsFresh DEF Stage
      <3>2. rows[j].status \in RowStates \cup {"none", "purged"}
        BY <1>1, <3>1 DEF IInv, TypeOK, QueueTypeOK, Row
      <3> QED BY <2>1, <3>1, <3>2 DEF IsActive, IsFinal, RowStates
    <2>3. CASE starts' = starts
      BY <2>1, <2>3
    <2> QED BY <1>1, <2>2, <2>3
          DEF Next, UserStep, AgentStep, SendHeartbeat, Receive, StageNothing, Clear, ExecutorStep, Handler,
              Record, Pick, Deliver, Project, DiscardOrphan, Faults, Crash, Timeout, StageFails, Lose, vars, fileVars
  <1> QED BY <1>1, Inductive, PTL DEF Spec, StartsOnlyLive

-----------------------------------------------------------------------------
(* The refinement of JobPromise *)

\* An executor at work has written no end yet; only a provisioning lingers after its
\* own; game data belongs to no instance.
RunInv ==
  \A j \in Jobs :
    /\ executors[j] = "working" => starts[j] > 0 /\ outcomes[j] = {}
    /\ executors[j] = "announced" => j \in Provisions /\ starts[j] > 0 /\ outcomes[j] = {"completed"}
    /\ j \in GameJobs => rows[j].instance = "none"

\* Executors and rows are typed whatever else holds.
LEMMA FilesTyped ==
  ASSUME IInv
  PROVE  /\ executors \in [Jobs -> ExecutorStates] /\ starts \in [Jobs -> Nat] /\ outcomes \in [Jobs -> SUBSET FinalStates]
         /\ rows \in [Jobs -> Row] /\ QueueTypeOK
  BY DEF IInv, TypeOK, QueueTypeOK

\* The four things a step may do to executors and what they wrote.
StagedOne ==
  \E j \in Jobs : /\ ~Ran(j) /\ rows[j].status # "none" /\ ~IsFinal(j)
                  /\ executors' = [executors EXCEPT ![j] = "working"]
                  /\ starts' = [starts EXCEPT ![j] = @ + 1] /\ UNCHANGED outcomes
RefusedOne ==
  \E j \in Jobs : /\ ~Ran(j) /\ rows[j].status # "none" /\ ~IsFinal(j)
                  /\ outcomes' = [outcomes EXCEPT ![j] = @ \cup {"failed"}] /\ UNCHANGED <<executors, starts>>
WorkedOne == \E j \in Jobs : ExecutorStep(j)
NobodyWorked == UNCHANGED <<starts, outcomes>> /\ (UNCHANGED executors \/ executors' = [j \in Jobs |-> "none"])

\* Every step does one of them.
LEMMA WorkMoves ==
  ASSUME IInv, [Next]_vars
  PROVE  \/ (StagedOne \/ RefusedOne \/ WorkedOne) /\ UNCHANGED rows
         \/ NobodyWorked
  <1>1. CASE Stage
    <2>1. StagedOne
      BY <1>1, StagedIsFresh DEF Stage, StagedOne
    <2> QED BY <1>1, <2>1 DEF Stage, queueVars
  <1>2. CASE StageFails
    <2>1. RefusedOne
      BY <1>2, StagedIsFresh DEF StageFails, RefusedOne
    <2> QED BY <1>2, <2>1 DEF StageFails, queueVars
  <1>3. CASE \E j \in Jobs : ExecutorStep(j)
    BY <1>3 DEF WorkedOne, ExecutorStep, queueVars
  <1>4. CASE ~(Stage \/ StageFails \/ \E j \in Jobs : ExecutorStep(j))
    BY <1>4 DEF NobodyWorked, Next, UserStep, AgentStep, SendHeartbeat, Receive, StageNothing, Clear, Handler, Record, Pick,
       Deliver, Project, DiscardOrphan, Faults, Crash, Timeout, Lose, vars, fileVars
  <1> QED BY <1>1, <1>2, <1>3, <1>4

\* What a step may do to the rows.
Inserted == \E j \in Jobs, i \in Instances \cup {"none"} : InsertRow(j, i) /\ (j \in GameJobs => i = "none")
Deleted == \E i \in Instances : DeleteInstance(i)
Recorded ==
  \E j \in Jobs, v \in ResultStates :
    /\ RecordReport(j, v) /\ rows[j].status \notin {"none", "purged"}
    /\ v \in FinalStates => v \in outcomes[j]
Delivered == \E j \in Jobs : MarkDelivered(j)

\* Every step that changes the rows is one of these transactions.
LEMMA RowsMove ==
  ASSUME IInv, [Next]_vars
  PROVE  ((Inserted \/ Deleted \/ Recorded \/ Delivered) /\ UNCHANGED fileVars) \/ UNCHANGED rows
  <1>1. CASE UserStep
    <2>1. ASSUME NEW i \in Instances, NEW j \in Provisions, EnqueueProvision(i, j) PROVE Inserted
      <3>1. j \in Jobs /\ j \notin GameJobs
        BY DEF Jobs
      <3> QED BY <2>1, <3>1 DEF EnqueueProvision, Inserted
    <2>2. ASSUME NEW j \in GameJobs, EnqueueGame(j) PROVE Inserted
      <3>1. j \in Jobs
        BY DEF Jobs
      <3> QED BY <2>2, <3>1 DEF EnqueueGame, Inserted
    <2> QED BY <1>1, <2>1, <2>2 DEF UserStep, Deleted
  <1>2. ASSUME NEW q \in RequestIds, Record(q), ~UNCHANGED rows PROVE Recorded /\ UNCHANGED fileVars
    <2> DEFINE k == requests[q].channel
               told == requests[q].report[k]
    <2>1. k \in Channels /\ told \in Report
      BY DEF IInv, TypeOK, Request
    <2>2. told.job # NoJob /\ rows[told.job].status # "purged" /\ RecordReport(told.job, told.status)
      BY <1>2 DEF Record
    <2>3. told.job \in Jobs /\ told.status \in ResultStates /\ (told.status \in FinalStates => told.status \in outcomes[told.job])
          /\ rows[told.job].status # "none"
      BY <2>1, <2>2 DEF IInv, WellReferred, Refers, Report, MaybeJob
    <2> QED BY <1>2, <2>2, <2>3 DEF Recorded, Record
  <1>3. ASSUME NEW q \in RequestIds, Deliver(q), ~UNCHANGED rows PROVE Delivered /\ UNCHANGED fileVars
    <2> DEFINE k == requests[q].channel
               j == requests[q].cmd[k]
    <2>1. k \in Channels /\ j \in MaybeJob
      BY DEF IInv, TypeOK, Request
    <2>2. j # NoJob
      BY <1>3 DEF Deliver, IInv, WellReferred
    <2>3. MarkDelivered(j)
      BY <1>3 DEF Deliver
    <2> QED BY <1>3, <2>1, <2>2, <2>3 DEF Delivered, MaybeJob, Deliver
  <1>4. CASE ~(UserStep \/ \E q \in RequestIds : (Record(q) \/ Deliver(q)) /\ ~UNCHANGED rows)
    BY <1>4 DEF Next, AgentStep, SendHeartbeat, Receive, Stage, StageNothing, Clear, ExecutorStep, Handler, Pick, Project,
       DiscardOrphan, Faults, Crash, Timeout, StageFails, Lose, vars, queueVars
  <1> QED BY <1>1, <1>2, <1>3, <1>4 DEF UserStep

\* No executor runs in the beginning.
LEMMA RunInvInit == Init => RunInv
  BY DEF Init, QueueInit, NoRow, RunInv

\* RunInv holds in every behaviour.
LEMMA RunKept ==
  ASSUME IInv, RunInv, [Next]_vars
  PROVE  RunInv'
  <1>1. \A j \in GameJobs : j \in Jobs /\ j \notin Provisions
    BY DEF Jobs
  <1>2. \A j \in GameJobs : rows'[j].instance = "none"
    <2>1. \A j \in GameJobs : rows[j].instance = "none"
      BY <1>1 DEF RunInv
    <2>2. CASE Inserted
      <3>1. PICK d \in Jobs, i \in Instances \cup {"none"} : InsertRow(d, i) /\ (d \in GameJobs => i = "none")
        BY <2>2 DEF Inserted
      <3>2. rows'[d].instance = i /\ \A e \in Jobs : e # d => rows'[e] = rows[e]
        BY <3>1, FilesTyped, InsertForward
      <3> QED BY <1>1, <2>1, <3>1, <3>2
    <2>3. CASE Deleted
      BY <1>1, <2>1, <2>3, FilesTyped DEF Deleted, DeleteInstance, Row
    <2>4. CASE Recorded \/ Delivered
      BY <1>1, <2>1, <2>4, FilesTyped DEF Recorded, Delivered, RecordReport, MarkDelivered, Row
    <2> QED BY <2>1, <2>2, <2>3, <2>4, RowsMove
  <1>3. \A j \in Jobs : /\ executors'[j] = "working" => starts'[j] > 0 /\ outcomes'[j] = {}
                        /\ executors'[j] = "announced" => j \in Provisions /\ starts'[j] > 0 /\ outcomes'[j] = {"completed"}
    <2>1. CASE StagedOne
      BY <2>1, FilesTyped DEF StagedOne, Ran, RunInv
    <2>2. CASE RefusedOne
      BY <2>2, FilesTyped DEF RefusedOne, Ran, RunInv
    <2>3. CASE WorkedOne
      BY <2>3, FilesTyped DEF WorkedOne, ExecutorStep, Exit, Finish, Overturn, FinalStates, RunInv
    <2>4. CASE NobodyWorked
      BY <2>4 DEF NobodyWorked, RunInv
    <2> QED BY <2>1, <2>2, <2>3, <2>4, WorkMoves
  <1> QED BY <1>2, <1>3 DEF RunInv

\* What the issuer knows is in the rows.
LEMMA PhaseKept ==
  ASSUME IInv, UNCHANGED rows
  PROVE  [j \in Jobs |-> Phase(j)'] = [j \in Jobs |-> Phase(j)]
  BY DEF Phase, IsActive, IsFinal

\* The promise starts with nothing known and nothing begun.
LEMMA PromiseInit == Init => Promise!Init
  <1> SUFFICES ASSUME Init PROVE Promise!Init
    OBVIOUS
  <1>1. \A j \in Jobs : rows[j].status = "none" /\ starts[j] = 0
    BY DEF Init, QueueInit, NoRow
  <1>2. \A j \in Jobs : Phase(j) = "unknown"
    BY <1>1 DEF Phase, IsActive, IsFinal, ActiveStates, FinalStates
  <1>3. [j \in Jobs |-> Phase(j)] = [j \in Jobs |-> "unknown"]
    BY <1>2
  <1>4. {j \in Jobs : starts[j] > 0} = {}
    BY <1>1
  <1>5. outcomes = [j \in Jobs |-> {}]
    BY DEF Init
  <1> QED BY <1>3, <1>4, <1>5 DEF Promise!Init

\* A job on its way to be staged is queued, or forgotten with its instance.
LEMMA StagedAwaits ==
  ASSUME IInv, NEW j \in Jobs, ~Ran(j), rows[j].status # "none", ~IsFinal(j)
  PROVE  /\ Phase(j) \in {"queued", "forgotten"} /\ starts[j] = 0 /\ outcomes[j] = {}
  <1>1. rows[j].status \in RowStates \cup {"none", "purged"}
    BY FilesTyped DEF Row
  <1> QED BY <1>1, FilesTyped DEF Phase, IsActive, IsFinal, RowStates, Ran

\* The executors: what they do is a step of the promise.
LEMMA WorkPromised ==
  ASSUME IInv, RunInv, UNCHANGED rows, StagedOne \/ RefusedOne \/ WorkedOne
  PROVE  Promise!Next \/ UNCHANGED Promise!vars
  <1> DEFINE P == [j \in Jobs |-> Phase(j)]
             Q == [j \in Jobs |-> Phase(j)']
             B == {j \in Jobs : starts[j] > 0}
             C == {j \in Jobs : starts'[j] > 0}
  <1>1. Q = P
    BY PhaseKept
  <1>2. CASE StagedOne
    <2>1. PICK j \in Jobs : /\ ~Ran(j) /\ rows[j].status # "none" /\ ~IsFinal(j)
                            /\ starts' = [starts EXCEPT ![j] = @ + 1] /\ UNCHANGED outcomes
      BY <1>2 DEF StagedOne
    <2>2. P[j] \in {"queued", "forgotten"} /\ starts[j] = 0 /\ outcomes[j] = {}
      BY <2>1, StagedAwaits
    <2>3. C = B \cup {j} /\ j \notin B
      <3>1. starts'[j] > 0 /\ \A d \in Jobs : d # j => starts'[d] = starts[d]
        BY <2>1, <2>2, FilesTyped
      <3> QED BY <2>2, <3>1
    <2>4. Promise!Begin(j)
      BY <1>1, <2>1, <2>2, <2>3 DEF Promise!Begin, Promise!Awaits
    <2> QED BY <2>4 DEF Promise!Next
  <1>3. CASE RefusedOne
    <2>1. PICK j \in Jobs : /\ ~Ran(j) /\ rows[j].status # "none" /\ ~IsFinal(j)
                            /\ outcomes' = [outcomes EXCEPT ![j] = @ \cup {"failed"}] /\ UNCHANGED starts
      BY <1>3 DEF RefusedOne
    <2>2. P[j] \in {"queued", "forgotten"} /\ starts[j] = 0 /\ outcomes[j] = {}
      BY <2>1, StagedAwaits
    <2>3. outcomes' = [outcomes EXCEPT ![j] = {"failed"}] /\ C = B /\ j \notin B
      BY <2>1, <2>2, FilesTyped
    <2>4. Promise!Refuse(j)
      BY <1>1, <2>2, <2>3 DEF Promise!Refuse, Promise!Awaits
    <2> QED BY <2>4 DEF Promise!Next
  <1>4. CASE WorkedOne
    <2>1. PICK j \in Jobs : ExecutorStep(j)
      BY <1>4 DEF WorkedOne
    <2>2. C = B
      BY <2>1 DEF ExecutorStep
    <2>3. ASSUME NEW v \in FinalStates, Finish(j, v) PROVE Promise!End(j, v) /\ v \in Promise!Ends
      <3>1. starts[j] > 0 /\ outcomes[j] = {}
        BY <2>3 DEF Finish, RunInv
      <3>2. outcomes' = [outcomes EXCEPT ![j] = {v}]
        BY <2>3, <3>1, FilesTyped DEF Finish
      <3> QED BY <1>1, <2>2, <3>1, <3>2 DEF Promise!End, Promise!Ends, FinalStates
    <2>4. CASE Overturn(j)
      <3>1. starts[j] > 0 /\ outcomes[j] = {"completed"} /\ j \in Provisions
        BY <2>4 DEF Overturn, RunInv
      <3>2. outcomes' = [outcomes EXCEPT ![j] = {"completed", "failed"}]
        BY <2>4, <3>1, FilesTyped DEF Overturn
      <3>3. Promise!Overturn(j)
        BY <1>1, <2>2, <3>1, <3>2 DEF Promise!Overturn, Promise!Ends
      <3> QED BY <3>3 DEF Promise!Next
    <2>5. CASE Exit(j)
      BY <1>1, <2>2, <2>5 DEF Exit, Promise!vars
    <2> QED BY <2>1, <2>3, <2>4, <2>5 DEF ExecutorStep, Promise!Next
  <1> QED BY <1>2, <1>3, <1>4

\* The Controller's transactions: a row inserted is queued, a report is learnt once, an
\* instance takes its rows along, a delivery shows nobody anything.
LEMMA RowsPromised ==
  ASSUME IInv, RunInv, Inserted \/ Deleted \/ Recorded \/ Delivered, UNCHANGED <<starts, outcomes>>
  PROVE  Promise!Next \/ UNCHANGED Promise!vars
  <1> DEFINE P == [j \in Jobs |-> Phase(j)]
             Q == [j \in Jobs |-> Phase(j)']
  <1>1. \A j \in Jobs : rows[j].status \in RowStates \cup {"none", "purged"}
    BY FilesTyped DEF Row
  <1>2. CASE Inserted
    <2>1. PICK j \in Jobs, i \in Instances \cup {"none"} : InsertRow(j, i)
      BY <1>2 DEF Inserted
    <2>2. rows'[j].status = "queued" /\ rows[j].status = "none" /\ \A d \in Jobs : d # j => rows'[d] = rows[d]
      BY <2>1, FilesTyped, InsertForward
    <2>3. Phase(j) = "unknown" /\ Phase(j)' = "queued"
      BY <2>2 DEF Phase, IsActive, IsFinal, ActiveStates, FinalStates
    <2>6. \A d \in Jobs : d # j => Phase(d)' = Phase(d)
      BY <2>2 DEF Phase, IsActive, IsFinal
    <2>4. Q = [P EXCEPT ![j] = "queued"]
      BY <2>3, <2>6
    <2>5. Promise!Queue(j)
      BY <2>3, <2>4 DEF Promise!Queue
    <2> QED BY <2>5 DEF Promise!Next
  <1>3. CASE Deleted
    <2>1. PICK i \in Instances : DeleteInstance(i)
      BY <1>3 DEF Deleted
    <2> DEFINE gone == {j \in Provisions : rows[j].status \in RowStates /\ rows[j].instance = i}
    <2>2. \A j \in Jobs : rows[j].instance = i => j \in Provisions
      BY <2>1 DEF RunInv, Jobs
    <2>3. \A j \in Jobs : rows'[j].status = IF j \in gone THEN "purged" ELSE rows[j].status
      BY <2>1, <2>2, FilesTyped DEF DeleteInstance, Row
    <2>4. \A j \in gone : j \in Jobs /\ P[j] \in {"queued"} \cup Promise!Ends
      BY DEF Jobs, Phase, IsActive, IsFinal, RowStates, FinalStates, Promise!Ends
    <2>5. \A j \in Jobs : Phase(j)' = IF j \in gone THEN "forgotten" ELSE Phase(j)
      BY <2>3 DEF Phase, IsActive, IsFinal, ActiveStates, FinalStates
    <2> HIDE DEF gone
    <2>6. Promise!Forget(gone)
      BY <2>4, <2>5 DEF Promise!Forget
    <2>7. gone \in SUBSET Provisions
      BY DEF gone
    <2> QED BY <2>6, <2>7 DEF Promise!Next
  <1>4. CASE Recorded
    <2>1. PICK j \in Jobs, v \in ResultStates :
            /\ RecordReport(j, v) /\ rows[j].status \notin {"none", "purged"}
            /\ v \in FinalStates => v \in outcomes[j]
      BY <1>4 DEF Recorded
    <2>2. /\ \A d \in Jobs : d # j => rows'[d] = rows[d]
          /\ rows'[j].status = IF rows[j].status \in FinalStates THEN rows[j].status ELSE v
      BY <2>1, FilesTyped, RecordForward
    <2>3. \A d \in Jobs : d # j => Phase(d)' = Phase(d)
      BY <2>2 DEF Phase, IsActive, IsFinal
    <2>4. CASE rows[j].status \in FinalStates \/ v \notin FinalStates
      <3>1. Phase(j)' = Phase(j)
        BY <1>1, <2>1, <2>2, <2>4 DEF Phase, IsActive, IsFinal, RowStates, ResultStates, ActiveStates, FinalStates
      <3>2. Q = P
        BY <2>3, <3>1
      <3> QED BY <3>2 DEF Promise!vars
    <2>5. CASE rows[j].status \notin FinalStates /\ v \in FinalStates
      <3>1. Phase(j)' = v /\ P[j] = "queued"
        BY <1>1, <2>1, <2>2, <2>5 DEF Phase, IsActive, IsFinal, RowStates, ResultStates, ActiveStates, FinalStates
      <3>2. Q = [P EXCEPT ![j] = v]
        BY <2>3, <3>1
      <3>3. Promise!Learn(j)
        BY <2>1, <2>5, <3>1, <3>2 DEF Promise!Learn
      <3> QED BY <3>3 DEF Promise!Next
    <2> QED BY <2>4, <2>5
  <1>5. CASE Delivered
    <2>1. PICK j \in Jobs : MarkDelivered(j)
      BY <1>5 DEF Delivered
    <2>2. \A d \in Jobs : Phase(d)' = Phase(d)
      BY <2>1, FilesTyped, MarkForward DEF Phase, IsActive, IsFinal, ActiveStates, FinalStates
    <2>3. Q = P
      BY <2>2
    <2> QED BY <2>3 DEF Promise!vars
  <1> QED BY <1>2, <1>3, <1>4, <1>5

\* Every step of the exchange is one of the promise, or none.
LEMMA PromiseStep ==
  ASSUME IInv, RunInv, [Next]_vars
  PROVE  [Promise!Next]_(Promise!vars)
  <1>1. CASE (StagedOne \/ RefusedOne \/ WorkedOne) /\ UNCHANGED rows
    BY <1>1, WorkPromised
  <1>2. CASE NobodyWorked /\ UNCHANGED rows
    <2>1. {j \in Jobs : starts'[j] > 0} = {j \in Jobs : starts[j] > 0} /\ UNCHANGED outcomes
      BY <1>2 DEF NobodyWorked
    <2> QED BY <1>2, <2>1, PhaseKept DEF Promise!vars
  <1>3. CASE NobodyWorked /\ ~UNCHANGED rows
    <2>1. Inserted \/ Deleted \/ Recorded \/ Delivered
      BY <1>3, RowsMove
    <2> QED BY <1>3, <2>1, RowsPromised DEF NobodyWorked
  <1> QED BY <1>1, <1>2, <1>3, WorkMoves

\* The exchange implements JobPromise: a provisioning or a game data job is begun once, ends
\* where it runs, and its issuer learns that end and no other later, whatever is lost,
\* repeated, served late or restarted (agents/linux/runtime/provisioning_client.py:46,
\* dashboard/agent_instance_provisioning_repository.py:245).
THEOREM JobsKeepPromise == Spec => PromiseKept
  <1>1. IInv /\ RunInv /\ [Next]_vars => RunInv'
    BY RunKept
  <1>2. IInv /\ RunInv /\ [Next]_vars => [Promise!Next]_(Promise!vars)
    BY PromiseStep
  <1> QED BY <1>1, <1>2, RunInvInit, PromiseInit, Inductive, PTL DEF Spec, PromiseKept, Promise!Spec

=============================================================================
