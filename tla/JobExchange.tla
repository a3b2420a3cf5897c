---------------------------- MODULE JobExchange ----------------------------
(***************************************************************************)
(* Provisioning and game data jobs end to end.  The Agent's heartbeat      *)
(* carries the newest result file of each channel up; a Controller thread  *)
(* serves the request in several transactions (_attach_provisioning_state  *)
(* and _attach_game_data_state of dashboard/agent_remote_http.py); the     *)
(* answer starts executors and clears results (agents/linux/runtime:       *)
(* agent.py, provisioning_client.py, game_data_client.py and the two       *)
(* executors).  An executor is a process of the Agent's own cgroup.        *)
(***************************************************************************)
EXTENDS JobQueue

CONSTANTS
  RequestIds,  \* heartbeats that may be in flight at once
  MaxCrashes,  \* bound on crashes of the Agent
  MaxLosses    \* bound on lost requests, timeouts and failed process starts

ASSUME JobFaultAssumption == MaxCrashes \in Nat /\ MaxLosses \in Nat

VARIABLES
  results,    \* the status in the result file of a job, "none" without a file
  newer,      \* for each result file, the jobs whose file was written after it
  executors,  \* the executor process of a job
  starts,     \* how often an executor was started for a job
  outcomes,   \* final statuses an executor ever wrote for a job
  agent,      \* the daemon's heartbeat loop
  requests,   \* heartbeats in flight and the threads serving them
  crashes,    \* crashes so far
  losses      \* losses so far

fileVars  == <<results, newer, executors, starts, outcomes>>
faultVars == <<crashes, losses>>
vars == <<queueVars, fileVars, agent, requests, faultVars>>

MaybeJob == Jobs \cup {NoJob}
ResultStates == {"running"} \cup FinalStates
Report == [job : MaybeJob, status : RowStates \cup {"none"}]
NoReport == [job |-> NoJob, status |-> "none"]

\* "completed" is on disk while a provisioning executor may still fail.
ExecutorStates == {"none", "working", "announced"}

\* report: what the body carries; state: the job and status the answer carries;
\* cmd: the job it delivers.
RequestPC == {"free", "record", "pick", "deliver", "project", "done"}
Request == [pc : RequestPC, channel : Channels, report : [Channels -> Report],
            state : [Channels -> Report], cmd : [Channels -> MaybeJob]]
Free == [pc |-> "free", channel |-> "provision", report |-> [k \in Channels |-> NoReport],
         state |-> [k \in Channels |-> NoReport], cmd |-> [k \in Channels |-> NoJob]]

AgentPC == {"idle", "waiting", "stage", "clear"}
Agent == [pc : AgentPC, channel : Channels, request : RequestIds \cup {"none"},
          state : [Channels -> Report], cmd : [Channels -> MaybeJob]]
Idle == [pc |-> "idle", channel |-> "provision", request |-> "none",
         state |-> [k \in Channels |-> NoReport], cmd |-> [k \in Channels |-> NoJob]]

TypeOK ==
  /\ QueueTypeOK
  /\ results \in [Jobs -> ResultStates \cup {"none"}]
  /\ newer \in [Jobs -> SUBSET Jobs]
  /\ executors \in [Jobs -> ExecutorStates]
  /\ starts \in [Jobs -> Nat]
  /\ outcomes \in [Jobs -> SUBSET FinalStates]
  /\ agent \in Agent
  /\ requests \in [RequestIds -> Request]
  /\ crashes \in 0 .. MaxCrashes
  /\ losses \in 0 .. MaxLosses

Init ==
  /\ QueueInit
  /\ results = [j \in Jobs |-> "none"]
  /\ newer = [j \in Jobs |-> {}]
  /\ executors = [j \in Jobs |-> "none"]
  /\ starts = [j \in Jobs |-> 0]
  /\ outcomes = [j \in Jobs |-> {}]
  /\ agent = Idle
  /\ requests = [q \in RequestIds |-> Free]
  /\ crashes = 0
  /\ losses = 0

-----------------------------------------------------------------------------
(* Users and administrators *)

UserStep ==
  /\ \/ \E i \in Instances, j \in Provisions : EnqueueProvision(i, j)
     \/ \E j \in GameJobs : EnqueueGame(j)
     \/ \E i \in Instances : DeleteInstance(i)
  /\ UNCHANGED <<fileVars, agent, requests, faultVars>>

-----------------------------------------------------------------------------
(* Result files *)

Write(j, status) ==
  /\ results' = [results EXCEPT ![j] = status]
  /\ newer' = [d \in Jobs |-> IF d = j \/ results[d] = "none" THEN {} ELSE newer[d] \cup {j}]

Remove(j) ==
  /\ results' = [results EXCEPT ![j] = "none"]
  /\ newer' = [d \in Jobs |-> IF d = j THEN {} ELSE newer[d] \ {j}]

\* The report of a channel is its newest file by modification time.
Newest(k) ==
  LET files == {j \in Jobs : Channel(j) = k /\ results[j] # "none"}
  IN  IF files = {} THEN {NoReport}
      ELSE {[job |-> j, status |-> results[j]] : j \in {f \in files : newer[f] \cap files = {}}}

-----------------------------------------------------------------------------
(* The Agent's heartbeat loop *)

SendHeartbeat(q) ==
  /\ agent.pc = "idle" /\ requests[q] = Free
  /\ agent' = [Idle EXCEPT !.pc = "waiting", !.request = q]
  /\ \E p \in Newest("provision"), g \in Newest("game") :
       requests' = [requests EXCEPT ![q] =
                      [Free EXCEPT !.pc = "record", !.report = [k \in Channels |-> IF k = "game" THEN g ELSE p]]]
  /\ UNCHANGED <<queueVars, fileVars, faultVars>>

Receive(q) ==
  /\ agent.pc = "waiting" /\ agent.request = q /\ requests[q].pc = "done"
  /\ agent' = [Idle EXCEPT !.pc = "stage", !.state = requests[q].state, !.cmd = requests[q].cmd]
  /\ requests' = [requests EXCEPT ![q] = Free]
  /\ UNCHANGED <<queueVars, fileVars, faultVars>>

\* Mutant: a result still at running does not count as staged.
StageUnlessFinal ==
  LET j == agent.cmd[agent.channel]
  IN  /\ agent.pc = "stage" /\ j # NoJob
      /\ results[j] \notin FinalStates
      /\ Write(j, "running")
      /\ executors' = [executors EXCEPT ![j] = "working"]
      /\ starts' = [starts EXCEPT ![j] = @ + 1]
      /\ agent' = [agent EXCEPT !.pc = "clear"]
      /\ UNCHANGED <<queueVars, outcomes, requests, faultVars>>

\* The marker is written before the executor starts.
Stage ==
  LET j == agent.cmd[agent.channel]
  IN  /\ agent.pc = "stage" /\ j # NoJob
      /\ results[j] = "none"
      /\ Write(j, "running")
      /\ executors' = [executors EXCEPT ![j] = "working"]
      /\ starts' = [starts EXCEPT ![j] = @ + 1]
      /\ agent' = [agent EXCEPT !.pc = "clear"]
      /\ UNCHANGED <<queueVars, outcomes, requests, faultVars>>

\* No command in this channel, or one whose result file exists.
StageNothing ==
  /\ agent.pc = "stage"
  /\ agent.cmd[agent.channel] # NoJob => results[agent.cmd[agent.channel]] # "none"
  /\ agent' = [agent EXCEPT !.pc = "clear"]
  /\ UNCHANGED <<queueVars, fileVars, requests, faultVars>>

\* Popen raises: the result says failed and the rest of the answer is dropped.
StageFails ==
  LET j == agent.cmd[agent.channel]
  IN  /\ agent.pc = "stage" /\ j # NoJob
      /\ results[j] = "none" /\ losses < MaxLosses
      /\ losses' = losses + 1
      /\ Write(j, "failed")
      /\ outcomes' = [outcomes EXCEPT ![j] = @ \cup {"failed"}]
      /\ agent' = Idle
      /\ UNCHANGED <<queueVars, executors, starts, requests, crashes>>

NextChannel(a) == IF a.channel = "provision" THEN [a EXCEPT !.pc = "stage", !.channel = "game"] ELSE Idle

\* Mutant: the answer to any report clears the file.
ClearOnAnyState ==
  LET done == agent.state[agent.channel]
  IN  /\ agent.pc = "clear"
      /\ IF done.job # NoJob
         THEN Remove(done.job)
         ELSE UNCHANGED <<results, newer>>
      /\ agent' = NextChannel(agent)
      /\ UNCHANGED <<queueVars, executors, starts, outcomes, requests, faultVars>>

\* A final state in the answer archives the job's log and removes its files.
Clear ==
  LET done == agent.state[agent.channel]
  IN  /\ agent.pc = "clear"
      /\ IF done.status \in FinalStates
         THEN Remove(done.job)
         ELSE UNCHANGED <<results, newer>>
      /\ agent' = NextChannel(agent)
      /\ UNCHANGED <<queueVars, executors, starts, outcomes, requests, faultVars>>

AgentStep == (\E q \in RequestIds : SendHeartbeat(q) \/ Receive(q)) \/ Stage \/ StageNothing \/ Clear

-----------------------------------------------------------------------------
(* Executors *)

Finish(j, status) ==
  /\ executors[j] = "working"
  /\ Write(j, status)
  /\ outcomes' = [outcomes EXCEPT ![j] = @ \cup {status}]
  /\ executors' = [executors EXCEPT ![j] =
                     IF j \in Provisions /\ status = "completed" THEN "announced" ELSE "none"]

\* After the completed result a provisioning still counts a metric and appends
\* an event; when that fails it compensates and writes failed instead.
Overturn(j) ==
  /\ executors[j] = "announced"
  /\ losses < MaxLosses
  /\ losses' = losses + 1
  /\ Write(j, "failed")
  /\ outcomes' = [outcomes EXCEPT ![j] = @ \cup {"failed"}]
  /\ executors' = [executors EXCEPT ![j] = "none"]

Exit(j) ==
  /\ executors[j] = "announced"
  /\ executors' = [executors EXCEPT ![j] = "none"]
  /\ UNCHANGED <<results, newer, outcomes>>

ExecutorStep(j) ==
  /\ \/ (Exit(j) \/ \E status \in FinalStates : Finish(j, status)) /\ UNCHANGED losses
     \/ Overturn(j)
  /\ UNCHANGED <<queueVars, starts, agent, requests, crashes>>

-----------------------------------------------------------------------------
(* A Controller thread serving request q *)

Update(q, r) == requests' = [requests EXCEPT ![q] = r]

\* The next step of the answer once channel k is through: game data is deferred
\* while the provisioning state is an active one.
Advance(r) ==
  IF r.channel = "provision" /\ r.state["provision"].status \notin ActiveStates
  THEN [r EXCEPT !.pc = "record", !.channel = "game"]
  ELSE [r EXCEPT !.pc = "done"]

\* The exception path: no state, no command, nothing acknowledged.
Unavailable(r) == Advance([r EXCEPT !.state[r.channel] = NoReport, !.cmd[r.channel] = NoJob])

\* apply_result and the snapshot it returns.
Record(q) ==
  LET r == requests[q]
      told == r.report[r.channel]
  IN  /\ r.pc = "record"
      /\ CASE told.job = NoJob -> UNCHANGED rows /\ Update(q, [r EXCEPT !.pc = "pick"])
           [] told.job # NoJob /\ rows[told.job].status = "purged" -> UNCHANGED rows /\ Update(q, Unavailable(r))
           [] OTHER -> /\ RecordReport(told.job, told.status)
                       /\ Update(q, [r EXCEPT !.pc = "pick",
                                     !.state[r.channel] = [job |-> told.job, status |-> rows'[told.job].status]])
      /\ UNCHANGED <<public, fileVars, agent, faultVars>>

Pick(q) ==
  LET r == requests[q]
      answered == IF r.channel = "provision" THEN [r EXCEPT !.pc = "project"] ELSE Advance(r)
  IN  /\ r.pc = "pick"
      /\ \/ /\ \A j \in Jobs : Channel(j) = r.channel => ~IsActive(j)
            /\ Update(q, answered)
         \/ \E j \in Jobs : Oldest(r.channel, j) /\ Update(q, [r EXCEPT !.pc = "deliver", !.cmd[r.channel] = j])
      /\ UNCHANGED <<queueVars, fileVars, agent, faultVars>>

\* A reported state goes before the state of the command delivered.
Deliver(q) ==
  LET r == requests[q]
      j == r.cmd[r.channel]
      told == IF r.state[r.channel] # NoReport THEN r
              ELSE [r EXCEPT !.state[r.channel] = [job |-> j, status |-> rows'[j].status]]
  IN  /\ r.pc = "deliver"
      /\ IF rows[j].status = "purged" THEN UNCHANGED rows /\ Update(q, Unavailable(r))
         ELSE /\ MarkDelivered(j)
              /\ Update(q, IF r.channel = "provision" THEN [told EXCEPT !.pc = "project"] ELSE Advance(told))
      /\ UNCHANGED <<public, fileVars, agent, faultVars>>

\* project_agent_provisioning, a transaction of its own after the others.
Project(q) ==
  LET r == requests[q]
      shown == r.state["provision"]
  IN  /\ r.pc = "project"
      /\ IF shown.job = NoJob THEN UNCHANGED public ELSE ProjectState(rows[shown.job].instance, shown.status)
      /\ Update(q, Advance(r))
      /\ UNCHANGED <<rows, fileVars, agent, faultVars>>

Handler(q) == Record(q) \/ Pick(q) \/ Deliver(q) \/ Project(q)

-----------------------------------------------------------------------------
(* Faults *)

AwaitedBy(q) == agent.pc = "waiting" /\ agent.request = q

\* The service stops or dies and systemd ends every process of its cgroup.
Crash ==
  /\ crashes < MaxCrashes
  /\ agent # Idle \/ \E j \in Jobs : executors[j] # "none"
  /\ crashes' = crashes + 1
  /\ agent' = Idle
  /\ executors' = [j \in Jobs |-> "none"]
  /\ UNCHANGED <<queueVars, results, newer, starts, outcomes, requests, losses>>

\* urlopen gives up; the request is still served.
Timeout ==
  /\ losses < MaxLosses /\ agent.pc = "waiting"
  /\ losses' = losses + 1
  /\ agent' = Idle
  /\ UNCHANGED <<queueVars, fileVars, requests, crashes>>

\* The request, its thread or its answer is lost.
Lose(q) ==
  /\ losses < MaxLosses /\ requests[q].pc # "free"
  /\ losses' = losses + 1
  /\ Update(q, Free)
  /\ agent' = IF AwaitedBy(q) THEN Idle ELSE agent
  /\ UNCHANGED <<queueVars, fileVars, crashes>>

DiscardOrphan(q) ==
  /\ requests[q].pc = "done" /\ ~AwaitedBy(q)
  /\ Update(q, Free)
  /\ UNCHANGED <<queueVars, fileVars, agent, faultVars>>

Faults == Crash \/ Timeout \/ StageFails \/ \E q \in RequestIds : Lose(q)

Next ==
  \/ UserStep
  \/ AgentStep
  \/ \E j \in Jobs : ExecutorStep(j)
  \/ \E q \in RequestIds : Handler(q) \/ DiscardOrphan(q)
  \/ Faults

Spec == Init /\ [][Next]_vars

-----------------------------------------------------------------------------
(* Safety *)

\* A job that runs for hours is never started twice, however often it is
\* delivered, whatever was lost and whenever the Agent restarts.
AtMostOnce == \A j \in Jobs : starts[j] <= 1

\* The Agent removes the files of a job only when the Controller has recorded a
\* final result of it, or has deleted the instance it was for.
NoResultLost ==
  [][\A j \in Jobs : results[j] # "none" /\ results'[j] = "none" => IsFinal(j) \/ rows[j].status = "purged"]_vars

\* A final row keeps its first result, progress reports that arrive late included.
FinalIsForever ==
  [][\A j \in Jobs : IsFinal(j) => rows'[j].status \in {rows[j].status, "purged"}]_vars

\* What the Controller holds as the end of a job, the Agent wrote for that job.
ReportedIsRecorded == \A j \in Jobs : IsFinal(j) => rows[j].status \in outcomes[j]

\* One instance never has two provisionings under way.
OneActivePerInstance ==
  \A a, b \in Provisions :
    a # b /\ IsActive(a) /\ IsActive(b) => rows[a].instance # rows[b].instance

\* An executor starts only for a job the Controller still waits for or one whose
\* instance was deleted meanwhile, never for a job already answered.
StartsOnlyLive ==
  [][\A j \in Jobs : starts'[j] > starts[j] => IsActive(j) \/ rows[j].status = "purged"]_vars

\* The documented exclusion: one answer does not carry a provisioning and an
\* independent game data job.
NeverTogether ==
  \A q \in RequestIds : requests[q].cmd["provision"] = NoJob \/ requests[q].cmd["game"] = NoJob

\* With nothing in flight customers see how the last provisioning ended.
Quiet ==
  /\ agent = Idle /\ \A q \in RequestIds : requests[q] = Free
  /\ \A j \in Jobs : results[j] = "none" /\ executors[j] = "none" /\ ~IsActive(j)
LastProvisioningShows ==
  Quiet => \A j \in Provisions :
    LET latest == \A d \in Provisions \ {j} : IsFinal(d) /\ rows[d].instance = rows[j].instance
                                                => rows[d].created < rows[j].created
    IN  IsFinal(j) /\ latest => public[rows[j].instance] = PublicState(rows[j].status)

-----------------------------------------------------------------------------
(* Why the safety properties hold: an inductive invariant *)

Refers(j, k) == j # NoJob => Channel(j) = k /\ rows[j].status # "none"

\* A final state in an answer is the Controller's, or its row is gone since.
Truthful(s, k) ==
  /\ s.job # NoJob => s.status # "none"
  /\ s.status \in FinalStates => Refers(s.job, k) /\ s.job # NoJob /\ (IsFinal(s.job) \/ rows[s.job].status = "purged")

\* Files, requests and memory name jobs that were queued, and report what was written.
WellReferred ==
  /\ \A j \in Jobs :
       /\ results[j] # "none" \/ outcomes[j] # {} \/ executors[j] # "none" => rows[j].status # "none"
       /\ results[j] \in FinalStates => results[j] \in outcomes[j]
  /\ \A q \in RequestIds, k \in Channels :
       LET told == requests[q].report[k]
       IN  /\ Refers(told.job, k)
           /\ told.job # NoJob => told.status \in ResultStates
           /\ told.job # NoJob /\ told.status \in FinalStates => told.status \in outcomes[told.job]
           /\ Truthful(requests[q].state[k], k)
           /\ Refers(requests[q].cmd[k], k)
  /\ \A q \in RequestIds : requests[q].pc = "deliver" => requests[q].cmd[requests[q].channel] # NoJob
  /\ \A k \in Channels : Truthful(agent.state[k], k) /\ Refers(agent.cmd[k], k)

\* A job that ever ran has its file on the Agent until the Controller is done with it.
Ran(j) == starts[j] > 0 \/ outcomes[j] # {}
FilesCoverRuns ==
  \A j \in Jobs : Ran(j) => results[j] # "none" \/ IsFinal(j) \/ rows[j].status = "purged"

\* The job the Agent is about to stage, from the Controller's choice to the file.
Ahead(k) == \/ agent.pc = "stage" /\ agent.channel = k
            \/ agent.pc \in {"stage", "clear"} /\ agent.channel = "provision" /\ k = "game"
Pending(j) == \/ \E q \in RequestIds : AwaitedBy(q) /\ requests[q].cmd[Channel(j)] = j
              \/ Ahead(Channel(j)) /\ agent.cmd[Channel(j)] = j
PendingIsFresh == \A j \in Jobs : Pending(j) => results[j] # "none" \/ (~Ran(j) /\ ~IsFinal(j))

IInv ==
  /\ TypeOK
  /\ WellReferred
  /\ FilesCoverRuns
  /\ PendingIsFresh
  /\ AtMostOnce
  /\ ReportedIsRecorded
  /\ OneActivePerInstance

-----------------------------------------------------------------------------
(* Liveness *)

Fairness ==
  /\ \A q \in RequestIds : /\ WF_vars(SendHeartbeat(q))
                           /\ WF_vars(Receive(q))
                           /\ WF_vars(Handler(q))
                           /\ WF_vars(DiscardOrphan(q))
  /\ WF_vars(Stage \/ StageNothing)
  /\ WF_vars(Clear)
  /\ \A j \in Jobs : WF_vars(ExecutorStep(j))

FairSpec == Spec /\ Fairness

\* Every job that is queued ends or goes with its instance.
EveryJobSettles == \A j \in Jobs : IsActive(j) ~> ~IsActive(j)

\* A job left at running by an executor that died, or a result of a job that was
\* deleted with its instance: neither ever changes again.
Abandoned == \E j \in Provisions : \/ results[j] = "running" /\ executors[j] = "none"
                                   \/ results[j] # "none" /\ rows[j].status = "purged"
AbandonedGame == \E j \in GameJobs : results[j] = "running" /\ executors[j] = "none"

\* Nothing else keeps a job waiting for ever; a game data job also waits behind
\* every provisioning that does.
SettlesUnlessAbandoned ==
  \A j \in Jobs : IsActive(j) ~> (~IsActive(j) \/ Abandoned \/ (j \in GameJobs /\ AbandonedGame))

-----------------------------------------------------------------------------
(* The exchange implements JobPromise: the issuer knows what the row says,  *)
(* and a job has begun and ended when an executor was started and wrote so. *)

Phase(j) ==
  CASE rows[j].status = "none" -> "unknown"
    [] IsActive(j) -> "queued"
    [] IsFinal(j) -> rows[j].status
    [] OTHER -> "forgotten"

Promise == INSTANCE JobPromise WITH
  phase <- [j \in Jobs |-> Phase(j)],
  begun <- {j \in Jobs : starts[j] > 0},
  ends  <- outcomes

\* A job is begun once or not at all and ends where it runs; the Controller learns an end
\* that was written and keeps it, whatever is lost, repeated, served late or restarted
\* (agents/linux/runtime/provisioning_client.py:46, dashboard/agent_instance_provisioning_repository.py:245).
PromiseKept == Promise!Spec

=============================================================================
