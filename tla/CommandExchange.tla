-------------------------- MODULE CommandExchange --------------------------
(***************************************************************************)
(* Instance commands end to end: users and administrators write to the     *)
(* Controller's queue, the Agent's heartbeat carries one result up and one *)
(* command down, and every request is served by a Controller thread of its *)
(* own (dashboard/agent_remote_http.py, _attach_instance_state).  A request *)
(* the Agent gave up on is still served.                                   *)
(***************************************************************************)
EXTENDS AgentCommands

CONSTANTS
  MaxCrashes,  \* bound on crashes of the Agent daemon
  MaxLosses    \* bound on lost requests, timeouts and dead admin processes

ASSUME FaultAssumption == MaxCrashes \in Nat /\ MaxLosses \in Nat

VARIABLES
  requests,  \* heartbeats in flight and the Controller threads serving them
  crashes,   \* crashes of the Agent so far
  losses     \* losses so far

faultVars == <<crashes, losses>>
vars == <<queueVars, agentVars, requests, faultVars>>

\* "sent" .. "picked" are the points between the transactions of the handler.
RequestPC == {"free", "sent", "recorded", "removed", "projected", "picked", "done"}

\* result: command whose result the body carries; ack: command whose final state
\* the response carries; cmd: command delivered.
Request == [pc : RequestPC, flush : BOOLEAN, result : CommandIds \cup {NoCommand},
            ack : CommandIds \cup {NoCommand}, cmd : CommandIds \cup {NoCommand}]
Free == [pc |-> "free", flush |-> FALSE, result |-> NoCommand, ack |-> NoCommand, cmd |-> NoCommand]

TypeOK ==
  /\ QueueTypeOK
  /\ AgentTypeOK
  /\ requests \in [RequestIds -> Request]
  /\ crashes \in 0 .. MaxCrashes
  /\ losses \in 0 .. MaxLosses

Init ==
  /\ QueueInit
  /\ AgentInit
  /\ requests = [q \in RequestIds |-> Free]
  /\ crashes = 0
  /\ losses = 0

-----------------------------------------------------------------------------
(* Users and administrators: the queue alone *)

UserStep ==
  /\ \E i \in Instances, a \in Actions, c \in CommandIds : Enqueue(i, a, c)
  /\ UNCHANGED <<agentVars, requests, faultVars>>

AdminStep ==
  /\ "remove" \in Actions
  /\ \/ \E i \in Instances : BeginInstanceDelete(i)
     \/ \E k \in Contracts : BeginContractDelete(k)
     \/ \E i \in Instances, c \in CommandIds : QueueRemoval(i, c)
  /\ UNCHANGED <<agentVars, requests, faultVars>>

-----------------------------------------------------------------------------
(* The Agent *)

Send(q, flush) ==
  /\ requests[q] = Free
  /\ \E r \in CommandIds \cup {NoCommand} :
       /\ FirstResult(r)
       /\ requests' = [requests EXCEPT ![q] = [Free EXCEPT !.pc = "sent", !.flush = flush, !.result = r]]
  /\ agent' = [Idle EXCEPT !.pc = "waiting", !.request = q]

SendHeartbeat(q) ==
  /\ agent.pc = "idle"
  /\ Send(q, FALSE)
  /\ UNCHANGED <<queueVars, registry, history, results, executions, faultVars>>

\* _flush_command_results posts only when a result is left on disk.
Flush ==
  /\ agent.pc = "flush"
  /\ IF results = {}
     THEN agent' = Idle /\ UNCHANGED requests
     ELSE \E q \in RequestIds : Send(q, TRUE)
  /\ UNCHANGED <<queueVars, registry, history, results, executions, faultVars>>

Receive(q) ==
  /\ agent.pc = "waiting" /\ agent.request = q /\ requests[q].pc = "done"
  /\ agent' = [Idle EXCEPT !.pc = IF requests[q].cmd = NoCommand THEN "clear" ELSE "handle",
                           !.cmd = requests[q].cmd, !.ack = requests[q].ack]
  /\ requests' = [requests EXCEPT ![q] = Free]
  /\ UNCHANGED <<queueVars, registry, history, results, executions, faultVars>>

HandleCommand ==
  /\ ReplayHistory \/ Execute \/ RecordHistory \/ WriteResult \/ ClearResult
  /\ UNCHANGED <<queueVars, requests, faultVars>>

-----------------------------------------------------------------------------
(* A Controller thread serving request q *)

UpdateRequest(q, r) == requests' = [requests EXCEPT ![q] = r]

\* The exception path: {"status": "unavailable"}, no acknowledgement, no command.
Unavailable(q) == UpdateRequest(q, [requests[q] EXCEPT !.pc = "done", !.ack = NoCommand, !.cmd = NoCommand])

\* apply_result up to its guarded UPDATE and the snapshot that follows it.
Record(q) ==
  LET c == requests[q].result
  IN  /\ requests[q].pc = "sent"
      /\ CASE c = NoCommand -> UpdateRequest(q, [requests[q] EXCEPT !.pc = "projected"]) /\ UNCHANGED commands
           [] c # NoCommand /\ ~IsRow(c) -> Unavailable(q) /\ UNCHANGED commands
           [] OTHER -> /\ RecordResult(c, history[c].status)
                       /\ UpdateRequest(q, [requests[q] EXCEPT !.pc = "recorded", !.ack = c])
      /\ UNCHANGED <<instances, contracts, pendingRemovals, agentVars, faultVars>>

\* Mutant: a removal deletes the instance whatever its result.
ProjectAnyRemoval(q) ==
  LET row == commands[requests[q].result]
  IN  /\ requests[q].pc = "recorded"
      /\ IF row.action = "remove" THEN DeleteInstance(row.instance) ELSE UNCHANGED <<instances, commands>>
      /\ UpdateRequest(q, [requests[q] EXCEPT !.pc = "projected"])
      /\ UNCHANGED <<contracts, pendingRemovals, agentVars, faultVars>>

\* The rest of apply_result, from the result as reported.
Project(q) ==
  LET c == requests[q].result
      row == commands[c]
      removed == row.action = "remove" /\ history[c].status = "completed"
  IN  /\ requests[q].pc = "recorded"
      /\ IF removed THEN DeleteInstance(row.instance)
         ELSE /\ IF row.action \in LifecycleActions
                 THEN ReconcileStatus(row.instance, ControllerStatus(row.action, history[c]))
                 ELSE UNCHANGED instances
              /\ UNCHANGED commands
      /\ UpdateRequest(q, [requests[q] EXCEPT !.pc = IF removed THEN "removed" ELSE "projected"])
      /\ UNCHANGED <<contracts, pendingRemovals, agentVars, faultVars>>

FinalizeContract(q) ==
  /\ requests[q].pc = "removed"
  /\ FinalizeContractIfEmpty(ContractOf[commands[requests[q].result].instance])
  /\ UpdateRequest(q, [requests[q] EXCEPT !.pc = "projected"])
  /\ UNCHANGED <<instances, commands, pendingRemovals, agentVars, faultVars>>

Pick(q) ==
  /\ requests[q].pc = "projected"
  /\ \/ /\ requests[q].flush \/ \A c \in CommandIds : ~IsActive(c)
        /\ UpdateRequest(q, [requests[q] EXCEPT !.pc = "done"])
     \/ /\ ~requests[q].flush
        /\ \E c \in CommandIds : Oldest(c) /\ UpdateRequest(q, [requests[q] EXCEPT !.pc = "picked", !.cmd = c])
  /\ UNCHANGED <<queueVars, agentVars, faultVars>>

\* Mutant: the response acknowledges the command it delivers.
DeliverAcknowledged(q) ==
  LET c == requests[q].cmd
  IN  /\ requests[q].pc = "picked"
      /\ IF IsRow(c)
         THEN MarkDelivered(c) /\ UpdateRequest(q, [requests[q] EXCEPT !.pc = "done", !.ack = c])
         ELSE Unavailable(q) /\ UNCHANGED commands
      /\ UNCHANGED <<instances, contracts, pendingRemovals, agentVars, faultVars>>

\* mark_delivered leaves a row another thread has completed since; its state is
\* then the response's instance_state unless a result was reported.
Deliver(q) ==
  LET c == requests[q].cmd
      ack == IF requests[q].result = NoCommand /\ IsFinal(c) THEN c ELSE requests[q].ack
  IN  /\ requests[q].pc = "picked"
      /\ IF IsRow(c)
         THEN MarkDelivered(c) /\ UpdateRequest(q, [requests[q] EXCEPT !.pc = "done", !.ack = ack])
         ELSE Unavailable(q) /\ UNCHANGED commands
      /\ UNCHANGED <<instances, contracts, pendingRemovals, agentVars, faultVars>>

Handler(q) == Record(q) \/ Project(q) \/ FinalizeContract(q) \/ Pick(q) \/ Deliver(q)

-----------------------------------------------------------------------------
(* Faults *)

AwaitedBy(q) == agent.pc = "waiting" /\ agent.request = q

\* The daemon dies and restarts: files stay, its pending request becomes an orphan.
Crash ==
  /\ crashes < MaxCrashes /\ agent # Idle
  /\ crashes' = crashes + 1
  /\ agent' = Idle
  /\ executions' = IF agent.pc = "record" THEN [executions EXCEPT ![agent.cmd] = @ - 1] ELSE executions
  /\ UNCHANGED <<queueVars, registry, history, results, requests, losses>>

\* urlopen times out and the Agent goes on; the request may still be served.
Timeout ==
  /\ losses < MaxLosses /\ agent.pc = "waiting"
  /\ losses' = losses + 1
  /\ agent' = Idle
  /\ UNCHANGED <<queueVars, registry, history, results, executions, requests, crashes>>

\* The request, its handler or its response is lost.
Lose(q) ==
  /\ losses < MaxLosses /\ requests[q].pc # "free"
  /\ losses' = losses + 1
  /\ UpdateRequest(q, Free)
  /\ agent' = IF AwaitedBy(q) THEN Idle ELSE agent
  /\ UNCHANGED <<queueVars, registry, history, results, executions, crashes>>

\* The response to an orphan reaches nobody.
DiscardOrphan(q) ==
  /\ requests[q].pc = "done" /\ ~AwaitedBy(q)
  /\ UpdateRequest(q, Free)
  /\ UNCHANGED <<queueVars, agentVars, faultVars>>

\* An administrator's process dies between marking and queueing a removal.
AdminCrash ==
  /\ losses < MaxLosses /\ pendingRemovals # {}
  /\ losses' = losses + 1
  /\ pendingRemovals' = {}
  /\ UNCHANGED <<instances, contracts, commands, agentVars, requests, crashes>>

AgentStep == (\E q \in RequestIds : SendHeartbeat(q) \/ Receive(q)) \/ Flush \/ HandleCommand
Faults == Crash \/ Timeout \/ AdminCrash \/ \E q \in RequestIds : Lose(q)

Next ==
  \/ UserStep \/ AdminStep
  \/ AgentStep
  \/ \E q \in RequestIds : Handler(q) \/ DiscardOrphan(q)
  \/ Faults

Spec == Init /\ [][Next]_vars

-----------------------------------------------------------------------------
(* Safety *)

\* A command that is completed or failed keeps its first result until its
\* instance is deleted with all its rows.
FinalIsForever ==
  [][\A c \in CommandIds : IsFinal(c) =>
       \/ commands'[c].status = commands[c].status
       \/ commands'[c].status = "purged" /\ instances'[commands[c].instance] = "absent"]_vars

\* What the Controller records of a command is what the Agent's history says,
\* whatever was lost, repeated or served out of order.
ReportedIsRecorded ==
  \A c \in CommandIds : IsFinal(c) => commands[c].status = history[c].status

\* However often a command is delivered it takes effect once; only a daemon that
\* dies between running a command and recording its result runs it again.
AtMostOnce == \A c \in CommandIds : executions[c] <= 1

\* One instance never has two active commands that exclude each other.
OneSerializedActive ==
  \A c, d \in CommandIds :
    c # d /\ IsActive(c) /\ IsActive(d) /\ commands[c].instance = commands[d].instance
      => ~Excludes(commands[c].action, commands[d].action)

\* The Controller forgets an instance only after its Agent removed the runtime.
PurgedOnlyAfterRemoval ==
  \A i \in Instances : instances[i] = "absent" => registry[i] = "absent"

\* A contract is deleted only when none of its instances is left.
ContractOutlivesInstances ==
  \A i \in Instances : contracts[ContractOf[i]] = "absent" => instances[i] = "absent"

\* The daemon starts a command only while the Controller still waits for it or
\* after the whole instance is gone: a command already answered never runs again.
ExecutesOnlyLive ==
  \A c \in CommandIds :
    agent.cmd = c /\ agent.pc = "handle" /\ ~Decided(c) =>
      \/ commands[c].status = "delivered"
      \/ commands[c].status = "purged" /\ registry[commands[c].instance] = "absent"

\* The daemon drops a result file only when the Controller has recorded that
\* result or has deleted the command with its instance.
NoResultLost ==
  [][\A c \in results : c \in results' \/ IsFinal(c) \/ commands[c].status = "purged"]_vars

-----------------------------------------------------------------------------
(* Why the safety properties hold: an inductive invariant *)

\* A command is named, in files, requests and memory, only once it was queued,
\* and its result is on its way only once the history holds it.
WellReferred ==
  /\ \A c \in CommandIds :
       commands[c].status # "none" => commands[c].instance \in Instances /\ commands[c].action \in AllActions
  /\ \A c \in CommandIds : Decided(c) => commands[c].status # "none"
  /\ \A c \in results : Decided(c)
  /\ \A q \in RequestIds :
       /\ requests[q].result # NoCommand => Decided(requests[q].result)
       /\ requests[q].cmd # NoCommand => commands[requests[q].cmd].status # "none"
       /\ requests[q].pc \in {"recorded", "removed"} => requests[q].result # NoCommand
       /\ requests[q].pc = "picked" => requests[q].cmd # NoCommand
  /\ agent.cmd # NoCommand => commands[agent.cmd].status # "none"
  /\ agent.pc \in {"handle", "record", "report"} => agent.cmd # NoCommand
  /\ agent.pc = "record" => ~Decided(agent.cmd) /\ agent.outcome \in Report
  /\ agent.pc = "report" => Decided(agent.cmd)

RunsCounted ==
  \A c \in CommandIds :
    executions[c] = IF Decided(c) \/ (agent.pc = "record" /\ agent.cmd = c) THEN 1 ELSE 0

\* A removal reported as completed has removed the record, and nothing that the
\* command channel does brings the record back.
RemovalsTookEffect ==
  /\ \A c \in CommandIds :
       commands[c].action = "remove" /\ history[c].status = "completed"
         => registry[commands[c].instance] = "absent"
  /\ agent.pc = "record" /\ commands[agent.cmd].action = "remove" /\ agent.outcome.status = "completed"
       => registry[commands[agent.cmd].instance] = "absent"

IInv ==
  /\ TypeOK
  /\ WellReferred
  /\ RunsCounted
  /\ RemovalsTookEffect
  /\ ReportedIsRecorded
  /\ PurgedOnlyAfterRemoval
  /\ ContractOutlivesInstances

-----------------------------------------------------------------------------
(* Liveness *)

Fairness ==
  /\ \A q \in RequestIds : /\ WF_vars(SendHeartbeat(q))
                           /\ WF_vars(Receive(q))
                           /\ WF_vars(Handler(q))
                           /\ WF_vars(DiscardOrphan(q))
  /\ WF_vars(Flush)
  /\ WF_vars(HandleCommand)

FairSpec == Spec /\ Fairness

\* Every command a user queued is finished or goes with its instance.
EveryCommandSettles ==
  \A c \in CommandIds : IsActive(c) ~> ~IsActive(c)

\* The only thing that keeps a command waiting forever is a result of a command
\* the Controller has deleted, left in front of the Agent's result directory.
Poisoned == \E d \in results : commands[d].status = "purged"
SettlesUnlessPoisoned ==
  \A c \in CommandIds : IsActive(c) ~> (~IsActive(c) \/ Poisoned)

\* A contract whose deletion was accepted goes once its last instance is gone.
ContractIsRetired ==
  \A k \in Contracts :
    (contracts[k] = "deleting" /\ \A i \in Instances : ContractOf[i] = k => instances[i] = "absent")
      ~> contracts[k] = "absent"

\* With nothing in flight the Controller shows what the last lifecycle command
\* of the instance led to.
Quiet ==
  /\ results = {} /\ agent = Idle
  /\ \A q \in RequestIds : requests[q] = Free
  /\ \A c \in CommandIds : ~IsActive(c)
LastCommandShows ==
  Quiet => \A c \in CommandIds :
    LET row == commands[c]
        shown == ControllerStatus(row.action, history[c])
        latest == \A d \in CommandIds \ {c} : IsFinal(d) /\ commands[d].instance = row.instance
                                                => commands[d].created < row.created
    IN  IsFinal(c) /\ row.action \in LifecycleActions /\ latest /\ shown # "none"
          => instances[row.instance] \in {shown, "failed", "deleting"}

-----------------------------------------------------------------------------
(* What the exchange promises of each command, whatever the Agent's and the *)
(* Controller's threads do. *)

Phase(c) ==
  CASE commands[c].status = "none" -> "unknown"
    [] IsActive(c) -> "issued"
    [] IsFinal(c) -> commands[c].status
    [] OTHER -> "forgotten"

Promise == INSTANCE CommandPromise WITH
  phase <- [c \in CommandIds |-> Phase(c)],
  verdict <- [c \in CommandIds |-> history[c].status]

PromiseKept == Promise!Spec

=============================================================================
