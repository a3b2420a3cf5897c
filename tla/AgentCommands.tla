--------------------------- MODULE AgentCommands ---------------------------
(***************************************************************************)
(* The Agent's handling of instance commands                               *)
(* (agents/linux/runtime/instance_runtime.py and the part of agent.py that *)
(* drives it).  registry, history and results are files and survive a      *)
(* crash; agent is the memory of the daemon's single heartbeat thread.     *)
(***************************************************************************)
EXTENDS CommandQueue, FiniteSets

CONSTANTS
  RequestIds,   \* heartbeat requests that may be in flight at once
  Observations  \* unit states an adapter may observe after a lifecycle action

NoRequest == "none"

ASSUME AgentAssumption ==
  /\ NoRequest \notin RequestIds
  /\ Observations \subseteq {"none", "running", "stopped", "failed"}

VARIABLES
  registry,    \* desired_state of the local instance record, or "absent"
  history,     \* instance-command-history: the result recorded for a command
  results,     \* instance-results: commands whose result awaits an acknowledgement
  agent,       \* the heartbeat thread
  executions   \* runs of each command, less those a crash left unrecorded (observation only)

agentVars == <<registry, history, results, agent, executions>>

Report == [status : FinalStates, observed : Observations \cup {"none"}]
NoReport == [status |-> "none", observed |-> "none"]

\* Mutant: only the pending result tells that a command was run.
DecidedByResult(c) == c \in results

\* A result file always holds what the history file of the same command holds,
\* so its content is history[c].
Decided(c) == history[c] # NoReport

AgentPC == {"idle", "waiting", "handle", "record", "report", "clear", "flush"}

\* request: the response the thread waits for; cmd: the command it carried; ack:
\* the command its state acknowledges; outcome: a result not yet on disk.
Idle == [pc |-> "idle", request |-> NoRequest, cmd |-> NoCommand, ack |-> NoCommand,
         outcome |-> NoReport]

AgentTypeOK ==
  /\ registry \in [Instances -> {"absent", "running", "stopped"}]
  /\ history \in [CommandIds -> Report \cup {NoReport}]
  /\ results \in SUBSET CommandIds
  /\ agent \in [pc : AgentPC, request : RequestIds \cup {NoRequest},
                cmd : CommandIds \cup {NoCommand}, ack : CommandIds \cup {NoCommand},
                outcome : Report \cup {NoReport}]
  /\ executions \in [CommandIds -> Nat]

AgentInit ==
  /\ registry \in [Instances -> {"running", "stopped"}]
  /\ history = [c \in CommandIds |-> NoReport]
  /\ results = {}
  /\ agent = Idle
  /\ executions = [c \in CommandIds |-> 0]

\* read_result: the first result file in name order.
FirstResult(c) ==
  IF results = {} THEN c = NoCommand ELSE c \in results /\ \A d \in results : c <= d

\* The record an action leaves when it gets as far as changing it.
RecordAfter(a, before) ==
  CASE a \in {"start", "restart"} -> "running"
    [] a = "stop" -> "stopped"
    [] a = "remove" -> "absent"
    [] OTHER -> before

\* What running action a may report and leave behind.  A failure may follow the
\* change: stop closes the firewall after it registers the new record, and remove
\* emits its event after it unlinks the record.
Effects(a, before) ==
  LET failure == [status |-> "failed", observed |-> "none"]
      success == {[status |-> "completed", observed |-> o] :
                    o \in IF a \in LifecycleActions THEN Observations ELSE {"none"}}
  IN  IF before = "absent"
      THEN [report : IF a = "remove" THEN success ELSE {failure}, record : {"absent"}]
      ELSE [report : success, record : {RecordAfter(a, before)}]
             \cup [report : {failure},
                   record : {before} \cup IF a \in {"stop", "remove"} THEN {RecordAfter(a, before)} ELSE {}]

\* handle_command finds the command in the history and only reports it again.
ReplayHistory ==
  /\ agent.pc = "handle" /\ Decided(agent.cmd)
  /\ results' = results \cup {agent.cmd}
  /\ agent' = [agent EXCEPT !.pc = "clear"]
  /\ UNCHANGED <<registry, history, executions>>

\* handle_command runs the action under the instance's operation lock.
Execute ==
  /\ agent.pc = "handle" /\ ~Decided(agent.cmd)
  /\ LET row == commands[agent.cmd]
     IN  \E e \in Effects(row.action, registry[row.instance]) :
           /\ registry' = [registry EXCEPT ![row.instance] = e.record]
           /\ agent' = [agent EXCEPT !.pc = "record", !.outcome = e.report]
  /\ executions' = [executions EXCEPT ![agent.cmd] = @ + 1]
  /\ UNCHANGED <<history, results>>

RecordHistory ==
  /\ agent.pc = "record"
  /\ history' = [history EXCEPT ![agent.cmd] = agent.outcome]
  /\ agent' = [agent EXCEPT !.pc = "report", !.outcome = NoReport]
  /\ UNCHANGED <<registry, results, executions>>

WriteResult ==
  /\ agent.pc = "report"
  /\ results' = results \cup {agent.cmd}
  /\ agent' = [agent EXCEPT !.pc = "clear"]
  /\ UNCHANGED <<registry, history, executions>>

\* Drop the acknowledged result; after a command, flush what is left.
ClearResult ==
  /\ agent.pc = "clear"
  /\ results' = results \ {agent.ack}
  /\ agent' = IF agent.cmd = NoCommand THEN Idle ELSE [Idle EXCEPT !.pc = "flush"]
  /\ UNCHANGED <<registry, history, executions>>

=============================================================================
