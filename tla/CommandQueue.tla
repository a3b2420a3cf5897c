---------------------------- MODULE CommandQueue ----------------------------
(***************************************************************************)
(* The Controller's queue of instance runtime commands                     *)
(* (database/agent_instance_runtime_repository.py) with the rows it works  *)
(* on: instances, their service contracts and the commands of one Agent.   *)
(*                                                                         *)
(* Each operator below is one database transaction of the Controller.  The *)
(* operators take plain arguments; CommandExchange decides which thread    *)
(* runs which transaction and in which order.                              *)
(***************************************************************************)
EXTENDS Naturals

CONSTANTS
  Instances,   \* instance ids owned by the Agent
  Contracts,   \* service contract ids
  ContractOf,  \* the contract each instance belongs to
  CommandIds,  \* command ids; their order is the order of result file names
  Actions,     \* the runtime actions users may request
  MaxClock     \* bound on the whole seconds of created_at

NoCommand == 0

SerializedActions == {"save", "start", "stop", "restart"}
LifecycleActions  == {"start", "stop", "restart"}
AllActions        == SerializedActions \cup {"status", "remove"}
ActiveStates      == {"queued", "delivered"}
FinalStates       == {"completed", "failed"}
RowStates         == ActiveStates \cup FinalStates

ASSUME QueueAssumption ==
  /\ ContractOf \in [Instances -> Contracts]
  /\ CommandIds \subseteq Nat \ {NoCommand}
  /\ Actions \subseteq AllActions
  /\ MaxClock \in Nat

VARIABLES
  instances,        \* instances.status, or "absent" once the row is deleted
  contracts,        \* service_contracts.status, or "absent"
  commands,         \* agent_instance_commands, "none" before and "purged" after
  pendingRemovals   \* instances an admin process marked and has yet to queue

queueVars == <<instances, contracts, commands, pendingRemovals>>

InstanceStatus == {"offline", "online", "stopped", "failed", "deleting", "absent"}
ContractStatus == {"active", "deleting", "absent"}
Row == [status : RowStates \cup {"none", "purged"}, instance : Instances \cup {"none"},
        action : AllActions \cup {"none"}, created : 0 .. MaxClock]
NoRow == [status |-> "none", instance |-> "none", action |-> "none", created |-> 0]

QueueTypeOK ==
  /\ instances \in [Instances -> InstanceStatus]
  /\ contracts \in [Contracts -> ContractStatus]
  /\ commands \in [CommandIds -> Row]
  /\ pendingRemovals \in SUBSET Instances

QueueInit ==
  /\ instances = [i \in Instances |-> "offline"]
  /\ contracts = [k \in Contracts |-> "active"]
  /\ commands = [c \in CommandIds |-> NoRow]
  /\ pendingRemovals = {}

IsRow(c)    == commands[c].status \in RowStates
IsActive(c) == commands[c].status \in ActiveStates
IsFinal(c)  == commands[c].status \in FinalStates

\* Two active commands of one instance that enqueue refuses to hold at once.
Excludes(a, b) == {a, b} \subseteq SerializedActions \/ {a, b} = {"remove"}

-----------------------------------------------------------------------------
(* Users and administrators *)

\* Mutant: only commands still queued stand in the way.
InsertPastDelivered(i, a, c) ==
  /\ instances[i] # "absent"
  /\ commands[c] = NoRow
  /\ \A d \in CommandIds : commands[d].status = "queued" /\ commands[d].instance = i
       => ~Excludes(a, commands[d].action)
  /\ commands' = [commands EXCEPT ![c] =
                    [status |-> "queued", instance |-> i, action |-> a, created |-> 0]]

\* A duplicate request returns the active command and a conflicting one
\* raises InstanceLifecycleCommandConflict: neither changes a row.
\* created_at has whole seconds, so rows may tie; a later row is never older.
Insert(i, a, c) ==
  /\ instances[i] # "absent"
  /\ commands[c] = NoRow
  /\ \A d \in CommandIds : IsActive(d) /\ commands[d].instance = i => ~Excludes(a, commands[d].action)
  /\ \E now \in 0 .. MaxClock :
       /\ \A d \in CommandIds : commands[d].created <= now
       /\ commands' = [commands EXCEPT ![c] =
                         [status |-> "queued", instance |-> i, action |-> a, created |-> now]]

Enqueue(i, a, c) ==
  /\ Insert(i, a, c)
  /\ UNCHANGED <<instances, contracts, pendingRemovals>>

BeginInstanceDelete(i) ==
  /\ instances[i] # "absent"
  /\ instances' = [instances EXCEPT ![i] = "deleting"]
  /\ pendingRemovals' = pendingRemovals \cup {i}
  /\ UNCHANGED <<contracts, commands>>

\* begin_contract_delete retires an empty contract at once and otherwise marks
\* it and every instance linked to it.
BeginContractDelete(k) ==
  LET linked == {i \in Instances : ContractOf[i] = k /\ instances[i] # "absent"}
  IN  /\ contracts[k] # "absent"
      /\ contracts' = [contracts EXCEPT ![k] = IF linked = {} THEN "absent" ELSE "deleting"]
      /\ instances' = [i \in Instances |-> IF i \in linked THEN "deleting" ELSE instances[i]]
      /\ pendingRemovals' = pendingRemovals \cup linked
      /\ UNCHANGED <<commands>>

\* The second transaction of a deletion: queue the remove command, or find the
\* one that is active already, or find the instance gone.
QueueRemoval(i, c) ==
  /\ i \in pendingRemovals
  /\ pendingRemovals' = pendingRemovals \ {i}
  /\ \/ Insert(i, "remove", c)
     \/ /\ \/ instances[i] = "absent"
           \/ \E d \in CommandIds : IsActive(d) /\ commands[d].instance = i /\ commands[d].action = "remove"
        /\ UNCHANGED commands
  /\ UNCHANGED <<instances, contracts>>

-----------------------------------------------------------------------------
(* Transactions of a heartbeat handler *)

\* Mutant: whatever is reported counts as success.
RecordSuccess(c, status) ==
  commands' = [commands EXCEPT ![c].status = IF @ \in ActiveStates THEN "completed" ELSE @]

\* The guarded UPDATE of apply_result: a final row keeps its first result.
RecordResult(c, status) ==
  commands' = [commands EXCEPT ![c].status = IF @ \in ActiveStates THEN status ELSE @]

\* Mutant: the command's status is stored as the instance's.
EchoStatus(a, report) == report.status

\* The status apply_result projects for the result of a lifecycle command, or
\* "none"; observed is the state the adapter reported, "none" if it is no other.
ControllerStatus(a, report) ==
  CASE report.status = "failed" -> IF a = "stop" THEN "none" ELSE "failed"
    [] report.observed = "failed" -> "failed"
    [] report.observed = "running" -> "online"
    [] report.observed = "stopped" -> "stopped"
    [] OTHER -> IF a = "stop" THEN "stopped" ELSE "online"

\* reconcile_instance_status never overwrites a failed instance.
ReconcileStatus(i, s) ==
  instances' = [instances EXCEPT ![i] = IF s = "none" \/ @ \in {"failed", "absent"} THEN @ ELSE s]

\* delete_instance; the foreign key takes the instance's commands with it.
DeleteInstance(i) ==
  /\ instances' = [instances EXCEPT ![i] = "absent"]
  /\ commands' = [c \in CommandIds |-> IF IsRow(c) /\ commands[c].instance = i
                                       THEN [commands[c] EXCEPT !.status = "purged"]
                                       ELSE commands[c]]

\* Mutant: the remaining instances are not counted.
FinalizeDeletingContract(k) ==
  contracts' = [contracts EXCEPT ![k] = IF @ = "deleting" THEN "absent" ELSE @]

FinalizeContractIfEmpty(k) ==
  contracts' = [contracts EXCEPT ![k] =
                  IF @ = "deleting" /\ \A i \in Instances : ContractOf[i] = k => instances[i] = "absent"
                  THEN "absent" ELSE @]

\* Mutant: a delivered command is never delivered again.
OldestQueued(c) ==
  /\ commands[c].status = "queued"
  /\ \A d \in CommandIds : commands[d].status = "queued" => commands[c].created <= commands[d].created

\* ORDER BY created_at ASC LIMIT 1: any command of the oldest second.
Oldest(c) ==
  /\ IsActive(c)
  /\ \A d \in CommandIds : IsActive(d) => commands[c].created <= commands[d].created

\* Mutants: the row is not marked; a row completed meanwhile is marked too.
MarkNothing(c) == UNCHANGED commands
MarkRegardless(c) == commands' = [commands EXCEPT ![c].status = "delivered"]

MarkDelivered(c) ==
  commands' = [commands EXCEPT ![c].status = IF @ = "queued" THEN "delivered" ELSE @]

=============================================================================
