------------------------------ MODULE JobQueue ------------------------------
(***************************************************************************)
(* The Controller's queues of long jobs of one Agent: instance             *)
(* provisioning (agent_instance_provisioning_repository.py, the base class *)
(* in database/ and the live subclass in dashboard/) and shared game data  *)
(* (database/agent_game_data_repository.py), with the public status of the *)
(* instances (dashboard/instance_provisioning_projection.py).              *)
(*                                                                         *)
(* Each operator is one transaction; JobExchange decides which thread runs *)
(* which, and when.                                                        *)
(***************************************************************************)
EXTENDS Naturals

CONSTANTS
  Instances,   \* instances owned by the Agent
  Provisions,  \* provisioning ids
  GameJobs,    \* game data job ids
  NoJob,       \* no job at all
  MaxClock     \* bound on the whole seconds of created_at

Jobs     == Provisions \cup GameJobs
Channels == {"provision", "game"}
Channel(j) == IF j \in Provisions THEN "provision" ELSE "game"

ActiveStates == {"queued", "delivered", "running"}
FinalStates  == {"completed", "failed"}
RowStates    == ActiveStates \cup FinalStates

ASSUME JobQueueAssumption ==
  /\ NoJob \notin Jobs
  /\ Provisions \cap GameJobs = {}
  /\ "none" \notin Instances
  /\ MaxClock \in Nat

VARIABLES
  public,  \* instances.status as customers see it, "absent" once deleted
  rows     \* the rows of both queues, "none" before and "purged" after

queueVars == <<public, rows>>

PublicStatus == {"new", "queued", "provisioning", "installed", "failed", "absent"}
Row == [status : RowStates \cup {"none", "purged"}, instance : Instances \cup {"none"}, created : 0 .. MaxClock]
NoRow == [status |-> "none", instance |-> "none", created |-> 0]

QueueTypeOK ==
  /\ public \in [Instances -> PublicStatus]
  /\ rows \in [Jobs -> Row]

QueueInit ==
  /\ public = [i \in Instances |-> "new"]
  /\ rows = [j \in Jobs |-> NoRow]

IsActive(j) == rows[j].status \in ActiveStates
IsFinal(j)  == rows[j].status \in FinalStates

\* utc_timestamp has whole seconds, so rows may tie; a later row is never older.
InsertRow(j, i) ==
  /\ rows[j] = NoRow
  /\ \E now \in 0 .. MaxClock :
       /\ \A d \in Jobs : rows[d].created <= now
       /\ rows' = [rows EXCEPT ![j] = [status |-> "queued", instance |-> i, created |-> now]]

\* Mutant: a delivered provisioning does not stand in the way of another one.
EnqueuePastDelivered(i, j) ==
  /\ public[i] # "absent"
  /\ \A d \in Provisions : rows[d].instance = i => rows[d].status # "queued"
  /\ InsertRow(j, i)
  /\ UNCHANGED public

\* The Agent's row is locked first, so two requests for one instance follow one
\* another; the second is answered with the active row of the first.
EnqueueProvision(i, j) ==
  /\ public[i] # "absent"
  /\ \A d \in Provisions : rows[d].instance = i => ~IsActive(d)
  /\ InsertRow(j, i)
  /\ UNCHANGED public

EnqueueGame(j) ==
  /\ InsertRow(j, "none")
  /\ UNCHANGED public

\* delete_instance, once the Agent reported the runtime removed: the foreign key
\* takes the instance's provisioning rows along.
DeleteInstance(i) ==
  /\ public[i] # "absent"
  /\ public' = [public EXCEPT ![i] = "absent"]
  /\ rows' = [j \in Jobs |-> IF rows[j].status \in RowStates /\ rows[j].instance = i
                             THEN [rows[j] EXCEPT !.status = "purged"] ELSE rows[j]]

\* Mutants: a late report moves a final row; whatever ends counts as success.
RecordAnyReport(j, status) == rows' = [rows EXCEPT ![j].status = status]
RecordSuccess(j, status) ==
  rows' = [rows EXCEPT ![j].status = IF @ \in FinalStates \/ status = "running" THEN @ ELSE "completed"]

\* Progress never overtakes a final row and one terminal result claims the row.
RecordReport(j, status) ==
  rows' = [rows EXCEPT ![j].status = IF @ \in FinalStates THEN @ ELSE status]

\* Mutants: a failed job is offered again; a delivered one never is.
OldestUnfinished(k, j) ==
  /\ Channel(j) = k /\ rows[j].status \in ActiveStates \cup {"failed"}
  /\ \A d \in Jobs : Channel(d) = k /\ IsActive(d) => rows[j].created <= rows[d].created
OldestQueued(k, j) ==
  /\ Channel(j) = k /\ rows[j].status = "queued"
  /\ \A d \in Jobs : Channel(d) = k /\ IsActive(d) => rows[j].created <= rows[d].created

\* ORDER BY created_at ASC LIMIT 1 over the whole Agent: any of the oldest second.
Oldest(k, j) ==
  /\ Channel(j) = k /\ IsActive(j)
  /\ \A d \in Jobs : Channel(d) = k /\ IsActive(d) => rows[j].created <= rows[d].created

MarkDelivered(j) ==
  rows' = [rows EXCEPT ![j].status = IF @ = "queued" THEN "delivered" ELSE @]

\* Mutant: the job's status is stored as the instance's.
RawState(status) == status

\* dashboard_provision_state
PublicState(status) ==
  CASE status \in {"queued", "delivered"} -> "queued"
    [] status = "running" -> "provisioning"
    [] status = "completed" -> "installed"
    [] status = "failed" -> "failed"

\* A completed result, which may be an old one replayed, does not erase a failure.
ProjectState(i, status) ==
  public' = [public EXCEPT ![i] =
               IF @ = "absent" \/ (status = "completed" /\ @ = "failed") THEN @ ELSE PublicState(status)]

=============================================================================
