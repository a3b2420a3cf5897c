---------------------------- MODULE BackupQueue ----------------------------
(***************************************************************************)
(* The Controller's backup jobs of one instance: requests, the scheduler   *)
(* and the Agent's reports (database/backup_repository.py).  Each operator *)
(* is one transaction; a handler thread runs several of them.              *)
(***************************************************************************)
EXTENDS Integers, FiniteSets

CONSTANT Jobs  \* command ids, in the order of their names

ASSUME BackupJobsAssumption == Jobs \subseteq Nat \ {0} /\ IsFiniteSet(Jobs)

VARIABLE rows  \* the row of a job

NoJob == 0
Actions == {"create", "restore", "delete"}
Active == {"pending", "running"}
Final == {"completed", "failed"}

\* backup: the create job whose archive a restore or a delete is about;
\* created: the rank of created_at among the rows.
Row == [status : {"none"} \cup Active \cup Final, action : Actions,
        backup : Jobs \cup {NoJob}, created : Nat]

Unused == {j \in Jobs : rows[j].status = "none"}
IsActive(j) == rows[j].status \in Active
IsFinal(j) == rows[j].status \in Final
Completed(action) == {j \in Jobs : rows[j].action = action /\ rows[j].status = "completed"}

QueueTypeOK == rows \in [Jobs -> Row]

QueueInit ==
  rows = [j \in Jobs |-> [status |-> "none", action |-> "create", backup |-> NoJob, created |-> 0]]

Insert(j, action, b) ==
  /\ j \in Unused
  /\ rows' = [rows EXCEPT ![j] = [status |-> "pending", action |-> action, backup |-> b,
                                  created |-> Cardinality(Jobs \ Unused) + 1]]

\* effective_jobs: the completed backups that no completed delete was for.
Listed == Completed("create") \ {rows[d].backup : d \in Completed("delete")}

\* A request of a user, for a new backup or about one that was listed once.
RequestBackup(j) == Insert(j, "create", NoJob)
RequestFor(j, action, b) == b \in Completed("create") /\ Insert(j, action, b)

\* schedule_due: no job of the instance is under way and, whatever the interval,
\* the time of day and the instance's health say, a backup may be due.
MayBeDue == Unused # {} /\ \A j \in Jobs : ~IsActive(j)

\* commands_for_agent, for the rows that are pending.
Pending == {j \in Jobs : rows[j].status = "pending"}

\* Mutant: a report of a failure is not among the statuses it accepts.
RecordSuccesses(reports) ==
  rows' = [j \in Jobs |-> IF rows[j].status # "none" /\ reports[j] \in {"running", "completed"}
                          THEN [rows[j] EXCEPT !.status = reports[j]] ELSE rows[j]]

\* record_agent_state overwrites the status, whatever it was.
RecordStates(reports) ==
  rows' = [j \in Jobs |-> IF rows[j].status # "none" /\ reports[j] # "none"
                          THEN [rows[j] EXCEPT !.status = reports[j]] ELSE rows[j]]

=============================================================================
