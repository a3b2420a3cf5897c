------------------------- MODULE InstanceDataProofs -------------------------
(***************************************************************************)
(* Without local operators no instance loses its directory: the lock, the  *)
(* one thread of the daemon and the order in which the Controller sends    *)
(* its jobs keep every record that may still be written on a whole copy.   *)
(***************************************************************************)
EXTENDS InstanceRuntimeProofs

USE RuntimeAssumption

LEMMA InitDataInv == ASSUME MaxLocals = 0 PROVE Init => DataInv
  <1> SUFFICES ASSUME Init PROVE DataInv
    OBVIOUS
  <1>1. pc["cli"] = "idle" /\ pc["daemon"] = "idle" /\ pc["executor"] = "idle"
    BY DEF Init, Processes
  <1>2. budget["locals"] = 0 /\ helper = None
    BY DEF Init
  <1>3. PICK p \in Pools, d \in {"running", "stopped"} :
          /\ record = [pool |-> p, desired |-> d, retrying |-> FALSE]
          /\ data = [q \in Pools |-> IF q = p THEN "whole" ELSE "absent"]
    BY DEF Init
  <1>4. record \in Records
    BY <1>3 DEF Records
  <1>5. record # None /\ data[record.pool] = "whole"
    BY <1>3, <1>4
  <1> QED
    BY <1>1, <1>2, <1>5 DEF DataInv, JobsMatch, EveryCopyWhole, JobQuiet, CopyQuiet, DaemonIn,
       HoldsCopy, HoldsLatest, Migrating

\* The failure of a pass is saved in a record of the current pool.
LEMMA FailedInPlace ==
  ASSUME IInv, record # None PROVE Failed.pool = record.pool /\ Failed # None
  <1>1. record \in Records
    BY DEF IInv, TypeOK
  <1>2. Failed = [record EXCEPT !.retrying = TRUE]
    BY DEF Failed
  <1> QED
    BY <1>1, <1>2 DEF Records

LEMMA ReconcileKeepsData ==
  ASSUME IInv, DataInv, Reconcile PROVE DataInv'
  <1> USE DEF DataInv, JobsMatch, EveryCopyWhole, JobQuiet, CopyQuiet, DaemonIn, HoldsCopy,
        HoldsLatest, Migrating, IInv, TypeOK, CopiesHeld, Processes, files,
        helperVars, shared, Goto
  <1>1. CASE ReadRecord
    BY <1>1 DEF ReadRecord
  <1>2. CASE BootSkips
    BY <1>2 DEF BootSkips
  <1>3. CASE LockForReconcile
    BY <1>3 DEF LockForReconcile
  <1>4. CASE ReconcileTimeout
    BY <1>4, FailedInPlace DEF ReconcileTimeout, RecordFailure
  <1>5. CASE InspectUnit
    BY <1>5 DEF InspectUnit, Apply, ApplyUnit, Records
  <1>6. CASE RegisterRepaired
    BY <1>6 DEF RegisterRepaired
  <1>7. CASE Converge
    BY <1>7 DEF Converge, Unanswered
  <1>8. CASE ConvergeRepairs
    BY <1>8 DEF ConvergeRepairs, Apply, ApplyUnit, Records
  <1>9. CASE ConvergeFails
    BY <1>9, FailedInPlace DEF ConvergeFails, RecordFailure, Unanswered, HelperGivesUp, Spend
  <1>10. CASE Settle
    BY <1>10 DEF Settle
  <1>11. CASE Verify
    <2>1. CASE removed \/ strayed
      BY <1>11, <2>1 DEF Verify
    <2>2. CASE ~removed /\ ~strayed
      <3>1. record \in Records
        BY <2>2
      <3>2. latest'.pool = record.pool /\ latest' # None
        BY <1>11, <2>2, <3>1, FailedInPlace DEF Verify, Records
      <3> QED
        BY <1>11, <2>2, <3>2 DEF Verify
    <2> QED
      BY <2>1, <2>2
  <1>12. CASE HelperFails
    BY <1>12, FailedInPlace DEF HelperFails, RecordFailure, Unanswered, HelperGivesUp, Spend
  <1>13. CASE SaveOutcome
    BY <1>13 DEF SaveOutcome
  <1> QED
    BY <1>1, <1>2, <1>3, <1>4, <1>5, <1>6, <1>7, <1>8, <1>9, <1>10, <1>11, <1>12, <1>13
    DEF Reconcile

\* A lifecycle command of the daemon: local operators issue none.
LEMMA LifecycleKeepsData ==
  ASSUME IInv, DataInv, NEW a \in Commanded, Order(a) \/ Lifecycle(a) PROVE DataInv'
  <1> USE DEF DataInv, JobsMatch, EveryCopyWhole, JobQuiet, CopyQuiet, DaemonIn, HoldsCopy,
        HoldsLatest, Migrating, IInv, TypeOK, CopiesHeld, Processes, files,
        helperVars, shared, Goto, Commanded
  <1>1. CASE Order(a)
    BY <1>1 DEF Order, Spend
  <1>2. CASE LockForLifecycle(a)
    BY <1>2 DEF LockForLifecycle
  <1>3. CASE LifecycleRefused(a)
    BY <1>3 DEF LifecycleRefused
  <1>4. CASE RunAdapter(a)
    BY <1>4 DEF RunAdapter
  <1>5. CASE AdapterFails(a)
    BY <1>5 DEF AdapterFails, Spend
  <1>6. CASE RegisterDesired(a)
    <2>1. a = "daemon"
      BY <1>6 DEF RegisterDesired
    <2>2. copy[a] \in Records
      BY <1>6, <2>1 DEF RegisterDesired
    <2>3. record'.pool = copy[a].pool /\ record' # None
      BY <1>6, <2>2 DEF RegisterDesired, DesiredBy, Records
    <2> QED
      BY <1>6, <2>1, <2>3 DEF RegisterDesired
  <1> QED
    BY <1>1, <1>2, <1>3, <1>4, <1>5, <1>6 DEF Lifecycle

LEMMA RemoveKeepsData ==
  ASSUME IInv, DataInv, OrderRemove \/ Remove PROVE DataInv'
  <1> USE DEF DataInv, JobsMatch, EveryCopyWhole, JobQuiet, CopyQuiet, DaemonIn, HoldsCopy,
        HoldsLatest, Migrating, IInv, TypeOK, Processes, files,
        helperVars, shared, Goto
  <1>1. CASE OrderRemove
    BY <1>1 DEF OrderRemove, Spend
  <1>2. CASE LockForRemove
    BY <1>2 DEF LockForRemove
  <1>3. CASE RemoveRuntime
    BY <1>3 DEF RemoveRuntime, Unanswered
  <1>4. CASE UnlinkRecord
    BY <1>4 DEF UnlinkRecord
  <1>5. CASE RemoveRefused
    BY <1>5 DEF RemoveRefused
  <1>6. CASE RemoveBreaks
    BY <1>6 DEF RemoveBreaks, Unanswered, HelperGivesUp, Spend
  <1> QED
    BY <1>1, <1>2, <1>3, <1>4, <1>5, <1>6 DEF Remove

LEMMA MigrateKeepsData ==
  ASSUME IInv, DataInv, Migrate PROVE DataInv'
  <1> USE DEF DataInv, JobsMatch, EveryCopyWhole, JobQuiet, CopyQuiet, DaemonIn, HoldsCopy,
        HoldsLatest, Migrating, IInv, TypeOK, CopiesHeld, Processes, files,
        helperVars, shared, Goto
  <1>1. CASE BeginMigration
    BY <1>1 DEF BeginMigration, ObservedStopped, Spend
  <1>2. CASE RejectMigration
    BY <1>2 DEF RejectMigration
  <1>3. CASE AskCopy
    BY <1>3 DEF AskCopy, Copies, Jobs
  <1>4. CASE CopyRefused
    BY <1>4 DEF CopyRefused, FailMigration
  <1>5. CASE SwitchUnit
    BY <1>5 DEF SwitchUnit, Apply, ApplyUnit, Jobs, Records
  <1>6. CASE RegisterTarget
    <2>1. copy["executor"] \in Records /\ job \in Jobs
      BY <1>6 DEF RegisterTarget
    <2>2. record'.pool = job.target /\ record' # None
      BY <1>6, <2>1 DEF RegisterTarget, Records, Jobs
    <2> QED
      BY <1>6, <2>2 DEF RegisterTarget
  <1>7. CASE CommitResult
    BY <1>7 DEF CommitResult
  <1>8. CASE PublishCompleted
    BY <1>8 DEF PublishCompleted, EndJob
  <1>9. CASE MigrationBreaks
    BY <1>9 DEF MigrationBreaks, FailMigration, Spend
  <1>10. CASE RestoreUnit
    BY <1>10 DEF RestoreUnit, Apply, ApplyUnit, Records
  <1>11. CASE RestoreRecord
    BY <1>11 DEF RestoreRecord, EndJob
  <1>12. CASE RestoreBreaks
    BY <1>12 DEF RestoreBreaks, Unanswered, HelperGivesUp, EndJob, Spend
  <1> QED
    BY <1>1, <1>2, <1>3, <1>4, <1>5, <1>6, <1>7, <1>8, <1>9, <1>10, <1>11, <1>12
    DEF Migrate

LEMMA JobKeepsData ==
  ASSUME IInv, DataInv, StageJob \/ JobRefused \/ Cleanup PROVE DataInv'
  <1> USE DEF DataInv, JobsMatch, EveryCopyWhole, JobQuiet, CopyQuiet, DaemonIn, HoldsCopy,
        HoldsLatest, Migrating, IInv, TypeOK, Processes, files,
        helperVars, shared, Goto
  <1>1. CASE StageJob
    BY <1>1 DEF StageJob, Spend, Jobs
  <1>2. CASE JobRefused
    BY <1>2 DEF JobRefused, EndJob
  <1>3. CASE BeginCleanup
    BY <1>3 DEF BeginCleanup
  <1>4. CASE DeleteSource
    BY <1>4 DEF DeleteSource, EndJob, Jobs, Records
  <1>5. CASE DeleteBreaks
    BY <1>5 DEF DeleteBreaks, HalfDeleted, EndJob, Spend, Jobs, Records
  <1> QED
    BY <1>1, <1>2, <1>3, <1>4, <1>5 DEF Cleanup

\* The copy ends, for an executor that waits or for nobody.
LEMMA CopyingKeepsData ==
  ASSUME IInv, DataInv, Copying PROVE DataInv'
  <1> USE DEF DataInv, JobsMatch, EveryCopyWhole, JobQuiet, CopyQuiet, DaemonIn, HoldsCopy,
        HoldsLatest, Migrating, IInv, TypeOK, CopiesHeld, Processes, files,
        helperVars, shared, Goto
  <1>1. CASE CopyData
    <2>1. helper \in Copies /\ helper' = None
      BY <1>1 DEF CopyData
    <2>2. JobsMatch' /\ pc'["executor"] # "copying" /\ pc'["cli"] = "idle"
      BY <1>1 DEF CopyData
    <2>3. ASSUME ~removed, ~strayed' PROVE EveryCopyWhole' /\ JobQuiet' /\ CopyQuiet'
      <3>1. ~strayed /\ EveryCopyWhole /\ JobQuiet /\ CopyQuiet
        BY <1>1, <2>3 DEF CopyData
      <3>2. data' = [data EXCEPT ![helper.target] = "whole"]
        BY <1>1, <3>1 DEF CopyData
      <3>3. \A p \in Pools : data[p] = "whole" => data'[p] = "whole"
        BY <3>2, <2>1 DEF Copies
      <3>4. record \in Records /\ copy["executor"] \in Records \cup {None}
              /\ copy["daemon"] \in Records \cup {None} /\ latest \in Records \cup {None}
        BY <3>1
      <3>5. EveryCopyWhole'
        <4>1. /\ record' # None /\ data'[record'.pool] = "whole"
              /\ HoldsCopy' => data'[copy'["daemon"].pool] = "whole"
              /\ HoldsLatest' => latest' # None /\ data'[latest'.pool] = "whole"
          BY <1>1, <3>1, <3>3, <3>4 DEF CopyData, Records
        <4>2. Migrating' => data'[copy'["executor"].pool] = "whole"
          BY <1>1, <3>1, <3>3, <3>4 DEF CopyData, Records
        <4>3. pc'["executor"] \in {"switch", "register"} => data'[job'.target] = "whole"
          BY <1>1, <2>1, <2>3, <3>1, <3>2 DEF CopyData, Copies
        <4> QED
          BY <4>1, <4>2, <4>3
      <3>6. JobQuiet'
        BY <1>1, <3>1 DEF CopyData
      <3> QED
        BY <3>5, <3>6, <2>1
    <2> QED
      BY <1>1, <2>2, <2>3 DEF CopyData
  <1>2. CASE CopyFails
    BY <1>2 DEF CopyFails, FailMigration, Spend
  <1> QED
    BY <1>1, <1>2 DEF Copying

LEMMA WorldKeepsData ==
  ASSUME IInv, DataInv, ServerCrash \/ AgentRestart PROVE DataInv'
  <1> USE DEF DataInv, JobsMatch, EveryCopyWhole, JobQuiet, CopyQuiet, DaemonIn, HoldsCopy,
        HoldsLatest, Migrating, IInv, TypeOK, Processes, files,
        helperVars, shared, Goto
  <1>1. CASE ServerCrash
    BY <1>1 DEF ServerCrash, Spend
  <1>2. CASE AgentRestart
    BY <1>2 DEF AgentRestart, Spend
  <1> QED
    BY <1>1, <1>2

LEMMA StepKeepsData == IInv /\ DataInv /\ [Next]_vars => DataInv'
  <1> SUFFICES ASSUME IInv, DataInv, [Next]_vars PROVE DataInv'
    OBVIOUS
  <1>1. CASE Next
    BY <1>1, ReconcileKeepsData, LifecycleKeepsData, RemoveKeepsData, MigrateKeepsData,
       JobKeepsData, CopyingKeepsData, WorldKeepsData
    DEF Next, Execute
  <1>2. CASE UNCHANGED vars
    BY <1>2 DEF vars, helperVars, DataInv, JobsMatch, EveryCopyWhole, JobQuiet,
                CopyQuiet, DaemonIn, HoldsCopy, HoldsLatest, Migrating
  <1> QED
    BY <1>1, <1>2

\* When nobody works on the host itself, the record of an instance that was not
\* removed names a pool that holds the whole instance: whatever the Controller
\* migrates, cleans up or commands, wherever a step fails or the Agent restarts,
\* and though a copy goes on without the executor that asked for it; as long as
\* no migration was answered by the copy of another one.
THEOREM NoDataLost == ASSUME MaxLocals = 0 PROVE Spec => []DataAvailable
  <1>1. DataInv => DataAvailable
    BY DEF DataInv, EveryCopyWhole, DataAvailable
  <1>2. Init => DataInv
    BY InitDataInv
  <1> QED
    BY <1>1, <1>2, StepKeepsData, Inductive, PTL DEF Spec
=============================================================================
