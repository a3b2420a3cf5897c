----------------------- MODULE InstanceRuntimeProofs -----------------------
(***************************************************************************)
(* What the instance lock guarantees, for any number of pools, commands,   *)
(* jobs, failures and restarts.                                            *)
(***************************************************************************)
EXTENDS InstanceRuntime, TLAPS

USE RuntimeAssumption

LEMMA InitIInv == Init => IInv
  <1> SUFFICES ASSUME Init PROVE IInv
    OBVIOUS
  <1>1. TypeOK
    <2> PICK p \in Pools, d \in {"running", "stopped"} :
          /\ record = [pool |-> p, desired |-> d, retrying |-> FALSE]
          /\ unit = p
          /\ process = IF d = "running" THEN p ELSE None
          /\ data = [q \in Pools |-> IF q = p THEN "whole" ELSE "absent"]
      BY DEF Init
    <2>1. record \in Records
      BY DEF Records
    <2>2. data \in [Pools -> Contents]
      BY DEF Contents
    <2>3. pc \in [Processes -> DaemonLocations \cup CliLocations \cup ExecutorLocations]
      BY DEF Init, DaemonLocations
    <2>4. copy \in [Processes -> Records \cup {None}]
      BY DEF Init
    <2>5. order \in [Commanded -> {"start", "stop", "restart", "remove", "none"}]
      BY DEF Init
    <2>6. budget \in [{"orders", "locals", "jobs", "faults", "breaks", "crashes",
                       "outages"} -> Nat]
      BY DEF Init
    <2>7. lock \in Processes \cup {None} /\ latest \in Records \cup {None}
            /\ job \in Jobs \cup {None} /\ completed \in SUBSET (Pools \X Pools)
            /\ removed \in BOOLEAN /\ strayed \in BOOLEAN /\ misled \subseteq Processes
            /\ helper \in Copies \cup {None}
      BY DEF Init
    <2>8. unit \in Pools \cup {None} /\ process \in Pools \cup {None}
      OBVIOUS
    <2> QED
      BY <2>1, <2>2, <2>3, <2>4, <2>5, <2>6, <2>7, <2>8 DEF TypeOK
  <1>2. pc["daemon"] = "idle" /\ pc["cli"] = "idle" /\ pc["executor"] = "idle"
    BY DEF Init, Processes
  <1>3. NoOutage
    BY DEF Init, NoOutage
  <1> QED
    BY <1>1, <1>2, <1>3 DEF IInv, LockDiscipline, CopiesHeld, StoppedUnderLock

\* What _failure writes back is a record: the newest one, or the pass's copy.
LEMMA FailedTyped ==
  ASSUME IInv,
         pc["daemon"] \in {"waiting", "inspect", "register", "converge", "verify"}
  PROVE  Failed \in Records
  <1>1. copy["daemon"] \in Records \cup {None} /\ copy["daemon"] # None
    BY DEF IInv, TypeOK, CopiesHeld, Processes
  <1>2. record \in Records \cup {None}
    BY DEF IInv, TypeOK
  <1>3. PICK r \in Records : Failed = [r EXCEPT !.retrying = TRUE]
    BY <1>1, <1>2 DEF Failed
  <1> QED
    BY <1>3 DEF Records

\* A pass of the reconciler.
LEMMA ReconcileKeeps ==
  ASSUME IInv, Reconcile PROVE IInv'
  <1> USE DEF IInv, TypeOK, LockDiscipline, CopiesHeld, NoOutage, StoppedUnderLock,
        Processes, Commanded, files, helperVars, shared, Goto
  <1>1. CASE ReadRecord
    BY <1>1 DEF ReadRecord, DaemonLocations
  <1>2. CASE BootSkips
    BY <1>2 DEF BootSkips, DaemonLocations
  <1>3. CASE LockForReconcile
    BY <1>3 DEF LockForReconcile, Acquire, DaemonLocations
  <1>4. CASE ReconcileTimeout
    BY <1>4, FailedTyped DEF ReconcileTimeout, RecordFailure, DaemonLocations
  <1>5. CASE InspectUnit
    BY <1>5 DEF InspectUnit, Apply, ApplyUnit, DaemonLocations, Contents, Records
  <1>6. CASE RegisterRepaired
    BY <1>6 DEF RegisterRepaired, DaemonLocations
  <1>7. CASE Converge
    BY <1>7 DEF Converge, Unanswered, AdapterStart, StartServer, StopServer,
                DaemonLocations, Contents
  <1>8. CASE ConvergeRepairs
    BY <1>8 DEF ConvergeRepairs, Apply, ApplyUnit, DaemonLocations, Contents, Records
  <1>9. CASE ConvergeFails
    BY <1>9, FailedTyped DEF ConvergeFails, RecordFailure, Unanswered, HelperGivesUp,
       Spend, DaemonLocations
  <1>10. CASE Settle
    BY <1>10 DEF Settle, DaemonLocations
  <1>11. CASE Verify
    <2>1. latest' \in Records
      BY <1>11, FailedTyped DEF Verify, Records
    <2> QED
      BY <1>11, <2>1 DEF Verify, DaemonLocations
  <1>12. CASE HelperFails
    BY <1>12, FailedTyped DEF HelperFails, RecordFailure, Unanswered, HelperGivesUp,
       Spend, DaemonLocations
  <1>13. CASE SaveOutcome
    BY <1>13 DEF SaveOutcome, Release, DaemonLocations
  <1> QED
    BY <1>1, <1>2, <1>3, <1>4, <1>5, <1>6, <1>7, <1>8, <1>9, <1>10, <1>11, <1>12, <1>13
    DEF Reconcile

\* A lifecycle command, in the daemon or in an operator's process.
LEMMA LifecycleKeeps ==
  ASSUME IInv, NEW a \in Commanded, Order(a) \/ Lifecycle(a) PROVE IInv'
  <1> USE DEF IInv, TypeOK, LockDiscipline, CopiesHeld, NoOutage, StoppedUnderLock,
        Processes, Commanded, files, helperVars, shared, Goto
  <1>1. CASE Order(a)
    BY <1>1 DEF Order, Spend, DaemonLocations, CliLocations
  <1>2. CASE LockForLifecycle(a)
    BY <1>2 DEF LockForLifecycle, Acquire, DaemonLocations, CliLocations
  <1>3. CASE LifecycleRefused(a)
    BY <1>3 DEF LifecycleRefused, DaemonLocations, CliLocations
  <1>4. CASE RunAdapter(a)
    BY <1>4 DEF RunAdapter, AdapterStart, StartServer, StopServer, DaemonLocations,
                CliLocations, Contents
  <1>5. CASE AdapterFails(a)
    BY <1>5 DEF AdapterFails, Release, Spend, DaemonLocations, CliLocations
  <1>6. CASE RegisterDesired(a)
    <2>1. copy[a] \in Records
      BY <1>6 DEF RegisterDesired
    <2>2. record' \in Records
      BY <1>6, <2>1 DEF RegisterDesired, DesiredBy, Records
    <2> QED
      BY <1>6, <2>2 DEF RegisterDesired, Release, DaemonLocations, CliLocations
  <1> QED
    BY <1>1, <1>2, <1>3, <1>4, <1>5, <1>6 DEF Lifecycle

\* A remove command.
LEMMA RemoveKeeps ==
  ASSUME IInv, OrderRemove \/ Remove PROVE IInv'
  <1> USE DEF IInv, TypeOK, LockDiscipline, CopiesHeld, NoOutage, StoppedUnderLock,
        Processes, Commanded, files, helperVars, shared, Goto
  <1>1. CASE OrderRemove
    BY <1>1 DEF OrderRemove, Spend, DaemonLocations
  <1>2. CASE LockForRemove
    BY <1>2 DEF LockForRemove, Acquire, DaemonLocations
  <1>3. CASE RemoveRuntime
    BY <1>3 DEF RemoveRuntime, Unanswered, DaemonLocations, Contents, Records
  <1>4. CASE UnlinkRecord
    BY <1>4 DEF UnlinkRecord, Release, DaemonLocations
  <1>5. CASE RemoveRefused
    BY <1>5 DEF RemoveRefused, DaemonLocations
  <1>6. CASE RemoveBreaks
    <2>1. data' \in [Pools -> Contents]
      BY <1>6 DEF RemoveBreaks, HalfDeleted, Contents
    <2>2. unit' \in Pools \cup {None} /\ process' \in {process, None}
            /\ removed' \in BOOLEAN
      BY <1>6 DEF RemoveBreaks
    <2>3. /\ budget' \in [{"orders", "locals", "jobs", "faults", "breaks", "crashes",
                           "outages"} -> Nat]
          /\ budget'["outages"] = budget["outages"]
      BY <1>6 DEF RemoveBreaks, HelperGivesUp, Spend
    <2> QED
      BY <1>6, <2>1, <2>2, <2>3 DEF RemoveBreaks, Release, Unanswered, DaemonLocations
  <1> QED
    BY <1>1, <1>2, <1>3, <1>4, <1>5, <1>6 DEF Remove

\* A storage pool migration.
LEMMA MigrateKeeps ==
  ASSUME IInv, Migrate PROVE IInv'
  <1> USE DEF IInv, TypeOK, LockDiscipline, CopiesHeld, NoOutage, StoppedUnderLock,
        Processes, Commanded, files, helperVars, shared, Goto
  <1>1. CASE BeginMigration
    BY <1>1 DEF BeginMigration, Acquire, ObservedStopped, Spend, ExecutorLocations
  <1>2. CASE RejectMigration
    BY <1>2 DEF RejectMigration, ExecutorLocations
  <1>3. CASE AskCopy
    BY <1>3 DEF AskCopy, ExecutorLocations, Copies, Jobs
  <1>4. CASE CopyRefused
    BY <1>4 DEF CopyRefused, FailMigration, Release, ExecutorLocations
  <1>5. CASE SwitchUnit
    BY <1>5 DEF SwitchUnit, Apply, ApplyUnit, ExecutorLocations, Contents, Jobs
  <1>6. CASE RegisterTarget
    <2>1. copy["executor"] \in Records
      BY <1>6 DEF RegisterTarget
    <2>2. job.target \in Pools
      BY <1>6 DEF RegisterTarget, Jobs
    <2>3. record' \in Records
      BY <1>6, <2>1, <2>2 DEF RegisterTarget, Records
    <2> QED
      BY <1>6, <2>3 DEF RegisterTarget, ExecutorLocations
  <1>7. CASE CommitResult
    BY <1>7 DEF CommitResult, ExecutorLocations, Jobs
  <1>8. CASE PublishCompleted
    BY <1>8 DEF PublishCompleted, EndJob, Release, ExecutorLocations
  <1>9. CASE MigrationBreaks
    BY <1>9 DEF MigrationBreaks, FailMigration, Release, Spend, ExecutorLocations
  <1>10. CASE RestoreUnit
    BY <1>10 DEF RestoreUnit, Apply, ApplyUnit, ExecutorLocations, Contents, Records
  <1>11. CASE RestoreRecord
    BY <1>11 DEF RestoreRecord, EndJob, ExecutorLocations
  <1>12. CASE RestoreBreaks
    BY <1>12 DEF RestoreBreaks, Unanswered, HelperGivesUp, EndJob, Spend,
                 ExecutorLocations
  <1> QED
    BY <1>1, <1>2, <1>3, <1>4, <1>5, <1>6, <1>7, <1>8, <1>9, <1>10, <1>11, <1>12
    DEF Migrate

\* Staging a job, refusing it, and a cleanup.
LEMMA JobKeeps ==
  ASSUME IInv, StageJob \/ JobRefused \/ Cleanup PROVE IInv'
  <1> USE DEF IInv, TypeOK, LockDiscipline, CopiesHeld, NoOutage, StoppedUnderLock,
        Processes, Commanded, files, helperVars, shared, Goto, ExecutorLocations
  <1>1. CASE StageJob
    BY <1>1 DEF StageJob, Spend, Jobs
  <1>2. CASE JobRefused
    BY <1>2 DEF JobRefused, EndJob
  <1>3. CASE BeginCleanup
    BY <1>3 DEF BeginCleanup, Acquire
  <1>4. CASE DeleteSource
    BY <1>4 DEF DeleteSource, EndJob, Release, Contents
  <1>5. CASE DeleteBreaks
    BY <1>5 DEF DeleteBreaks, HalfDeleted, EndJob, Release, Spend, Contents
  <1> QED
    BY <1>1, <1>2, <1>3, <1>4, <1>5 DEF Cleanup

\* The end of a copy, in the helper's unit.
LEMMA CopyingKeeps ==
  ASSUME IInv, Copying PROVE IInv'
  <1> USE DEF IInv, TypeOK, LockDiscipline, CopiesHeld, NoOutage, StoppedUnderLock,
        Processes, Commanded, files, helperVars, shared, Goto, ExecutorLocations
  <1>1. CASE CopyData
    <2>1. data' \in [Pools -> Contents] /\ misled' \subseteq Processes
            /\ strayed' \in BOOLEAN
      BY <1>1 DEF CopyData, Callers, Copies, Contents
    <2> QED
      BY <1>1, <2>1 DEF CopyData
  <1>2. CASE CopyFails
    BY <1>2 DEF CopyFails, FailMigration, Release, Spend
  <1> QED
    BY <1>1, <1>2 DEF Copying

\* A crash of the server and a restart of the Agent.
LEMMA WorldKeeps ==
  ASSUME IInv, ServerCrash \/ AgentRestart PROVE IInv'
  <1> USE DEF IInv, TypeOK, LockDiscipline, CopiesHeld, NoOutage, StoppedUnderLock,
        Processes, Commanded, files, helperVars, shared, Goto
  <1>1. CASE ServerCrash
    BY <1>1 DEF ServerCrash, Spend
  <1>2. CASE AgentRestart
    BY <1>2 DEF AgentRestart, Spend, DaemonLocations, ExecutorLocations, CliLocations
  <1> QED
    BY <1>1, <1>2

LEMMA StepKeeps == IInv /\ [Next]_vars => IInv'
  <1> SUFFICES ASSUME IInv, [Next]_vars PROVE IInv'
    OBVIOUS
  <1>1. CASE Next
    BY <1>1, ReconcileKeeps, LifecycleKeeps, RemoveKeeps, MigrateKeeps, JobKeeps,
       CopyingKeeps, WorldKeeps
    DEF Next, Execute
  <1>2. CASE UNCHANGED vars
    BY <1>2 DEF vars, IInv, TypeOK, LockDiscipline, CopiesHeld, NoOutage,
                StoppedUnderLock, helperVars
  <1> QED
    BY <1>1, <1>2

\* The critical sections of reconciler, lifecycle, removal, migration and
\* cleanup lie under the instance's lock, and each works from a record it read.
THEOREM Inductive == Spec => []IInv
  <1> QED
    BY InitIInv, StepKeeps, PTL DEF Spec

\* Every file the three processes share keeps its type: no reconcile pass, no
\* rollback and no restart ever writes back a record that it did not read.
THEOREM RuntimeTyped == Spec => []TypeOK
  <1>1. IInv => TypeOK
    BY DEF IInv
  <1> QED
    BY <1>1, Inductive, PTL

\* As long as systemd answers the status queries, no server runs from the check
\* of a migration until the copy its executor waits for is done: check, wait and
\* every start lie under one lock.  It says nothing of a copy that nobody waits
\* for any more (StoppedWhileCopying, which the code does not keep).
THEOREM NoServerWhileAwaited ==
  ASSUME MaxOutages = 0 PROVE Spec => []StoppedWhileAwaited
  <1>1. IInv => StoppedWhileAwaited
    BY DEF IInv, StoppedUnderLock, StoppedWhileAwaited
  <1> QED
    BY <1>1, Inductive, PTL
=============================================================================
