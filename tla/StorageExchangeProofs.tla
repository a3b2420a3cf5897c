------------------------ MODULE StorageExchangeProofs ------------------------
(***************************************************************************)
(* Proofs about StorageExchange, for every set of instances, pools,        *)
(* migrations and clean-ups and every capacity: types, one active          *)
(* migration per instance, data that is never deleted under the record     *)
(* that names it, and completed migrations that did move their instance.   *)
(*                                                                         *)
(* The argument in short: the lock lets one executor of an instance act at *)
(* a time, so a copy stays in its target pool until the record names it,   *)
(* and the record stays with the source until then; an operation that has  *)
(* an executor keeps its result file until the Controller's row is final,  *)
(* so it is never staged twice and a roll-back that overturned something   *)
(* is never forgotten; and a provisioning runs before the Controller has   *)
(* seen any pool for its instance, so before any migration of it.          *)
(***************************************************************************)
EXTENDS StorageExchange, FiniteSetTheorems, TLAPS

-----------------------------------------------------------------------------
(* The inductive invariant *)

Fits == \A p \in Pools : Cardinality(dirs[p]) <= Capacity

RowSound(o) ==
  IF operations[o].status = "none"
  THEN operations[o] = NoOperation /\ results[o] = "none" /\ executors[o] = "none"
  ELSE /\ operations[o].owner \in Instances
       /\ operations[o].source \in Pools /\ operations[o].target \in Pools
       /\ operations[o].source # operations[o].target

RowsSound ==
  /\ \A o \in Ops : RowSound(o)
  /\ \A c \in Cleanups : previewed[c] # None => operations[previewed[c]].status # "none"

\* Until its provisioning has run, nobody has seen a pool for an instance.
Unseen(i) ==
  /\ record[i] = None /\ metadata.pool[i] = None
  /\ agent.message.telemetry.pool[i] = None /\ request.message.telemetry.pool[i] = None
  /\ \A o \in Ops : operations[o].owner # i

ProvisionedFirst ==
  \A i \in Instances :
    /\ provisioning[i].status \in {"none", "active"} => Unseen(i)
    /\ provisioning[i].status = "active" => provisioning[i].pool \in Pools

IsFinal(o) == operations[o].status \in FinalStates

\* What the Controller answers of an operation's state is what its row says.
Answered(state) == state.status \in FinalStates => state.op \in Ops /\ IsFinal(state.op)

MessagesSound ==
  /\ agent.pc \in {"sampled", "stage", "clear"} => request.pc = "free"
  /\ agent.message.cmd # None => IsActive(agent.message.cmd) /\ agent.pc \in {"stage", "clear"}
  /\ request.message.cmd # None => IsActive(request.message.cmd) /\ request.pc \in {"deliver", "rest", "done"}
  /\ request.pc = "deliver" => request.message.cmd # None
  /\ Answered(agent.message.state) /\ Answered(request.message.state)
  /\ LET told == request.message.report
     IN  told.op # None => /\ operations[told.op].status # "none"
                           /\ told.status \in {"running"} \cup FinalStates

Locking(o) == executors[o] \in {"acted", "announced"}

OneLockHolder ==
  \A o, d \in Ops : Locking(o) /\ Locking(d) /\ operations[o].owner = operations[d].owner => o = d

CopiesSafe ==
  \A m \in Migrations : executors[m] = "acted" =>
    /\ operations[m].owner \in astray \/ operations[m].owner \in dirs[operations[m].target]
    /\ ~Overturned(operations[m].owner) => record[operations[m].owner] = operations[m].source

FilesKept == \A o \in Ops : executors[o] # "none" => results[o] # "none" \/ IsFinal(o)

\* Somebody says, or is about to say, that the migration is completed.
Claimed(m) ==
  \/ executors[m] = "announced"
  \/ results[m] = "completed"
  \/ request.message.report.op = m /\ request.message.report.status = "completed"
  \/ operations[m].status = "completed"

Moved(m) ==
  LET i == operations[m].owner
  IN  \/ Overturned(i)
      \/ record[i] \in {operations[m].target, None}
      \/ \E d \in Migrations : operations[d].owner = i /\ operations[d].source = operations[m].target

ClaimsTrue == \A m \in Migrations : Claimed(m) => Moved(m)

IInv ==
  /\ TypeOK /\ Fits
  /\ RowsSound /\ ProvisionedFirst /\ MessagesSound
  /\ OneLockHolder /\ CopiesSafe /\ FilesKept
  /\ DataKeptUnlessMislaid /\ ClaimsTrue /\ OneMigrationPerInstance

-----------------------------------------------------------------------------
(* Types of the parts *)

LEMMA OpsTyped ==
  /\ Migrations \subseteq Ops /\ Cleanups \subseteq Ops
  /\ None \notin Ops /\ None \notin Instances /\ None \notin Pools /\ None \notin Migrations
  /\ \A o \in Ops : o \notin Migrations <=> o \in Cleanups
  BY StorageAssumption DEF Ops

LEMMA SpaceCounted ==
  ASSUME TypeOK, NEW p \in Pools
  PROVE  IsFiniteSet(dirs[p]) /\ Cardinality(dirs[p]) \in Nat
  <1>1. dirs[p] \subseteq Instances
    BY DEF TypeOK
  <1> QED BY <1>1, FS_Subset, FS_CardinalityType, StorageAssumption

LEMMA SampleTyped ==
  ASSUME TypeOK, Fits
  PROVE  Sample \in Telemetry /\ Sample.pool = record
  <1>1. \A p \in Pools : Capacity - Cardinality(dirs[p]) \in Nat
    BY SpaceCounted, StorageAssumption DEF Fits
  <1> QED BY <1>1 DEF Sample, Telemetry, TypeOK

LEMMA BlankSound ==
  /\ Blank \in Message
  /\ Blank.telemetry.pool = [i \in Instances |-> None]
  /\ Blank.report = NoReport /\ Blank.state = NoReport /\ Blank.cmd = None
  /\ NoReport \in Report /\ NoReport.op = None /\ NoReport.status = "none"
  /\ Answered(NoReport)
  BY DEF Blank, Message, Telemetry, NoReport, Report, Answered, FinalStates

LEMMA InitSound == Init => IInv
  <1> SUFFICES ASSUME Init PROVE IInv
    OBVIOUS
  <1> USE DEF Init
  <1>1. /\ operations \in [Ops -> Operation] /\ \A o \in Ops : operations[o] = NoOperation
        /\ NoOperation.status = "none" /\ NoOperation.owner = None
    BY StorageAssumption DEF Operation, NoOperation, ActiveStates, FinalStates
  <1>2. /\ record \in [Instances -> Pools \cup {None}]
        /\ dirs = [p \in Pools |-> {i \in Instances : record[i] = p}]
        /\ dirs \in [Pools -> SUBSET Instances]
    OBVIOUS
  <1>3. Fits
    BY DEF Fits
  <1>4. Sample.pool = record /\ Sample \in Telemetry
    <2>1. \A p \in Pools : Cardinality(dirs[p]) \in Nat
      <3> TAKE p \in Pools
      <3>1. dirs[p] \subseteq Instances
        BY <1>2
      <3> QED BY <3>1, FS_Subset, FS_CardinalityType, StorageAssumption
    <2>2. ASSUME NEW p \in Pools PROVE Capacity - Cardinality(dirs[p]) \in Nat
      <3>1. Cardinality(dirs[p]) \in Nat /\ Cardinality(dirs[p]) <= Capacity
        BY <2>1, <1>3 DEF Fits
      <3> HIDE DEF Init
      <3> QED BY <3>1, StorageAssumption
    <2> QED BY <1>2, <2>2 DEF Sample, Telemetry
  <1>5. TypeOK
    <2>1. QueueTypeOK
      BY <1>1, <1>2, <1>4 DEF QueueTypeOK, ProvisioningStates
    <2>2. /\ agent \in [pc : AgentPC, message : Message]
          /\ request \in [pc : RequestPC, message : Message, awaited : BOOLEAN]
      BY BlankSound DEF AgentPC, RequestPC
    <2>3. faults \in [crashes : 0 .. MaxCrashes, losses : 0 .. MaxLosses]
      BY StorageFaultAssumption
    <2> QED BY <1>2, <2>1, <2>2, <2>3 DEF TypeOK, ExecutorStates
  <1>6. RowsSound
    BY <1>1, OpsTyped DEF RowsSound, RowSound
  <1>7. ProvisionedFirst
    BY <1>1, <1>2, <1>4, BlankSound, OpsTyped DEF ProvisionedFirst, Unseen
  <1>8. MessagesSound
    BY BlankSound DEF MessagesSound
  <1>9. OneLockHolder /\ CopiesSafe /\ FilesKept
    BY OpsTyped DEF OneLockHolder, Locking, CopiesSafe, FilesKept
  <1>10. DataKeptUnlessMislaid
    BY <1>2 DEF DataKeptUnlessMislaid
  <1>11. ClaimsTrue
    BY <1>1, OpsTyped, BlankSound DEF ClaimsTrue, Claimed
  <1>12. OneMigrationPerInstance
    BY <1>1, OpsTyped DEF OneMigrationPerInstance, IsActive, ActiveStates
  <1> QED BY <1>3, <1>5, <1>6, <1>7, <1>8, <1>9, <1>10, <1>11, <1>12 DEF IInv

-----------------------------------------------------------------------------
(* Rows are never taken back *)

SameRequest(o) ==
  /\ operations'[o].owner = operations[o].owner
  /\ operations'[o].source = operations[o].source
  /\ operations'[o].target = operations[o].target

Grown ==
  \A o \in Ops : operations[o].status # "none" =>
    SameRequest(o) /\ operations'[o].status # "none" /\ (IsFinal(o) => IsFinal(o)')

\* An executor belongs to a row.
LEMMA ExecutorHasRow ==
  ASSUME RowsSound, NEW o \in Ops, executors[o] # "none" \/ results[o] # "none"
  PROVE  /\ operations[o].status # "none" /\ operations[o].owner \in Instances
         /\ operations[o].source \in Pools /\ operations[o].target \in Pools
  BY DEF RowsSound, RowSound

LEMMA OverturnedStays ==
  ASSUME RowsSound, Grown,
         \A m \in Migrations : executors[m] = "overturned" => executors'[m] = "overturned"
  PROVE  \A i : Overturned(i) => Overturned(i)'
  BY ExecutorHasRow, OpsTyped DEF Overturned, Grown, SameRequest

LEMMA MovedStays ==
  ASSUME RowsSound, Grown, NEW m \in Migrations, operations[m].status # "none", Moved(m),
         \A i : Overturned(i) => Overturned(i)',
         record'[operations[m].owner] \in {record[operations[m].owner], None}
  PROVE  Moved(m)'
  <1> DEFINE i == operations[m].owner
  <1>1. operations'[m].owner = i /\ operations'[m].target = operations[m].target
    BY OpsTyped DEF Grown, SameRequest
  <1>2. CASE Overturned(i)
    BY <1>1, <1>2 DEF Moved
  <1>3. CASE record[i] \in {operations[m].target, None}
    BY <1>1, <1>3 DEF Moved
  <1>4. ASSUME NEW d \in Migrations, operations[d].owner = i, operations[d].source = operations[m].target
        PROVE  Moved(m)'
    <2>1. operations[m].target \in Pools /\ operations[m].target # None
      BY OpsTyped DEF RowsSound, RowSound
    <2>2. operations[d].status # "none"
      BY <1>4, <2>1, OpsTyped DEF RowsSound, RowSound, NoOperation
    <2>3. operations'[d].owner = i /\ operations'[d].source = operations[m].target
      BY <1>4, <2>2, OpsTyped DEF Grown, SameRequest
    <2> QED BY <1>1, <2>3 DEF Moved
  <1> QED BY <1>2, <1>3, <1>4 DEF Moved

LEMMA ClaimedHasRow ==
  ASSUME IInv, NEW m \in Migrations, Claimed(m)
  PROVE  operations[m].status # "none"
  BY ExecutorHasRow, OpsTyped DEF IInv, Claimed, MessagesSound

-----------------------------------------------------------------------------
(* Administrators *)

LEMMA RowStepKeeps ==
  ASSUME IInv, UNCHANGED <<agentVars, agent, request, faults>>, QueueTypeOK', Grown,
         \A o \in Ops : operations[o].status # "none" =>
           operations'[o].status = operations[o].status,
         \A o \in Ops : operations[o].status = "none" =>
           \/ operations'[o] = operations[o]
           \/ /\ operations'[o].status = "queued" /\ operations'[o].owner \in Instances
              /\ operations'[o].source \in Pools /\ operations'[o].target \in Pools
              /\ operations'[o].source # operations'[o].target,
         \A c \in Cleanups : previewed'[c] # None =>
           previewed'[c] \in Migrations /\ operations[previewed'[c]].status # "none",
         ProvisionedFirst', OneMigrationPerInstance'
  PROVE  IInv'
  <1>1. TypeOK' /\ Fits'
    BY DEF IInv, TypeOK, Fits, agentVars, helperVars
  <1>2. RowsSound'
    <2>1. \A o \in Ops : RowSound(o)'
      BY DEF IInv, RowsSound, RowSound, Grown, SameRequest, agentVars, helperVars
    <2>2. \A c \in Cleanups : previewed'[c] # None => operations'[previewed'[c]].status # "none"
      BY OpsTyped DEF Grown
    <2> QED BY <2>1, <2>2 DEF RowsSound
  <1>3. \A i : Overturned(i) => Overturned(i)'
    BY OverturnedStays DEF IInv, agentVars, helperVars
  <1>4. \A o \in Ops : operations[o].status # "none" => (IsActive(o) => IsActive(o)') /\ (IsFinal(o) => IsFinal(o)')
    BY DEF IsActive, IsFinal
  <1>5. MessagesSound'
    <2>1. \A o \in Ops : IsActive(o) \/ IsFinal(o) => operations[o].status # "none"
      BY DEF IsActive, IsFinal, ActiveStates, FinalStates
    <2>2. /\ agent.message.cmd \in Ops \cup {None} /\ request.message.cmd \in Ops \cup {None}
          /\ request.message.report.op \in Ops \cup {None}
      BY DEF IInv, TypeOK, Message, Report
    <2>3. Answered(agent.message.state)' /\ Answered(request.message.state)'
      BY <1>4, <2>1 DEF IInv, MessagesSound, Answered
    <2> QED BY <1>4, <2>1, <2>2, <2>3 DEF IInv, MessagesSound, Grown
  <1>6. OneLockHolder'
    BY ExecutorHasRow DEF IInv, OneLockHolder, Locking, Grown, SameRequest, agentVars, helperVars
  <1>7. CopiesSafe'
    BY <1>3, ExecutorHasRow, OpsTyped DEF IInv, CopiesSafe, Grown, SameRequest, agentVars, helperVars
  <1>8. FilesKept'
    BY <1>4, ExecutorHasRow DEF IInv, FilesKept, agentVars, helperVars
  <1>9. DataKeptUnlessMislaid'
    BY <1>3 DEF IInv, DataKeptUnlessMislaid, agentVars, helperVars
  <1>10. ClaimsTrue'
    <2> SUFFICES ASSUME NEW m \in Migrations, Claimed(m)' PROVE Moved(m)'
      BY DEF ClaimsTrue
    <2>1. Claimed(m)
      BY ExecutorHasRow, OpsTyped DEF IInv, RowsSound, RowSound, Claimed, agentVars, helperVars
    <2>2. Moved(m) /\ operations[m].status # "none"
      BY <2>1, ClaimedHasRow DEF IInv, ClaimsTrue
    <2> QED BY <2>2, <1>3, MovedStays DEF IInv, agentVars, helperVars
  <1> QED BY <1>1, <1>2, <1>5, <1>6, <1>7, <1>8, <1>9, <1>10 DEF IInv

LEMMA InsertGrows ==
  ASSUME QueueTypeOK, NEW o \in Ops, NEW row \in Operation, Insert(o, row)
  PROVE  /\ operations' \in [Ops -> Operation]
         /\ operations[o].status = "none"
         /\ operations'[o].status = row.status /\ operations'[o].instance = row.instance
         /\ operations'[o].owner = row.owner
         /\ operations'[o].source = row.source /\ operations'[o].target = row.target
         /\ \A d \in Ops : d # o => operations'[d] = operations[d]
         /\ Grown
  <1>1. PICK now \in 0 .. MaxClock : operations' = [operations EXCEPT ![o] = [row EXCEPT !.created = now]]
    BY DEF Insert
  <1>2. operations[o].status = "none"
    BY DEF Insert, NoOperation
  <1> QED BY <1>1, <1>2 DEF QueueTypeOK, Operation, Grown, SameRequest, IsFinal

MigrationRow(i, s, p) ==
  [NoOperation EXCEPT !.status = "queued", !.instance = i, !.owner = i, !.source = s, !.target = p]
CleanupRow(migration, i, m) == [migration EXCEPT !.status = "queued", !.instance = i, !.of = m]

LEMMA MigrationRowTyped ==
  ASSUME NEW i \in Instances, NEW s \in Pools, NEW p \in Pools
  PROVE  LET row == MigrationRow(i, s, p)
         IN  /\ row \in Operation /\ row.status = "queued" /\ row.instance = i /\ row.owner = i
             /\ row.source = s /\ row.target = p
  <1>1. NoOperation \in Operation
    BY StorageAssumption DEF Operation, NoOperation
  <1>2. MigrationRow(i, s, p) \in Operation
    BY <1>1 DEF MigrationRow, Operation, ActiveStates
  <1> QED BY <1>2 DEF MigrationRow, NoOperation

LEMMA CleanupRowTyped ==
  ASSUME NEW migration \in Operation, NEW i \in Instances, NEW m \in Migrations
  PROVE  LET row == CleanupRow(migration, i, m)
         IN  /\ row \in Operation /\ row.status = "queued" /\ row.owner = migration.owner
             /\ row.source = migration.source /\ row.target = migration.target
  BY DEF CleanupRow, Operation, ActiveStates

LEMMA UserStepKeeps == IInv /\ UserStep => IInv'
  <1> SUFFICES ASSUME IInv, UserStep PROVE IInv'
    OBVIOUS
  <1> USE DEF UserStep
  <1>1. QueueTypeOK
    BY DEF IInv, TypeOK
  <1>2. agent' = agent /\ request' = request /\ record' = record
    BY DEF agentVars, helperVars
  <1>3. ASSUME NEW i \in Instances, NEW p \in Pools, EnqueueProvisioning(i, p) PROVE IInv'
    <2>1. /\ UNCHANGED <<live, operations, metadata, previewed>>
          /\ provisioning' = [provisioning EXCEPT ![i] = [status |-> "active", pool |-> p]]
          /\ provisioning[i].status = "none"
      BY <1>3 DEF EnqueueProvisioning
    <2>2. QueueTypeOK'
      BY <1>1, <2>1 DEF QueueTypeOK, ProvisioningStates
    <2>3. ProvisionedFirst'
      BY <1>1, <1>2, <2>1 DEF QueueTypeOK, IInv, ProvisionedFirst, Unseen
    <2>4. Grown /\ OneMigrationPerInstance'
      BY <2>1 DEF Grown, SameRequest, IsFinal, IInv, OneMigrationPerInstance, IsActive
    <2> QED BY <2>1, <2>2, <2>3, <2>4, RowStepKeeps, <1>1 DEF IInv, RowsSound, QueueTypeOK
  <1>4. ASSUME NEW i \in Instances, NEW m \in Migrations, NEW p \in Pools, EnqueueMigration(i, m, p) PROVE IInv'
    <2> DEFINE row == MigrationRow(i, metadata.pool[i], p)
    <2>1. /\ UNCHANGED <<live, provisioning, metadata, previewed>>
          /\ metadata.pool[i] \notin {None, p} /\ Insert(m, row)
          /\ \A d \in Migrations : operations[d].instance = i => ~IsActive(d)
      BY <1>4 DEF EnqueueMigration, MigrationRow
    <2>2. metadata.pool[i] \in Pools
      BY <1>1, <2>1 DEF QueueTypeOK, Telemetry
    <2>3. /\ row \in Operation /\ row.status = "queued" /\ row.instance = i /\ row.owner = i
          /\ row.source = metadata.pool[i] /\ row.target = p
      BY <2>2, MigrationRowTyped
    <2> HIDE DEF row
    <2>4. /\ operations' \in [Ops -> Operation] /\ Grown /\ operations[m].status = "none"
          /\ operations'[m].status = "queued" /\ operations'[m].instance = i /\ operations'[m].owner = i
          /\ operations'[m].source = metadata.pool[i] /\ operations'[m].target = p
          /\ \A d \in Ops : d # m => operations'[d] = operations[d]
      BY <1>1, <2>1, <2>3, InsertGrows, OpsTyped
    <2>5. QueueTypeOK'
      BY <1>1, <2>1, <2>4 DEF QueueTypeOK
    <2>6. ProvisionedFirst'
      <3>1. provisioning[i].status \notin {"none", "active"}
        BY <2>1 DEF IInv, ProvisionedFirst, Unseen
      <3> QED BY <1>2, <2>1, <2>4, <3>1 DEF IInv, ProvisionedFirst, Unseen
    <2>7. OneMigrationPerInstance'
      BY <2>1, <2>4, OpsTyped DEF IInv, OneMigrationPerInstance, IsActive
    <2> QED BY <1>1, <2>1, <2>2, <2>4, <2>5, <2>6, <2>7, RowStepKeeps DEF IInv, RowsSound, QueueTypeOK
  <1>5. ASSUME NEW c \in Cleanups, InsertCleanup(c) PROVE IInv'
    <2> DEFINE m == previewed[c]
               i == operations[m].owner
               row == CleanupRow(operations[m], i, m)
    <2>1. /\ m # None /\ UNCHANGED <<live, provisioning, metadata>>
          /\ previewed' = [previewed EXCEPT ![c] = None]
          /\ (i \in live /\ Insert(c, row)) \/ operations' = operations
      BY <1>5 DEF InsertCleanup, CleanupRow
    <2>2. m \in Migrations /\ operations[m].status # "none"
      BY <1>1, <2>1 DEF QueueTypeOK, IInv, RowsSound
    <2>3. \A d \in Cleanups : previewed'[d] # None => previewed'[d] \in Migrations /\ operations[previewed'[d]].status # "none"
      BY <1>1, <2>1 DEF QueueTypeOK, IInv, RowsSound
    <2>4. previewed' \in [Cleanups -> Migrations \cup {None}]
      BY <1>1, <2>1 DEF QueueTypeOK
    <2>5. CASE operations' = operations
      <3>1. QueueTypeOK' /\ Grown /\ OneMigrationPerInstance'
        BY <1>1, <2>1, <2>4, <2>5 DEF QueueTypeOK, Grown, SameRequest, IsFinal, IInv, OneMigrationPerInstance, IsActive
      <3>2. ProvisionedFirst'
        BY <1>2, <2>1, <2>5 DEF IInv, ProvisionedFirst, Unseen
      <3> QED BY <2>3, <2>5, <3>1, <3>2, RowStepKeeps
    <2>6. CASE i \in live /\ Insert(c, row)
      <3>1. /\ row \in Operation /\ row.status = "queued" /\ row.owner = i
            /\ row.source = operations[m].source /\ row.target = operations[m].target
        <4>1. operations[m] \in Operation /\ i \in Instances
          BY <1>1, <2>2, <2>6, OpsTyped DEF QueueTypeOK
        <4> QED BY <2>2, <4>1, CleanupRowTyped
      <3>2. /\ i \in Instances /\ row.source \in Pools /\ row.target \in Pools /\ row.source # row.target
        BY <2>2, <3>1, OpsTyped DEF IInv, RowsSound, RowSound
      <3> HIDE DEF row
      <3>3. /\ operations' \in [Ops -> Operation] /\ Grown /\ operations[c].status = "none"
            /\ operations'[c].status = "queued" /\ operations'[c].owner = i
            /\ operations'[c].source = row.source /\ operations'[c].target = row.target
            /\ \A d \in Ops : d # c => operations'[d] = operations[d]
        BY <1>1, <2>6, <3>1, InsertGrows, OpsTyped
      <3>4. QueueTypeOK'
        BY <1>1, <2>1, <2>4, <3>3 DEF QueueTypeOK
      <3>5. ProvisionedFirst'
        <4>1. provisioning[i].status \notin {"none", "active"}
          BY <2>2, <3>2, OpsTyped DEF IInv, ProvisionedFirst, Unseen
        <4> QED BY <1>2, <2>1, <3>3, <4>1 DEF IInv, ProvisionedFirst, Unseen
      <3>6. OneMigrationPerInstance'
        BY <3>3, OpsTyped DEF IInv, OneMigrationPerInstance, IsActive
      <3> QED BY <2>3, <3>2, <3>3, <3>4, <3>5, <3>6, RowStepKeeps
    <2> QED BY <2>1, <2>5, <2>6
  <1>6. ASSUME NEW c \in Cleanups, NEW m \in Migrations, PreviewCleanup(c, m) PROVE IInv'
    <2>1. /\ UNCHANGED <<live, operations, provisioning, metadata>>
          /\ previewed' = [previewed EXCEPT ![c] = m] /\ operations[m].status = "completed"
      BY <1>6 DEF PreviewCleanup
    <2>2. QueueTypeOK' /\ Grown /\ OneMigrationPerInstance'
      BY <1>1, <2>1 DEF QueueTypeOK, Grown, SameRequest, IsFinal, IInv, OneMigrationPerInstance, IsActive
    <2>3. ProvisionedFirst'
      BY <1>2, <2>1 DEF IInv, ProvisionedFirst, Unseen
    <2>4. \A d \in Cleanups : previewed'[d] # None => previewed'[d] \in Migrations /\ operations[previewed'[d]].status # "none"
      BY <1>1, <2>1 DEF QueueTypeOK, IInv, RowsSound
    <2> QED BY <2>1, <2>2, <2>3, <2>4, RowStepKeeps
  <1>7. ASSUME NEW i \in Instances, DeleteInstance(i) PROVE IInv'
    <2>1. /\ UNCHANGED <<metadata, previewed>> /\ live' = live \ {i}
          /\ provisioning' = [provisioning EXCEPT ![i] = [status |-> "done", pool |-> None]]
          /\ operations' = [o \in Ops |-> IF operations[o].instance = i THEN [operations[o] EXCEPT !.instance = None]
                                          ELSE operations[o]]
      BY <1>7 DEF DeleteInstance
    <2>2. /\ operations' \in [Ops -> Operation]
          /\ \A o \in Ops : /\ SameRequest(o) /\ operations'[o].status = operations[o].status
                            /\ operations'[o].instance \in {operations[o].instance, None}
                            /\ operations'[o].owner = operations[o].owner
                            /\ operations[o].status = "none" => operations'[o] = operations[o]
      <3>1. \A o \in Ops : operations[o] \in Operation
        BY <1>1 DEF QueueTypeOK
      <3>2. \A o \in Ops : [operations[o] EXCEPT !.instance = None] \in Operation
        BY <3>1 DEF Operation
      <3>3. \A o \in Ops : operations[o].status = "none" => operations[o].instance = None
        BY DEF IInv, RowsSound, RowSound, NoOperation
      <3> QED BY <2>1, <3>1, <3>2, <3>3, OpsTyped DEF Operation, SameRequest
    <2>3. QueueTypeOK'
      BY <1>1, <2>1, <2>2 DEF QueueTypeOK, ProvisioningStates
    <2>4. Grown /\ OneMigrationPerInstance'
      BY <2>2, OpsTyped DEF Grown, IsFinal, IInv, OneMigrationPerInstance, IsActive
    <2>5. ProvisionedFirst'
      BY <1>1, <1>2, <2>1, <2>2 DEF QueueTypeOK, IInv, ProvisionedFirst, Unseen
    <2> QED BY <1>1, <2>1, <2>2, <2>3, <2>4, <2>5, RowStepKeeps DEF IInv, RowsSound, QueueTypeOK
  <1> QED BY <1>3, <1>4, <1>5, <1>6, <1>7

-----------------------------------------------------------------------------
(* Executors *)

LEMMA WriteTyped ==
  ASSUME TypeOK, NEW o \in Ops, NEW status \in {"running"} \cup FinalStates, Write(o, status)
  PROVE  /\ results' \in [Ops -> {"none", "running"} \cup FinalStates] /\ newer' \in [Ops -> SUBSET Ops]
         /\ results'[o] = status /\ \A d \in Ops : d # o => results'[d] = results[d]
  BY DEF Write, TypeOK

LEMMA SpendTyped ==
  ASSUME TypeOK, Spend("losses", MaxLosses) \/ Spend("crashes", MaxCrashes)
  PROVE  faults' \in [crashes : 0 .. MaxCrashes, losses : 0 .. MaxLosses]
  BY StorageFaultAssumption DEF Spend, TypeOK

LEMMA ExecutorKeeps ==
  ASSUME IInv, UNCHANGED <<queueVars, agent, request>>, TypeOK', Fits',
         \A o \in Ops : executors'[o] # "none" \/ results'[o] # "none" => operations[o].status # "none",
         \A i \in Instances : provisioning[i].status \in {"none", "active"} => record'[i] = None,
         OneLockHolder', CopiesSafe', FilesKept', DataKeptUnlessMislaid', ClaimsTrue'
  PROVE  IInv'
  <1>1. /\ operations' = operations /\ provisioning' = provisioning
        /\ metadata' = metadata /\ previewed' = previewed
    BY DEF queueVars
  <1>2. RowsSound'
    BY <1>1 DEF IInv, RowsSound, RowSound
  <1>3. ProvisionedFirst'
    BY <1>1 DEF IInv, ProvisionedFirst, Unseen
  <1>4. MessagesSound'
    BY <1>1 DEF IInv, MessagesSound, Answered, IsFinal, IsActive
  <1>5. OneMigrationPerInstance'
    BY <1>1 DEF IInv, OneMigrationPerInstance, IsActive
  <1> QED BY <1>2, <1>3, <1>4, <1>5 DEF IInv

\* Steps that neither move nor register the instance, and that leave the lock.
LEMMA LeaveKeeps ==
  ASSUME IInv, UNCHANGED <<queueVars, agent, request, record, dirs, astray>>, TypeOK',
         NEW o \in Ops, executors[o] \notin {"none", "overturned"},
         NEW pc \in {"none", "undoing"}, executors' = [executors EXCEPT ![o] = pc],
         \/ results' = results
         \/ \E status \in {"running"} \cup FinalStates :
              Write(o, status) /\ (o \in Migrations => status # "completed")
  PROVE  IInv'
  <1>1. TypeOK /\ RowsSound /\ operations[o].status # "none"
    BY ExecutorHasRow DEF IInv
  <1>2. /\ executors'[o] = pc /\ \A d \in Ops : d # o => executors'[d] = executors[d]
    BY <1>1 DEF TypeOK
  <1>3. /\ \A d \in Ops : d # o => results'[d] = results[d]
        /\ \/ results'[o] = results[o]
           \/ results'[o] \in {"running"} \cup FinalStates /\ (o \in Migrations => results'[o] # "completed")
    BY <1>1, WriteTyped
  <1>4. operations' = operations /\ Grown
    BY DEF queueVars, Grown, SameRequest, IsFinal
  <1>5. \A i : Overturned(i) => Overturned(i)'
    BY <1>1, <1>2, <1>4, OverturnedStays, OpsTyped
  <1>6. Fits' /\ \A d \in Ops : executors'[d] # "none" \/ results'[d] # "none" => operations[d].status # "none"
    BY <1>1, <1>2, <1>3, ExecutorHasRow DEF IInv, Fits
  <1>7. OneLockHolder'
    BY <1>2, <1>4 DEF IInv, OneLockHolder, Locking
  <1>8. CopiesSafe'
    BY <1>2, <1>4, <1>5, OpsTyped DEF IInv, CopiesSafe
  <1>9. FilesKept'
    BY <1>2, <1>3, <1>4 DEF IInv, FilesKept, IsFinal, FinalStates
  <1>10. DataKeptUnlessMislaid'
    BY <1>5 DEF IInv, DataKeptUnlessMislaid
  <1>11. ClaimsTrue'
    <2> SUFFICES ASSUME NEW m \in Migrations, Claimed(m)' PROVE Moved(m)'
      BY DEF ClaimsTrue
    <2>1. Claimed(m)
      BY <1>2, <1>3, <1>4, OpsTyped DEF Claimed
    <2> QED BY <2>1, <1>1, <1>4, <1>5, ClaimedHasRow, MovedStays DEF IInv, ClaimsTrue
  <1>12. \A i \in Instances : provisioning[i].status \in {"none", "active"} => record'[i] = None
    BY DEF IInv, ProvisionedFirst, Unseen
  <1> QED BY <1>6, <1>7, <1>8, <1>9, <1>10, <1>11, <1>12, ExecutorKeeps

\* A copy arrives where there was none, and only if there is room.
LEMMA LandGrows ==
  ASSUME TypeOK, Fits, NEW i \in Instances, NEW p \in Pools, Land(i, p)
  PROVE  /\ Fits' /\ dirs' \in [Pools -> SUBSET Instances]
         /\ i \in dirs'[p] /\ \A q \in Pools : dirs[q] \subseteq dirs'[q]
  <1>1. /\ i \notin dirs[p] /\ Cardinality(dirs[p]) < Capacity
        /\ dirs' = [dirs EXCEPT ![p] = @ \cup {i}]
    BY DEF Land
  <1>2. IsFiniteSet(dirs[p]) /\ Cardinality(dirs[p]) \in Nat
    BY SpaceCounted
  <1>3. Cardinality(dirs[p] \cup {i}) = Cardinality(dirs[p]) + 1
    BY <1>1, <1>2, FS_AddElement
  <1>4. Cardinality(dirs[p] \cup {i}) <= Capacity
    BY <1>1, <1>2, <1>3, StorageAssumption
  <1> QED BY <1>1, <1>4 DEF Fits, TypeOK

\* An executor goes on with a copy that is in its target pool, or is noted not to be.
LEMMA TakeCopyKeeps ==
  ASSUME IInv, UNCHANGED <<queueVars, agent, request>>, NEW m \in Migrations, Copies(m), TakeCopy(m),
         helper' \in [Instances -> Pools \cup {None}],
         astray \subseteq astray', astray' \subseteq Instances,
         Fits', dirs' \in [Pools -> SUBSET Instances], \A q \in Pools : dirs[q] \subseteq dirs'[q],
         operations[m].owner \in astray' \/ operations[m].owner \in dirs'[operations[m].target]
  PROVE  IInv'
  <1> DEFINE i == operations[m].owner
  <1>1. /\ executors[m] = "staged" /\ Unlocked(i)
        /\ record[i] = operations[m].source
        /\ Write(m, "running") /\ Read(m)
        /\ executors' = [executors EXCEPT ![m] = "acted"]
        /\ UNCHANGED <<record, faults>>
    BY DEF Copies, TakeCopy
  <1>2. /\ TypeOK /\ RowsSound /\ m \in Ops /\ operations' = operations /\ provisioning' = provisioning
        /\ operations[m].status # "none" /\ i \in Instances
    BY <1>1, ExecutorHasRow, OpsTyped DEF IInv, queueVars
  <1>3. /\ results' \in [Ops -> {"none", "running"} \cup FinalStates] /\ newer' \in [Ops -> SUBSET Ops]
        /\ results'[m] = "running" /\ \A d \in Ops : d # m => results'[d] = results[d]
    BY <1>1, <1>2, WriteTyped
  <1>4. executors'[m] = "acted" /\ \A d \in Ops : d # m => executors'[d] = executors[d]
    BY <1>1, <1>2 DEF TypeOK
  <1>5. TypeOK'
    <2>1. held' \in [Migrations -> Pools \cup {None}]
      BY <1>1, <1>2 DEF Read, TypeOK
    <2> QED BY <1>1, <1>2, <1>3, <2>1 DEF TypeOK, QueueTypeOK, queueVars, ExecutorStates
  <1>6. Grown /\ \A d \in Ops : executors'[d] # "none" \/ results'[d] # "none" => operations[d].status # "none"
    BY <1>2, <1>3, <1>4, ExecutorHasRow DEF Grown, SameRequest, IsFinal
  <1>7. \A j : Overturned(j) => Overturned(j)'
    BY <1>1, <1>2, <1>4, <1>6, OverturnedStays, OpsTyped
  <1>8. OneLockHolder'
    BY <1>1, <1>2, <1>4 DEF IInv, OneLockHolder, Locking, Unlocked
  <1>9. CopiesSafe'
    <2> SUFFICES ASSUME NEW d \in Migrations, executors'[d] = "acted"
                 PROVE  /\ operations[d].owner \in astray' \/ operations[d].owner \in dirs'[operations[d].target]
                        /\ ~Overturned(operations[d].owner)' => record[operations[d].owner] = operations[d].source
      BY <1>1, <1>2 DEF CopiesSafe
    <2>1. CASE d = m
      BY <1>1, <2>1
    <2>2. CASE d # m
      <3>1. executors[d] = "acted" /\ operations[d].target \in Pools
        BY <1>2, <1>4, <2>2, ExecutorHasRow, OpsTyped
      <3> QED BY <1>1, <1>2, <1>7, <3>1 DEF IInv, CopiesSafe
    <2> QED BY <2>1, <2>2
  <1>10. FilesKept'
    BY <1>2, <1>3, <1>4 DEF IInv, FilesKept, IsFinal
  <1>11. DataKeptUnlessMislaid'
    BY <1>1, <1>2, <1>7 DEF IInv, DataKeptUnlessMislaid, TypeOK
  <1>12. ClaimsTrue'
    <2> SUFFICES ASSUME NEW d \in Migrations, Claimed(d)' PROVE Moved(d)'
      BY DEF ClaimsTrue
    <2>1. Claimed(d)
      BY <1>2, <1>3, <1>4, OpsTyped DEF Claimed
    <2> QED BY <2>1, <1>1, <1>2, <1>6, <1>7, ClaimedHasRow, MovedStays DEF IInv, ClaimsTrue
  <1>13. \A j \in Instances : provisioning[j].status \in {"none", "active"} => record'[j] = None
    BY <1>1 DEF IInv, ProvisionedFirst, Unseen
  <1> QED BY <1>5, <1>6, <1>8, <1>9, <1>10, <1>11, <1>12, <1>13, ExecutorKeeps

LEMMA CopyTreeKeeps ==
  ASSUME IInv, UNCHANGED <<queueVars, agent, request>>, NEW m \in Migrations, CopyTree(m)
  PROVE  IInv'
  <1>1. /\ Copies(m) /\ Land(operations[m].owner, operations[m].target) /\ TakeCopy(m)
        /\ UNCHANGED <<helper, astray>> /\ executors[m] = "staged"
    BY DEF CopyTree, Copyable, Copies, helperVars
  <1>2. TypeOK /\ Fits /\ operations[m].owner \in Instances /\ operations[m].target \in Pools
    BY <1>1, ExecutorHasRow, OpsTyped DEF IInv
  <1>3. helper' \in [Instances -> Pools \cup {None}] /\ astray' \subseteq Instances
    BY <1>1, <1>2 DEF TypeOK
  <1> QED BY <1>1, <1>2, <1>3, LandGrows, TakeCopyKeeps

LEMMA JoinCopyKeeps ==
  ASSUME IInv, UNCHANGED <<queueVars, agent, request>>, NEW m \in Migrations, JoinCopy(m)
  PROVE  IInv'
  <1> DEFINE i == operations[m].owner
  <1>1. /\ Copies(m) /\ EndCopy(i) /\ Land(i, helper[i]) /\ TakeCopy(m) /\ executors[m] = "staged"
        /\ astray' = IF helper[i] = operations[m].target THEN astray ELSE astray \cup {i}
    BY DEF JoinCopy, Copies
  <1>2. TypeOK /\ Fits /\ i \in Instances /\ helper[i] \in Pools
    BY <1>1, ExecutorHasRow, OpsTyped DEF IInv, EndCopy, TypeOK
  <1>3. helper' \in [Instances -> Pools \cup {None}] /\ astray \subseteq astray' /\ astray' \subseteq Instances
    BY <1>1, <1>2 DEF EndCopy, TypeOK
  <1>4. /\ Fits' /\ dirs' \in [Pools -> SUBSET Instances]
        /\ i \in dirs'[helper[i]] /\ \A q \in Pools : dirs[q] \subseteq dirs'[q]
    BY <1>1, <1>2, LandGrows
  <1>5. i \in astray' \/ i \in dirs'[operations[m].target]
    BY <1>1, <1>4
  <1> QED BY <1>1, <1>3, <1>4, <1>5, TakeCopyKeeps

LEMMA CommitMigrationKeeps ==
  ASSUME IInv, UNCHANGED <<queueVars, agent, request>>, NEW m \in Migrations, CommitMigration(m)
  PROVE  IInv'
  <1> DEFINE i == operations[m].owner
             p == operations[m].target
  <1>1. /\ executors[m] = "acted"
        /\ record' = [record EXCEPT ![i] = p]
        /\ Write(m, "completed")
        /\ executors' = [executors EXCEPT ![m] = "announced"]
        /\ UNCHANGED <<dirs, held, helper, astray, faults>>
    BY DEF CommitMigration, helperVars
  <1>2. /\ TypeOK /\ RowsSound /\ m \in Ops /\ operations' = operations /\ provisioning' = provisioning
        /\ operations[m].status # "none" /\ i \in Instances /\ p \in Pools
    BY <1>1, ExecutorHasRow, OpsTyped DEF IInv, queueVars
  <1>3. /\ results' \in [Ops -> {"none", "running"} \cup FinalStates] /\ newer' \in [Ops -> SUBSET Ops]
        /\ results'[m] = "completed" /\ \A d \in Ops : d # m => results'[d] = results[d]
    BY <1>1, <1>2, WriteTyped DEF FinalStates
  <1>4. /\ executors'[m] = "announced" /\ \A d \in Ops : d # m => executors'[d] = executors[d]
        /\ record'[i] = p /\ \A j \in Instances : j # i => record'[j] = record[j]
    BY <1>1, <1>2 DEF TypeOK
  <1>5. TypeOK' /\ Fits'
    BY <1>1, <1>2, <1>3 DEF IInv, Fits, TypeOK, QueueTypeOK, queueVars, ExecutorStates
  <1>6. Grown /\ \A d \in Ops : executors'[d] # "none" \/ results'[d] # "none" => operations[d].status # "none"
    BY <1>2, <1>3, <1>4, ExecutorHasRow DEF Grown, SameRequest, IsFinal
  <1>7. \A j : Overturned(j) => Overturned(j)'
    BY <1>1, <1>2, <1>4, <1>6, OverturnedStays, OpsTyped
  <1>8. \A d \in Ops : Locking(d) /\ operations[d].owner = i => d = m
    BY <1>1, <1>2 DEF IInv, OneLockHolder, Locking
  <1>9. OneLockHolder'
    BY <1>1, <1>2, <1>4 DEF IInv, OneLockHolder, Locking
  <1>10. CopiesSafe'
    <2> SUFFICES ASSUME NEW d \in Migrations, executors'[d] = "acted"
                 PROVE  /\ operations[d].owner \in astray' \/ operations[d].owner \in dirs[operations[d].target]
                        /\ ~Overturned(operations[d].owner)' => record'[operations[d].owner] = operations[d].source
      BY <1>1, <1>2 DEF CopiesSafe
    <2>1. executors[d] = "acted" /\ d # m
      BY <1>4, OpsTyped
    <2>2. operations[d].owner # i /\ operations[d].owner \in Instances
      BY <1>2, <1>8, <2>1, ExecutorHasRow, OpsTyped DEF Locking
    <2> QED BY <1>1, <1>2, <1>4, <1>7, <2>1, <2>2 DEF IInv, CopiesSafe
  <1>11. FilesKept'
    BY <1>2, <1>3, <1>4 DEF IInv, FilesKept, IsFinal
  <1>12. (i \in astray \/ i \in dirs[p]) /\ (~Overturned(i) => record[i] = operations[m].source)
    BY <1>1 DEF IInv, CopiesSafe
  <1>13. DataKeptUnlessMislaid'
    BY <1>1, <1>2, <1>4, <1>7, <1>12 DEF IInv, DataKeptUnlessMislaid
  <1>14. ClaimsTrue'
    <2> SUFFICES ASSUME NEW d \in Migrations, Claimed(d)' PROVE Moved(d)'
      BY DEF ClaimsTrue
    <2>1. CASE d = m
      BY <1>2, <1>4, <2>1 DEF Moved
    <2>2. CASE d # m
      <3>1. Claimed(d) /\ Moved(d) /\ operations[d].status # "none"
        <4>1. Claimed(d)
          BY <1>2, <1>3, <1>4, <2>2, OpsTyped DEF Claimed
        <4> QED BY <4>1, ClaimedHasRow DEF IInv, ClaimsTrue
      <3>2. CASE operations[d].owner # i
        <4>1. operations[d].owner \in Instances
          BY <1>2, <3>1, OpsTyped DEF RowsSound, RowSound
        <4> QED BY <1>2, <1>4, <1>6, <1>7, <3>1, <3>2, <4>1, MovedStays
      <3>3. CASE operations[d].owner = i /\ Overturned(i)
        BY <1>2, <1>7, <3>3 DEF Moved
      <3>4. CASE operations[d].owner = i /\ ~Overturned(i) /\ record[i] = operations[d].target
        BY <1>2, <1>12, <3>4 DEF Moved
      <3>5. CASE operations[d].owner = i /\ ~Overturned(i) /\ record[i] # operations[d].target
        <4>1. record[i] # None
          BY <1>2, <1>12, <3>5, OpsTyped DEF RowsSound, RowSound
        <4>2. \E e \in Migrations : operations[e].owner = i /\ operations[e].source = operations[d].target
          BY <3>1, <3>5, <4>1 DEF Moved
        <4> QED BY <1>2, <3>5, <4>2 DEF Moved
      <3> QED BY <3>2, <3>3, <3>4, <3>5
    <2> QED BY <2>1, <2>2
  <1>15. \A j \in Instances : provisioning[j].status \in {"none", "active"} => record'[j] = None
    BY <1>2, <1>4 DEF IInv, ProvisionedFirst, Unseen
  <1> QED BY <1>5, <1>6, <1>9, <1>10, <1>11, <1>13, <1>14, <1>15, ExecutorKeeps

\* A roll-back that registers another pool than the present one is the exception.
LEMMA UndoMigrationKeeps ==
  ASSUME IInv, UNCHANGED <<queueVars, agent, request>>, NEW m \in Migrations, UndoMigration(m)
  PROVE  IInv'
  <1> DEFINE i == operations[m].owner
             pc == IF record[i] = held[m] THEN "none" ELSE "overturned"
  <1>1. /\ executors[m] = "undoing"
        /\ record' = [record EXCEPT ![i] = held[m]]
        /\ Write(m, "failed")
        /\ executors' = [executors EXCEPT ![m] = pc]
        /\ Forget(m) /\ UNCHANGED <<dirs, helper, astray, faults>>
    BY DEF UndoMigration, helperVars
  <1>2. /\ TypeOK /\ RowsSound /\ m \in Ops /\ operations' = operations /\ provisioning' = provisioning
        /\ operations[m].status # "none" /\ i \in Instances
    BY <1>1, ExecutorHasRow, OpsTyped DEF IInv, queueVars
  <1>3. /\ results' \in [Ops -> {"none", "running"} \cup FinalStates] /\ newer' \in [Ops -> SUBSET Ops]
        /\ results'[m] = "failed" /\ \A d \in Ops : d # m => results'[d] = results[d]
    BY <1>1, <1>2, WriteTyped DEF FinalStates
  <1>4. /\ executors'[m] = pc /\ \A d \in Ops : d # m => executors'[d] = executors[d]
        /\ record'[i] = held[m] /\ \A j \in Instances : j # i => record'[j] = record[j]
    BY <1>1, <1>2 DEF TypeOK
  <1>5. TypeOK' /\ Fits'
    <2>1. held' \in [Migrations -> Pools \cup {None}]
      BY <1>1, <1>2 DEF Forget, TypeOK
    <2> QED BY <1>1, <1>2, <1>3, <2>1 DEF IInv, Fits, TypeOK, QueueTypeOK, queueVars, ExecutorStates
  <1>6. Grown /\ \A d \in Ops : executors'[d] # "none" \/ results'[d] # "none" => operations[d].status # "none"
    BY <1>2, <1>3, <1>4, ExecutorHasRow DEF Grown, SameRequest, IsFinal
  <1>7. \A j : Overturned(j) => Overturned(j)'
    BY <1>1, <1>2, <1>4, <1>6, OverturnedStays, OpsTyped
  <1>8. Overturned(i)' \/ record'[i] = record[i]
    BY <1>2, <1>4 DEF Overturned
  <1>9. OneLockHolder'
    BY <1>2, <1>4 DEF IInv, OneLockHolder, Locking
  <1>10. CopiesSafe'
    <2> SUFFICES ASSUME NEW d \in Migrations, executors'[d] = "acted"
                 PROVE  /\ operations[d].owner \in astray' \/ operations[d].owner \in dirs[operations[d].target]
                        /\ ~Overturned(operations[d].owner)' => record'[operations[d].owner] = operations[d].source
      BY <1>1, <1>2 DEF CopiesSafe
    <2>1. executors[d] = "acted" /\ operations[d].owner \in Instances
      <3>1. executors[d] = "acted"
        BY <1>4, OpsTyped
      <3> QED BY <1>2, <3>1, ExecutorHasRow, OpsTyped
    <2> QED BY <1>1, <1>2, <1>4, <1>7, <1>8, <2>1 DEF IInv, CopiesSafe
  <1>11. FilesKept'
    BY <1>2, <1>3, <1>4 DEF IInv, FilesKept, IsFinal
  <1>12. DataKeptUnlessMislaid'
    BY <1>1, <1>2, <1>4, <1>7, <1>8 DEF IInv, DataKeptUnlessMislaid
  <1>13. ClaimsTrue'
    <2> SUFFICES ASSUME NEW d \in Migrations, Claimed(d)' PROVE Moved(d)'
      BY DEF ClaimsTrue
    <2>1. Claimed(d) /\ Moved(d) /\ operations[d].status # "none"
      <3>1. Claimed(d)
        BY <1>2, <1>3, <1>4, OpsTyped DEF Claimed
      <3> QED BY <3>1, ClaimedHasRow DEF IInv, ClaimsTrue
    <2>2. operations[d].owner \in Instances
      BY <1>2, <2>1, OpsTyped DEF RowsSound, RowSound
    <2>3. CASE operations[d].owner = i /\ Overturned(i)'
      BY <1>2, <2>3 DEF Moved
    <2>4. CASE record'[operations[d].owner] = record[operations[d].owner]
      BY <1>2, <1>6, <1>7, <2>1, <2>4, MovedStays
    <2> QED BY <1>4, <1>8, <2>2, <2>3, <2>4
  <1>14. \A j \in Instances : provisioning[j].status \in {"none", "active"} => record'[j] = None
    BY <1>2, <1>4 DEF IInv, ProvisionedFirst, Unseen
  <1> QED BY <1>5, <1>6, <1>9, <1>10, <1>11, <1>12, <1>13, <1>14, ExecutorKeeps

\* A directory goes only where the record does not lead.
LEMMA SmallerFits ==
  ASSUME TypeOK, Fits, dirs' \in [Pools -> SUBSET Instances], \A p \in Pools : dirs'[p] \subseteq dirs[p]
  PROVE  Fits'
  <1> SUFFICES ASSUME NEW p \in Pools PROVE Cardinality(dirs'[p]) <= Capacity
    BY DEF Fits
  <1>1. IsFiniteSet(dirs[p]) /\ Cardinality(dirs[p]) \in Nat /\ Cardinality(dirs[p]) <= Capacity
    BY SpaceCounted DEF Fits
  <1>2. IsFiniteSet(dirs'[p]) /\ Cardinality(dirs'[p]) <= Cardinality(dirs[p]) /\ Cardinality(dirs'[p]) \in Nat
    BY <1>1, FS_Subset, FS_CardinalityType
  <1> QED BY <1>1, <1>2, StorageAssumption

LEMMA DeleteCopyKeeps ==
  ASSUME IInv, UNCHANGED <<queueVars, agent, request>>, NEW c \in Cleanups, DeleteCopy(c)
  PROVE  IInv'
  <1> DEFINE i == operations[c].owner
             p == operations[c].source
  <1>1. /\ executors[c] = "staged" /\ Unlocked(i)
        /\ record[i] = operations[c].target
        /\ dirs' = [dirs EXCEPT ![p] = @ \ {i}]
        /\ Write(c, "running")
        /\ executors' = [executors EXCEPT ![c] = "acted"]
        /\ UNCHANGED <<record, held, helper, astray, faults>>
    BY DEF DeleteCopy, helperVars
  <1>2. /\ TypeOK /\ RowsSound /\ c \in Ops /\ c \notin Migrations
        /\ operations' = operations /\ provisioning' = provisioning
        /\ operations[c].status # "none" /\ i \in Instances /\ p \in Pools /\ record[i] # p
    BY <1>1, ExecutorHasRow, OpsTyped DEF IInv, queueVars, RowsSound, RowSound
  <1>3. /\ results' \in [Ops -> {"none", "running"} \cup FinalStates] /\ newer' \in [Ops -> SUBSET Ops]
        /\ results'[c] = "running" /\ \A d \in Ops : d # c => results'[d] = results[d]
    BY <1>1, <1>2, WriteTyped
  <1>4. /\ executors'[c] = "acted" /\ \A d \in Ops : d # c => executors'[d] = executors[d]
        /\ dirs' \in [Pools -> SUBSET Instances]
        /\ \A q \in Pools : /\ dirs'[q] \subseteq dirs[q]
                            /\ \A j : j \in dirs[q] /\ (q # p \/ j # i) => j \in dirs'[q]
    BY <1>1, <1>2 DEF TypeOK
  <1>5. TypeOK' /\ Fits'
    BY <1>1, <1>2, <1>3, <1>4, SmallerFits DEF IInv, TypeOK, QueueTypeOK, queueVars, ExecutorStates
  <1>6. Grown /\ \A d \in Ops : executors'[d] # "none" \/ results'[d] # "none" => operations[d].status # "none"
    BY <1>2, <1>3, <1>4, ExecutorHasRow DEF Grown, SameRequest, IsFinal
  <1>7. \A j : Overturned(j) => Overturned(j)'
    BY <1>1, <1>2, <1>4, <1>6, OverturnedStays, OpsTyped
  <1>8. OneLockHolder'
    BY <1>1, <1>2, <1>4 DEF IInv, OneLockHolder, Locking, Unlocked
  <1>9. CopiesSafe'
    <2> SUFFICES ASSUME NEW d \in Migrations, executors'[d] = "acted"
                 PROVE  /\ operations[d].owner \in astray' \/ operations[d].owner \in dirs'[operations[d].target]
                        /\ ~Overturned(operations[d].owner)' => record[operations[d].owner] = operations[d].source
      BY <1>1, <1>2 DEF CopiesSafe
    <2>1. executors[d] = "acted" /\ operations[d].owner # i
      BY <1>1, <1>2, <1>4, OpsTyped DEF Unlocked
    <2>2. operations[d].target \in Pools
      BY <1>2, <2>1, ExecutorHasRow, OpsTyped
    <2> QED BY <1>1, <1>2, <1>4, <1>7, <2>1, <2>2 DEF IInv, CopiesSafe
  <1>10. FilesKept'
    BY <1>2, <1>3, <1>4 DEF IInv, FilesKept, IsFinal
  <1>11. DataKeptUnlessMislaid'
    BY <1>1, <1>2, <1>4, <1>7 DEF IInv, DataKeptUnlessMislaid, TypeOK
  <1>12. ClaimsTrue'
    <2> SUFFICES ASSUME NEW d \in Migrations, Claimed(d)' PROVE Moved(d)'
      BY DEF ClaimsTrue
    <2>1. Claimed(d)
      BY <1>2, <1>3, <1>4, OpsTyped DEF Claimed
    <2> QED BY <2>1, <1>1, <1>2, <1>6, <1>7, ClaimedHasRow, MovedStays DEF IInv, ClaimsTrue
  <1>13. \A j \in Instances : provisioning[j].status \in {"none", "active"} => record'[j] = None
    BY <1>1 DEF IInv, ProvisionedFirst, Unseen
  <1> QED BY <1>5, <1>6, <1>8, <1>9, <1>10, <1>11, <1>12, <1>13, ExecutorKeeps

LEMMA ExecutorStepKeeps ==
  ASSUME IInv, NEW o \in Ops, ExecutorStep(o)
  PROVE  IInv'
  <1>1. UNCHANGED <<queueVars, agent, request>> /\ TypeOK
    BY DEF ExecutorStep, IInv
  <1>2. ASSUME o \in Migrations, CopyTree(o) \/ JoinCopy(o) PROVE IInv'
    BY <1>1, <1>2, CopyTreeKeeps, JoinCopyKeeps
  <1>3. ASSUME o \in Migrations, CommitMigration(o) PROVE IInv'
    BY <1>1, <1>3, CommitMigrationKeeps
  <1>4. ASSUME o \in Migrations, UndoMigration(o) PROVE IInv'
    BY <1>1, <1>4, UndoMigrationKeeps
  <1>5. ASSUME o \in Cleanups, DeleteCopy(o) PROVE IInv'
    BY <1>1, <1>5, DeleteCopyKeeps
  <1>6. ASSUME o \in Migrations, ExitMigration(o) \/ RejectMigration(o) \/ BreakMigration(o) PROVE IInv'
    <2>1. /\ UNCHANGED <<record, dirs, results, newer, helper, astray>> /\ executors[o] \notin {"none", "overturned"}
          /\ \E pc \in {"none", "undoing"} : executors' = [executors EXCEPT ![o] = pc]
      BY <1>6 DEF ExitMigration, RejectMigration, BreakMigration, helperVars
    <2>2. held' \in [Migrations -> Pools \cup {None}]
      <3>1. operations[o].owner \in Instances
        BY <2>1, ExecutorHasRow DEF IInv
      <3>2. held' = held \/ Forget(o) \/ Read(o)
        BY <1>6 DEF ExitMigration, RejectMigration, BreakMigration
      <3> QED BY <1>1, <3>1, <3>2 DEF TypeOK, Forget, Read
    <2>3. faults' \in [crashes : 0 .. MaxCrashes, losses : 0 .. MaxLosses]
      BY <1>1, <1>6, SpendTyped DEF ExitMigration, RejectMigration, BreakMigration, TypeOK
    <2>4. executors' \in [Ops -> ExecutorStates]
      BY <1>1, <2>1 DEF TypeOK, ExecutorStates
    <2>5. TypeOK'
      BY <1>1, <2>1, <2>2, <2>3, <2>4 DEF TypeOK, QueueTypeOK, queueVars
    <2> QED BY <1>1, <2>1, <2>5, LeaveKeeps
  <1>7. ASSUME (o \in Cleanups /\ ReportCleanup(o)) \/ Refuse(o) \/ DieUnreported(o) PROVE IInv'
    <2>1. /\ UNCHANGED <<record, dirs, held, helper, astray>> /\ executors[o] \notin {"none", "overturned"}
          /\ executors' = [executors EXCEPT ![o] = "none"]
      BY <1>7 DEF ReportCleanup, Refuse, DieUnreported, helperVars
    <2>2. \/ results' = results /\ newer' = newer
          \/ \E status \in {"running"} \cup FinalStates :
               Write(o, status) /\ (o \in Migrations => status # "completed")
      BY <1>7, OpsTyped DEF ReportCleanup, Refuse, DieUnreported, FinalStates
    <2>3. results' \in [Ops -> {"none", "running"} \cup FinalStates] /\ newer' \in [Ops -> SUBSET Ops]
      BY <1>1, <2>2, WriteTyped DEF TypeOK
    <2>4. faults' \in [crashes : 0 .. MaxCrashes, losses : 0 .. MaxLosses]
      BY <1>1, <1>7, SpendTyped DEF ReportCleanup, Refuse, DieUnreported, TypeOK
    <2>5. executors' \in [Ops -> ExecutorStates]
      BY <1>1, <2>1 DEF TypeOK, ExecutorStates
    <2>6. TypeOK'
      BY <1>1, <2>1, <2>3, <2>4, <2>5 DEF TypeOK, QueueTypeOK, queueVars
    <2> QED BY <1>1, <2>1, <2>2, <2>6, LeaveKeeps
  <1>8. ASSUME o \in Migrations, AbandonCopy(o) \/ UndoFails(o) PROVE IInv'
    <2> DEFINE i == operations[o].owner
    <2>1. /\ executors[o] \notin {"none", "overturned"} /\ UNCHANGED <<record, dirs, astray>>
          /\ faults' = faults \/ Spend("losses", MaxLosses)
          /\ \/ Write(o, "running") /\ executors' = [executors EXCEPT ![o] = "undoing"]
             \/ Write(o, "failed") /\ executors' = [executors EXCEPT ![o] = "none"]
      BY <1>8 DEF AbandonCopy, Copyable, Copies, UndoFails, helperVars
    <2>2. i \in Instances /\ operations[o].target \in Pools
      BY <2>1, ExecutorHasRow DEF IInv
    <2>3. /\ held' \in [Migrations -> Pools \cup {None}]
          /\ helper' \in [Instances -> Pools \cup {None}]
      <3>1. held' = [held EXCEPT ![o] = record[i]] \/ held' = [held EXCEPT ![o] = None]
        BY <1>8 DEF AbandonCopy, UndoFails, Read, Forget
      <3>2. helper' = [helper EXCEPT ![i] = operations[o].target] \/ helper' = helper
        BY <1>8 DEF AbandonCopy, UndoFails, helperVars
      <3> QED BY <1>1, <2>2, <3>1, <3>2 DEF TypeOK
    <2>4. results' \in [Ops -> {"none", "running"} \cup FinalStates] /\ newer' \in [Ops -> SUBSET Ops]
      BY <1>1, <2>1, WriteTyped DEF FinalStates
    <2>5. faults' \in [crashes : 0 .. MaxCrashes, losses : 0 .. MaxLosses]
      BY <1>1, <2>1, SpendTyped DEF TypeOK
    <2>6. executors' \in [Ops -> ExecutorStates]
      BY <1>1, <2>1 DEF TypeOK, ExecutorStates
    <2>7. TypeOK'
      BY <1>1, <2>1, <2>3, <2>4, <2>5, <2>6 DEF TypeOK, QueueTypeOK, queueVars
    <2> QED BY <1>1, <2>1, <2>7, LeaveKeeps DEF FinalStates
  <1> QED BY <1>2, <1>3, <1>4, <1>5, <1>6, <1>7, <1>8 DEF ExecutorStep

LEMMA RemoveInstanceKeeps ==
  ASSUME IInv, NEW i \in Instances, RemoveInstance(i)
  PROVE  IInv'
  <1>1. /\ record[i] # None /\ Unlocked(i)
        /\ record' = [record EXCEPT ![i] = None]
        /\ dirs' = [dirs EXCEPT ![record[i]] = @ \ {i}]
        /\ UNCHANGED <<queueVars, results, newer, executors, held, helper, astray, agent, request, faults>>
    BY DEF RemoveInstance, helperVars
  <1>2. TypeOK /\ RowsSound /\ operations' = operations /\ provisioning' = provisioning /\ Grown
    BY <1>1 DEF IInv, queueVars, Grown, SameRequest, IsFinal
  <1>3. /\ record' \in [Instances -> Pools \cup {None}] /\ dirs' \in [Pools -> SUBSET Instances]
        /\ record'[i] = None /\ \A j \in Instances : j # i => record'[j] = record[j]
        /\ \A q \in Pools : /\ dirs'[q] \subseteq dirs[q]
                            /\ \A j : j \in dirs[q] /\ j # i => j \in dirs'[q]
    BY <1>1, <1>2 DEF TypeOK
  <1>4. TypeOK' /\ Fits'
    BY <1>1, <1>2, <1>3, SmallerFits DEF IInv, TypeOK, QueueTypeOK, queueVars
  <1>5. \A j : Overturned(j) => Overturned(j)'
    BY <1>1, <1>2 DEF Overturned
  <1>6. \A d \in Ops : executors'[d] # "none" \/ results'[d] # "none" => operations[d].status # "none"
    BY <1>1, <1>2, ExecutorHasRow
  <1>7. OneLockHolder' /\ FilesKept'
    BY <1>1, <1>2 DEF IInv, OneLockHolder, Locking, FilesKept, IsFinal
  <1>8. CopiesSafe'
    <2> SUFFICES ASSUME NEW d \in Migrations, executors[d] = "acted"
                 PROVE  /\ operations[d].owner \in astray' \/ operations[d].owner \in dirs'[operations[d].target]
                        /\ ~Overturned(operations[d].owner)' => record'[operations[d].owner] = operations[d].source
      BY <1>1, <1>2 DEF CopiesSafe
    <2>1. operations[d].owner # i
      BY <1>1, OpsTyped DEF Unlocked
    <2>2. operations[d].target \in Pools /\ operations[d].owner \in Instances
      BY <1>2, ExecutorHasRow, OpsTyped
    <2> QED BY <1>1, <1>2, <1>3, <1>5, <2>1, <2>2 DEF IInv, CopiesSafe
  <1>9. DataKeptUnlessMislaid'
    BY <1>1, <1>2, <1>3, <1>5 DEF IInv, DataKeptUnlessMislaid, TypeOK
  <1>10. ClaimsTrue'
    <2> SUFFICES ASSUME NEW d \in Migrations, Claimed(d)' PROVE Moved(d)'
      BY DEF ClaimsTrue
    <2>1. Claimed(d) /\ Moved(d) /\ operations[d].status # "none"
      <3>1. Claimed(d)
        BY <1>1, <1>2 DEF Claimed
      <3> QED BY <3>1, ClaimedHasRow DEF IInv, ClaimsTrue
    <2>2. operations[d].owner \in Instances
      BY <1>2, <2>1, OpsTyped DEF RowsSound, RowSound
    <2> QED BY <1>2, <1>3, <1>5, <2>1, <2>2, MovedStays
  <1>11. \A j \in Instances : provisioning[j].status \in {"none", "active"} => record'[j] = None
    BY <1>3 DEF IInv, ProvisionedFirst, Unseen
  <1> QED BY <1>1, <1>4, <1>6, <1>7, <1>8, <1>9, <1>10, <1>11, ExecutorKeeps

\* A copy that nobody waits for adds a directory; at most the record goes.
LEMMA LateCopyKeeps ==
  ASSUME IInv, NEW i \in Instances, RemoveMisled(i) \/ LateCopy(i)
  PROVE  IInv'
  <1>1. /\ EndCopy(i) /\ (Land(i, helper[i]) \/ UNCHANGED dirs)
        /\ record' = record \/ (Unlocked(i) /\ record' = [record EXCEPT ![i] = None])
        /\ UNCHANGED <<queueVars, results, newer, executors, held, astray, agent, request, faults>>
    BY DEF RemoveMisled, LateCopy
  <1>2. TypeOK /\ RowsSound /\ operations' = operations /\ provisioning' = provisioning /\ Grown /\ Fits
    BY <1>1 DEF IInv, queueVars, Grown, SameRequest, IsFinal
  <1>3. helper[i] \in Pools /\ helper' \in [Instances -> Pools \cup {None}]
    BY <1>1, <1>2 DEF EndCopy, TypeOK
  <1>4. Fits' /\ dirs' \in [Pools -> SUBSET Instances] /\ \A q \in Pools : dirs[q] \subseteq dirs'[q]
    <2>1. CASE UNCHANGED dirs
      BY <1>2, <2>1 DEF Fits, TypeOK
    <2>2. CASE Land(i, helper[i])
      BY <1>2, <1>3, <2>2, LandGrows
    <2> QED BY <1>1, <2>1, <2>2
  <1>5. /\ record' \in [Instances -> Pools \cup {None}]
        /\ record'[i] \in {record[i], None} /\ \A j \in Instances : j # i => record'[j] = record[j]
    BY <1>1, <1>2 DEF TypeOK
  <1>6. TypeOK'
    BY <1>1, <1>2, <1>3, <1>4, <1>5 DEF TypeOK, QueueTypeOK, queueVars
  <1>7. \A j : Overturned(j) => Overturned(j)'
    BY <1>1, <1>2 DEF Overturned
  <1>8. \A d \in Ops : executors'[d] # "none" \/ results'[d] # "none" => operations[d].status # "none"
    BY <1>1, <1>2, ExecutorHasRow
  <1>9. OneLockHolder' /\ FilesKept'
    BY <1>1, <1>2 DEF IInv, OneLockHolder, Locking, FilesKept, IsFinal
  <1>10. CopiesSafe'
    <2> SUFFICES ASSUME NEW d \in Migrations, executors[d] = "acted"
                 PROVE  /\ operations[d].owner \in astray' \/ operations[d].owner \in dirs'[operations[d].target]
                        /\ ~Overturned(operations[d].owner)' => record'[operations[d].owner] = operations[d].source
      BY <1>1, <1>2 DEF CopiesSafe
    <2>1. operations[d].target \in Pools /\ operations[d].owner \in Instances
      BY <1>2, ExecutorHasRow, OpsTyped
    <2>2. record'[operations[d].owner] = record[operations[d].owner]
      BY <1>1, <1>5, <2>1, OpsTyped DEF Unlocked
    <2> QED BY <1>1, <1>2, <1>4, <1>7, <2>1, <2>2 DEF IInv, CopiesSafe
  <1>11. DataKeptUnlessMislaid'
    BY <1>1, <1>2, <1>4, <1>5, <1>7 DEF IInv, DataKeptUnlessMislaid, TypeOK
  <1>12. ClaimsTrue'
    <2> SUFFICES ASSUME NEW d \in Migrations, Claimed(d)' PROVE Moved(d)'
      BY DEF ClaimsTrue
    <2>1. Claimed(d) /\ Moved(d) /\ operations[d].status # "none"
      <3>1. Claimed(d)
        BY <1>1, <1>2 DEF Claimed
      <3> QED BY <3>1, ClaimedHasRow DEF IInv, ClaimsTrue
    <2>2. operations[d].owner \in Instances
      BY <1>2, <2>1, OpsTyped DEF RowsSound, RowSound
    <2> QED BY <1>2, <1>5, <1>7, <2>1, <2>2, MovedStays
  <1>13. \A j \in Instances : provisioning[j].status \in {"none", "active"} => record'[j] = None
    BY <1>5 DEF IInv, ProvisionedFirst, Unseen
  <1> QED BY <1>1, <1>4, <1>6, <1>8, <1>9, <1>10, <1>11, <1>12, <1>13, ExecutorKeeps

\* No operation concerns an instance that its provisioning has yet to materialize.
LEMMA RunProvisioningKeeps ==
  ASSUME IInv, NEW i \in Instances, RunProvisioning(i)
  PROVE  IInv'
  <1> DEFINE p == provisioning[i].pool
  <1>1. /\ provisioning[i].status = "active"
        /\ provisioning' = [provisioning EXCEPT ![i].status = "ran"]
        /\ \/ /\ Cardinality(dirs[p]) < Capacity
              /\ dirs' = [dirs EXCEPT ![p] = @ \cup {i}] /\ record' = [record EXCEPT ![i] = p]
           \/ dirs' = dirs /\ record' = record
        /\ UNCHANGED <<live, operations, metadata, previewed, results, newer, executors, held>>
        /\ UNCHANGED <<helper, astray, agent, request, faults>>
    BY DEF RunProvisioning, helperVars
  <1>2. /\ TypeOK /\ RowsSound /\ Grown /\ p \in Pools /\ record[i] = None
        /\ \A o \in Ops : operations[o].owner # i
    BY <1>1 DEF IInv, Grown, SameRequest, IsFinal, ProvisionedFirst, Unseen
  <1>3. /\ dirs' \in [Pools -> SUBSET Instances] /\ record' \in [Instances -> Pools \cup {None}]
        /\ \A q \in Pools : dirs[q] \subseteq dirs'[q]
        /\ \A j \in Instances : j # i => record'[j] = record[j]
        /\ record'[i] # None => record'[i] = p /\ i \in dirs'[p]
    BY <1>1, <1>2 DEF TypeOK
  <1>4. provisioning' \in [Instances -> [status : ProvisioningStates, pool : Pools \cup {None}]]
        /\ provisioning'[i].status = "ran"
        /\ \A j \in Instances : j # i => provisioning'[j] = provisioning[j]
    BY <1>1, <1>2 DEF TypeOK, QueueTypeOK, ProvisioningStates
  <1>5. TypeOK'
    BY <1>1, <1>2, <1>3, <1>4 DEF TypeOK, QueueTypeOK
  <1>6. Fits'
    <2>1. CASE dirs' = dirs
      BY <2>1 DEF IInv, Fits
    <2>2. CASE Cardinality(dirs[p]) < Capacity /\ dirs' = [dirs EXCEPT ![p] = @ \cup {i}]
      <3>1. IsFiniteSet(dirs[p]) /\ Cardinality(dirs[p]) \in Nat
        BY <1>2, SpaceCounted
      <3>2. Cardinality(dirs[p] \cup {i}) \in {Cardinality(dirs[p]), Cardinality(dirs[p]) + 1}
        BY <3>1, FS_AddElement
      <3>3. Cardinality(dirs[p] \cup {i}) <= Capacity
        BY <2>2, <3>1, <3>2, StorageAssumption
      <3> QED BY <1>2, <2>2, <3>3 DEF IInv, Fits, TypeOK
    <2> QED BY <1>1, <2>1, <2>2
  <1>7. \A j : Overturned(j) <=> Overturned(j)'
    BY <1>1 DEF Overturned
  <1>8. RowsSound' /\ OneLockHolder' /\ FilesKept' /\ OneMigrationPerInstance'
    BY <1>1 DEF IInv, RowsSound, RowSound, OneLockHolder, Locking, FilesKept, IsFinal, OneMigrationPerInstance, IsActive
  <1>9. MessagesSound'
    BY <1>1 DEF IInv, MessagesSound, Answered, IsFinal, IsActive
  <1>10. ProvisionedFirst'
    BY <1>1, <1>3, <1>4 DEF IInv, ProvisionedFirst, Unseen
  <1>11. CopiesSafe'
    <2> SUFFICES ASSUME NEW d \in Migrations, executors[d] = "acted"
                 PROVE  /\ operations[d].owner \in astray' \/ operations[d].owner \in dirs'[operations[d].target]
                        /\ ~Overturned(operations[d].owner)' => record'[operations[d].owner] = operations[d].source
      BY <1>1 DEF CopiesSafe
    <2>1. operations[d].target \in Pools /\ operations[d].owner \in Instances \ {i}
      BY <1>2, ExecutorHasRow, OpsTyped
    <2> QED BY <1>1, <1>3, <1>7, <2>1 DEF IInv, CopiesSafe
  <1>12. DataKeptUnlessMislaid'
    BY <1>1, <1>2, <1>3, <1>7 DEF IInv, DataKeptUnlessMislaid, TypeOK
  <1>13. ClaimsTrue'
    <2> SUFFICES ASSUME NEW d \in Migrations, Claimed(d)' PROVE Moved(d)'
      BY DEF ClaimsTrue
    <2>1. Claimed(d) /\ Moved(d) /\ operations[d].status # "none"
      <3>1. Claimed(d)
        BY <1>1 DEF Claimed
      <3> QED BY <3>1, ClaimedHasRow DEF IInv, ClaimsTrue
    <2>2. operations[d].owner \in Instances \ {i}
      BY <1>2, <2>1, OpsTyped DEF RowsSound, RowSound
    <2> QED BY <1>2, <1>3, <1>7, <2>1, <2>2, MovedStays
  <1> QED BY <1>5, <1>6, <1>8, <1>9, <1>10, <1>11, <1>12, <1>13 DEF IInv

-----------------------------------------------------------------------------
(* The heartbeat *)

\* A message is answered truthfully, and what it says was in the files.
Told(m) == request.message.report.op = m /\ request.message.report.status = "completed"

\* Steps of messages: neither the queue's rows nor anything of an instance changes.
LEMMA MessageKeeps ==
  ASSUME IInv, UNCHANGED <<live, operations, previewed, agentVars>>, TypeOK',
         MessagesSound', ProvisionedFirst',
         \A m \in Migrations : Told(m)' => Told(m) \/ results[m] = "completed"
  PROVE  IInv'
  <1>1. UNCHANGED <<operations, previewed, record, dirs, results, executors, astray>>
    BY DEF agentVars, helperVars
  <1>2. \A j : Overturned(j) <=> Overturned(j)'
    BY <1>1 DEF Overturned
  <1>3. RowsSound' /\ OneLockHolder' /\ FilesKept' /\ OneMigrationPerInstance' /\ Fits'
    BY <1>1 DEF IInv, RowsSound, RowSound, OneLockHolder, Locking, FilesKept, IsFinal,
                OneMigrationPerInstance, IsActive, Fits
  <1>4. CopiesSafe' /\ DataKeptUnlessMislaid'
    BY <1>1, <1>2 DEF IInv, CopiesSafe, DataKeptUnlessMislaid
  <1>5. ClaimsTrue'
    <2> SUFFICES ASSUME NEW m \in Migrations, Claimed(m)' PROVE Moved(m)'
      BY DEF ClaimsTrue
    <2>1. Claimed(m)
      BY <1>1 DEF Claimed, Told
    <2> QED BY <1>1, <1>2, <2>1 DEF IInv, ClaimsTrue, Moved
  <1> QED BY <1>3, <1>4, <1>5 DEF IInv

LEMMA ProvisionedFirstKept ==
  ASSUME IInv, UNCHANGED <<operations, provisioning, metadata, record>>,
         \A i \in Instances :
           /\ agent'.message.telemetry.pool[i] \in {agent.message.telemetry.pool[i], record[i], None}
           /\ request'.message.telemetry.pool[i] \in {request.message.telemetry.pool[i],
                                                      agent.message.telemetry.pool[i], None}
  PROVE  ProvisionedFirst'
  BY DEF IInv, ProvisionedFirst, Unseen

LEMMA DaemonKeeps ==
  ASSUME IInv, SampleTelemetry \/ SendHeartbeat \/ Receive
  PROVE  IInv'
  <1>1. TypeOK /\ UNCHANGED <<queueVars, agentVars, faults>>
    BY DEF IInv, SampleTelemetry, SendHeartbeat, Receive
  <1>2. UNCHANGED <<live, operations, provisioning, metadata, previewed, record, results>>
    BY <1>1 DEF queueVars, agentVars, helperVars
  <1>3. /\ agent.message \in Message /\ request.message \in Message
        /\ agent.message.telemetry \in Telemetry /\ request.message.telemetry \in Telemetry
    BY <1>1 DEF TypeOK, Message
  <1>4. \A j \in Instances : Blank.telemetry.pool[j] = None
    BY BlankSound
  <1>5. ASSUME SampleTelemetry PROVE IInv'
    <2>1. /\ request.pc = "free" /\ request' = request
          /\ agent' = [pc |-> "sampled", message |-> [Blank EXCEPT !.telemetry = Sample]]
      BY <1>5 DEF SampleTelemetry, Hold
    <2>2. /\ agent'.message \in Message /\ agent'.message.telemetry.pool = record
          /\ agent'.message.cmd = None /\ agent'.message.state = NoReport /\ agent'.pc = "sampled"
      BY <1>1, <2>1, BlankSound, SampleTyped DEF Message, IInv
    <2>3. TypeOK'
      BY <1>1, <2>1, <2>2 DEF TypeOK, QueueTypeOK, queueVars, agentVars, helperVars, AgentPC
    <2>4. MessagesSound'
      BY <1>2, <2>1, <2>2, BlankSound DEF IInv, MessagesSound, Answered, IsFinal, IsActive
    <2>5. ProvisionedFirst'
      BY <1>2, <2>1, <2>2, ProvisionedFirstKept
    <2> QED BY <1>1, <1>2, <2>1, <2>3, <2>4, <2>5, MessageKeeps DEF Told
  <1>6. ASSUME SendHeartbeat PROVE IInv'
    <2>1. PICK told \in Newest :
            request' = [pc |-> "store", awaited |-> TRUE,
                        message |-> [agent.message EXCEPT !.report = told,
                                                          !.ran = {i \in Instances : provisioning[i].status = "ran"}]]
      BY <1>6 DEF SendHeartbeat
    <2>2. agent.pc = "sampled" /\ agent' = [pc |-> "waiting", message |-> Blank]
      BY <1>6 DEF SendHeartbeat, Hold
    <2>3. /\ told \in Report
          /\ told.op # None => /\ told.op \in Ops /\ told.status = results[told.op]
                               /\ told.status \in {"running"} \cup FinalStates
      BY <1>1, BlankSound DEF Newest, Report, TypeOK, ActiveStates, FinalStates
    <2>4. /\ request'.message \in Message /\ request'.message.telemetry = agent.message.telemetry
          /\ request'.message.report = told /\ request'.message.state = agent.message.state
          /\ request'.message.cmd = agent.message.cmd /\ request'.pc = "store"
      BY <1>3, <2>1, <2>3 DEF Message
    <2>5. TypeOK'
      BY <1>1, <2>1, <2>2, <2>4, BlankSound DEF TypeOK, QueueTypeOK, queueVars, agentVars, helperVars, AgentPC, RequestPC
    <2>6. MessagesSound'
      <3>1. agent.message.cmd = None /\ Answered(agent.message.state)
        BY <2>2 DEF IInv, MessagesSound
      <3>2. told.op # None => operations[told.op].status # "none"
        BY <2>3, ExecutorHasRow DEF IInv, FinalStates
      <3> QED BY <1>2, <2>2, <2>3, <2>4, <3>1, <3>2, BlankSound
             DEF MessagesSound, Answered, IsFinal, IsActive
    <2>7. ProvisionedFirst'
      BY <1>2, <1>4, <2>2, <2>4, ProvisionedFirstKept
    <2>8. \A m \in Migrations : Told(m)' => results[m] = "completed"
      BY <2>3, <2>4, OpsTyped DEF Told
    <2> QED BY <1>1, <1>2, <2>5, <2>6, <2>7, <2>8, MessageKeeps
  <1>7. ASSUME Receive PROVE IInv'
    <2>1. /\ request' = [pc |-> "free", message |-> Blank, awaited |-> FALSE]
          /\ \/ agent' = [pc |-> "stage", message |-> [Blank EXCEPT !.state = request.message.state,
                                                                    !.cmd = request.message.cmd]]
             \/ agent' = [pc |-> "idle", message |-> Blank]
      BY <1>7 DEF Receive, Hold, Drop
    <2>2. request.message.state \in Report /\ request.message.cmd \in Ops \cup {None}
      BY <1>3 DEF Message
    <2>3. /\ agent'.message \in Message /\ agent'.message.telemetry = Blank.telemetry
          /\ \/ /\ agent'.message.state = request.message.state /\ agent'.message.cmd = request.message.cmd
                /\ agent'.pc = "stage"
             \/ agent'.message.state = NoReport /\ agent'.message.cmd = None /\ agent'.pc = "idle"
      <3>1. CASE agent' = [pc |-> "idle", message |-> Blank]
        BY <3>1, BlankSound
      <3>2. CASE agent'.message = [Blank EXCEPT !.state = request.message.state, !.cmd = request.message.cmd]
                 /\ agent'.pc = "stage"
        BY <2>2, <3>2, BlankSound DEF Message
      <3> QED BY <2>1, <3>1, <3>2
    <2>4. TypeOK'
      BY <1>1, <2>1, <2>3, BlankSound DEF TypeOK, QueueTypeOK, queueVars, agentVars, helperVars, AgentPC, RequestPC
    <2>5. MessagesSound'
      BY <1>2, <2>1, <2>3, BlankSound DEF IInv, MessagesSound, Answered, IsFinal, IsActive
    <2>6. ProvisionedFirst'
      BY <1>2, <1>4, <2>1, <2>3, ProvisionedFirstKept
    <2>7. \A m \in Migrations : ~Told(m)'
      BY <2>1, BlankSound, OpsTyped DEF Told
    <2> QED BY <1>1, <1>2, <2>4, <2>5, <2>6, <2>7, MessageKeeps
  <1> QED BY <1>5, <1>6, <1>7

\* Steps that stage executors or remove result files.
LEMMA FileStepKeeps ==
  ASSUME IInv, UNCHANGED <<queueVars, record, dirs, held, helper, astray, request, faults>>, TypeOK', MessagesSound',
         \A o \in Ops : executors'[o] = executors[o] \/ (executors[o] = "none" /\ executors'[o] = "staged"),
         \A o \in Ops : results'[o] \in {results[o], "none", "running"},
         \A o \in Ops : executors'[o] # "none" \/ results'[o] # "none" => operations[o].status # "none",
         \A o \in Ops : executors'[o] # "none" => results'[o] # "none" \/ IsFinal(o),
         \A j \in Instances : agent'.message.telemetry.pool[j] \in {agent.message.telemetry.pool[j], None}
  PROVE  IInv'
  <1>1. UNCHANGED <<live, operations, provisioning, metadata, previewed, record, dirs, request>> /\ Grown /\ RowsSound
    BY DEF queueVars, Grown, SameRequest, IsFinal, IInv
  <1>2. \A j : Overturned(j) <=> Overturned(j)'
    BY <1>1, OpsTyped DEF Overturned
  <1>3. RowsSound' /\ OneLockHolder' /\ FilesKept' /\ OneMigrationPerInstance' /\ Fits'
    BY <1>1 DEF IInv, RowsSound, RowSound, OneLockHolder, Locking, FilesKept, IsFinal,
                OneMigrationPerInstance, IsActive, Fits
  <1>4. CopiesSafe'
    <2> SUFFICES ASSUME NEW d \in Migrations, executors'[d] = "acted"
                 PROVE  /\ operations[d].owner \in astray' \/ operations[d].owner \in dirs[operations[d].target]
                        /\ ~Overturned(operations[d].owner)' => record[operations[d].owner] = operations[d].source
      BY <1>1 DEF CopiesSafe
    <2>1. executors[d] = "acted"
      BY OpsTyped
    <2> QED BY <1>1, <1>2, <2>1 DEF IInv, CopiesSafe
  <1>5. DataKeptUnlessMislaid'
    BY <1>1, <1>2 DEF IInv, DataKeptUnlessMislaid
  <1>6. ClaimsTrue'
    <2> SUFFICES ASSUME NEW m \in Migrations, Claimed(m)' PROVE Moved(m)'
      BY DEF ClaimsTrue
    <2>1. Claimed(m)
      BY <1>1, OpsTyped DEF Claimed
    <2> QED BY <1>1, <1>2, <2>1 DEF IInv, ClaimsTrue, Moved
  <1>7. ProvisionedFirst'
    BY <1>1 DEF IInv, ProvisionedFirst, Unseen
  <1> QED BY <1>3, <1>4, <1>5, <1>6, <1>7 DEF IInv

LEMMA StageKeeps == IInv /\ Stage => IInv'
  <1> SUFFICES ASSUME IInv, Stage PROVE IInv'
    OBVIOUS
  <1> DEFINE o == agent.message.cmd
  <1>1. /\ agent.pc = "stage" /\ agent' = [pc |-> "clear", message |-> agent.message]
        /\ UNCHANGED <<queueVars, record, dirs, held, helper, astray, request, faults>>
        /\ \/ /\ o # None /\ results[o] = "none" /\ Write(o, "running")
              /\ executors' = [executors EXCEPT ![o] = "staged"]
           \/ UNCHANGED <<results, newer, executors>>
    BY DEF Stage, Hold, helperVars
  <1>2. TypeOK /\ RowsSound /\ FilesKept /\ UNCHANGED operations
    BY <1>1 DEF IInv, queueVars
  <1>3. MessagesSound'
    BY <1>1, <1>2 DEF IInv, MessagesSound, Answered, IsFinal, IsActive
  <1>4. agent'.message = agent.message /\ agent' \in [pc : AgentPC, message : Message]
    BY <1>1, <1>2 DEF TypeOK, AgentPC
  <1>5. CASE UNCHANGED <<results, newer, executors>>
    <2>1. TypeOK'
      BY <1>1, <1>2, <1>4, <1>5 DEF TypeOK, QueueTypeOK, queueVars
    <2> QED BY <1>1, <1>2, <1>3, <1>4, <1>5, <2>1, ExecutorHasRow, FileStepKeeps DEF FilesKept
  <1>6. CASE o # None /\ results[o] = "none" /\ Write(o, "running") /\ executors' = [executors EXCEPT ![o] = "staged"]
    <2>1. o \in Ops /\ IsActive(o)
      BY <1>2, <1>6 DEF TypeOK, Message, IInv, MessagesSound
    <2>2. executors[o] = "none" /\ operations[o].status # "none"
      BY <1>2, <1>6, <2>1 DEF FilesKept, IsActive, IsFinal, ActiveStates, FinalStates
    <2>3. /\ results' \in [Ops -> {"none", "running"} \cup FinalStates] /\ newer' \in [Ops -> SUBSET Ops]
          /\ results'[o] = "running" /\ \A d \in Ops : d # o => results'[d] = results[d]
      BY <1>2, <1>6, <2>1, WriteTyped
    <2>4. /\ executors'[o] = "staged" /\ \A d \in Ops : d # o => executors'[d] = executors[d]
          /\ executors' \in [Ops -> ExecutorStates]
      BY <1>2, <1>6, <2>1 DEF TypeOK, ExecutorStates
    <2>5. TypeOK'
      BY <1>1, <1>2, <1>4, <2>3, <2>4 DEF TypeOK, QueueTypeOK, queueVars
    <2>6. \A d \in Ops : executors'[d] # "none" \/ results'[d] # "none" => operations[d].status # "none"
      BY <1>2, <2>2, <2>3, <2>4, ExecutorHasRow
    <2>7. \A d \in Ops : executors'[d] # "none" => results'[d] # "none" \/ IsFinal(d)
      BY <1>2, <2>3, <2>4 DEF FilesKept
    <2> QED BY <1>1, <1>3, <1>4, <2>2, <2>3, <2>4, <2>5, <2>6, <2>7, FileStepKeeps
  <1> QED BY <1>1, <1>5, <1>6

LEMMA ClearKeeps == IInv /\ Clear => IInv'
  <1> SUFFICES ASSUME IInv, Clear PROVE IInv'
    OBVIOUS
  <1> DEFINE o == agent.message.state.op
  <1>1. /\ agent' = [pc |-> "idle", message |-> Blank]
        /\ UNCHANGED <<queueVars, record, dirs, executors, held, helper, astray, request, faults>>
        /\ \/ agent.message.state.status \in FinalStates /\ Remove(o)
           \/ UNCHANGED <<results, newer>>
    BY DEF Clear, Drop, Hold, helperVars
  <1>2. TypeOK /\ RowsSound /\ FilesKept /\ UNCHANGED operations
    BY <1>1 DEF IInv, queueVars
  <1>3. MessagesSound'
    BY <1>1, <1>2, BlankSound DEF IInv, MessagesSound, Answered, IsFinal, IsActive
  <1>4. /\ agent' \in [pc : AgentPC, message : Message]
        /\ \A j \in Instances : agent'.message.telemetry.pool[j] = None
    BY <1>1, BlankSound DEF AgentPC
  <1>5. CASE UNCHANGED <<results, newer>>
    <2>1. TypeOK'
      BY <1>1, <1>2, <1>4, <1>5 DEF TypeOK, QueueTypeOK, queueVars
    <2> QED BY <1>1, <1>2, <1>3, <1>4, <1>5, <2>1, ExecutorHasRow, FileStepKeeps DEF FilesKept
  <1>6. CASE agent.message.state.status \in FinalStates /\ Remove(o)
    <2>1. o \in Ops /\ IsFinal(o)
      BY <1>6 DEF IInv, MessagesSound, Answered
    <2>2. /\ results' \in [Ops -> {"none", "running"} \cup FinalStates] /\ newer' \in [Ops -> SUBSET Ops]
          /\ results'[o] = "none" /\ \A d \in Ops : d # o => results'[d] = results[d]
      BY <1>2, <1>6, <2>1 DEF Remove, TypeOK
    <2>3. TypeOK'
      BY <1>1, <1>2, <1>4, <2>2 DEF TypeOK, QueueTypeOK, queueVars
    <2>4. \A d \in Ops : executors'[d] # "none" \/ results'[d] # "none" => operations[d].status # "none"
      BY <1>1, <1>2, <2>1, <2>2, ExecutorHasRow
    <2>5. \A d \in Ops : executors'[d] # "none" => results'[d] # "none" \/ IsFinal(d)
      BY <1>1, <1>2, <2>1, <2>2 DEF FilesKept
    <2> QED BY <1>1, <1>3, <1>4, <2>2, <2>3, <2>4, <2>5, FileStepKeeps
  <1> QED BY <1>1, <1>5, <1>6

\* Steps of the Controller's thread that change what the rows say of their operations.
LEMMA StatusKeeps ==
  ASSUME IInv, UNCHANGED <<live, provisioning, metadata, previewed, agentVars, agent>>, TypeOK', MessagesSound',
         \A o \in Ops :
           /\ SameRequest(o) /\ operations'[o].instance = operations[o].instance
           /\ operations[o].status = "none" => operations'[o] = operations[o]
           /\ operations[o].status # "none" => operations'[o].status # "none"
           /\ IsFinal(o) => operations'[o].status = operations[o].status
           /\ operations'[o].status = "completed" => operations[o].status = "completed" \/ Told(o),
         request'.message.telemetry = request.message.telemetry,
         request'.message.report = request.message.report
  PROVE  IInv'
  <1>1. UNCHANGED <<record, dirs, results, executors, astray>> /\ RowsSound
    BY DEF agentVars, helperVars, IInv
  <1>2. Grown
    BY DEF Grown, IsFinal
  <1>3. \A j : Overturned(j) => Overturned(j)'
    BY <1>1, <1>2, OverturnedStays
  <1>4. RowsSound'
    <2>1. \A o \in Ops : RowSound(o)'
      BY <1>1 DEF RowsSound, RowSound, SameRequest
    <2>2. \A c \in Cleanups : previewed[c] # None => operations'[previewed[c]].status # "none"
      BY <1>1, OpsTyped DEF IInv, TypeOK, QueueTypeOK, RowsSound
    <2> QED BY <2>1, <2>2 DEF RowsSound
  <1>5. ProvisionedFirst'
    BY <1>1 DEF IInv, ProvisionedFirst, Unseen, SameRequest
  <1>6. OneLockHolder' /\ FilesKept'
    BY <1>1 DEF IInv, OneLockHolder, Locking, FilesKept, SameRequest, IsFinal
  <1>7. CopiesSafe'
    <2> SUFFICES ASSUME NEW d \in Migrations, executors[d] = "acted"
                 PROVE  /\ operations'[d].owner \in astray' \/ operations'[d].owner \in dirs[operations'[d].target]
                        /\ ~Overturned(operations[d].owner)' => record[operations'[d].owner] = operations'[d].source
      BY <1>1 DEF CopiesSafe
    <2>1. SameRequest(d)
      BY OpsTyped
    <2> QED BY <1>1, <1>3, <2>1 DEF IInv, CopiesSafe, SameRequest
  <1>8. DataKeptUnlessMislaid' /\ Fits'
    BY <1>1, <1>3 DEF IInv, DataKeptUnlessMislaid, Fits
  <1>9. ClaimsTrue'
    <2> SUFFICES ASSUME NEW m \in Migrations, Claimed(m)' PROVE Moved(m)'
      BY DEF ClaimsTrue
    <2>1. Claimed(m)
      BY <1>1, OpsTyped DEF Claimed, Told
    <2> QED BY <1>1, <1>2, <1>3, <2>1, ClaimedHasRow, MovedStays DEF IInv, ClaimsTrue
  <1>10. OneMigrationPerInstance'
    <2>1. \A o \in Ops : IsActive(o)' => IsActive(o)
      BY DEF IInv, TypeOK, QueueTypeOK, Operation, IsActive, IsFinal, ActiveStates, FinalStates
    <2> QED BY <2>1, OpsTyped DEF IInv, OneMigrationPerInstance
  <1> QED BY <1>4, <1>5, <1>6, <1>7, <1>8, <1>9, <1>10 DEF IInv

LEMMA MarkTyped ==
  ASSUME QueueTypeOK, NEW o \in Ops, MarkDelivered(o)
  PROVE  /\ operations' \in [Ops -> Operation]
         /\ \A d \in Ops : /\ SameRequest(d) /\ operations'[d].instance = operations[d].instance
                           /\ \/ operations'[d] = operations[d]
                              \/ operations[d].status = "queued" /\ operations'[d].status = "delivered"
  <1>1. CASE operations[o].status = "queued"
    <2>1. operations' = [operations EXCEPT ![o] = [operations[o] EXCEPT !.status = "delivered"]]
      BY <1>1 DEF MarkDelivered
    <2>2. operations[o] \in Operation /\ [operations[o] EXCEPT !.status = "delivered"] \in Operation
      BY DEF QueueTypeOK, Operation, ActiveStates
    <2> QED BY <1>1, <2>1, <2>2 DEF QueueTypeOK, Operation, SameRequest
  <1>2. CASE operations[o].status # "queued"
    <2>1. operations' = [operations EXCEPT ![o] = [operations[o] EXCEPT !.status = operations[o].status]]
      BY <1>2 DEF MarkDelivered
    <2>2. operations[o] \in Operation /\ [operations[o] EXCEPT !.status = operations[o].status] = operations[o]
      BY DEF QueueTypeOK, Operation
    <2>3. operations' = operations
      BY <2>1, <2>2 DEF QueueTypeOK
    <2> QED BY <2>3 DEF QueueTypeOK, SameRequest
  <1> QED BY <1>1, <1>2

LEMMA HandlerKeeps == IInv /\ Handler => IInv'
  <1> SUFFICES ASSUME IInv, Handler PROVE IInv'
    OBVIOUS
  <1> DEFINE message == request.message
             told == message.report
  <1>1. TypeOK /\ RowsSound /\ UNCHANGED <<agentVars, agent, faults>>
    BY DEF Handler, IInv
  <1>2. UNCHANGED <<record, results>>
    BY <1>1 DEF agentVars, helperVars
  <1>3. /\ message \in Message /\ message.telemetry \in Telemetry /\ told \in Report
        /\ request \in [pc : RequestPC, message : Message, awaited : BOOLEAN]
        /\ told.op \in Ops \cup {None}
    BY <1>1 DEF TypeOK, Message, Report
  <1>4. \A pc \in RequestPC, m \in Message :
          Proceed(pc, m) => /\ request' \in [pc : RequestPC, message : Message, awaited : BOOLEAN]
                            /\ request'.pc = pc /\ request'.message = m
    BY <1>3 DEF Proceed
  <1>5. request.pc # "free" => agent.message.cmd = None
    BY DEF IInv, MessagesSound
  <1>6. ASSUME StoreMetadata PROVE IInv'
    <2>1. /\ request.pc = "store" /\ request'.pc = "record" /\ request'.message = message
          /\ request' \in [pc : RequestPC, message : Message, awaited : BOOLEAN]
          /\ metadata' = message.telemetry /\ UNCHANGED <<live, operations, provisioning, previewed>>
      BY <1>3, <1>4, <1>6 DEF StoreMetadata, RequestPC
    <2>2. TypeOK'
      BY <1>1, <1>3, <2>1 DEF TypeOK, QueueTypeOK, agentVars, helperVars
    <2>3. MessagesSound'
      BY <1>1, <2>1 DEF IInv, MessagesSound, Answered, IsFinal, IsActive
    <2>4. ProvisionedFirst'
      BY <1>1, <1>2, <2>1 DEF IInv, ProvisionedFirst, Unseen
    <2> QED BY <1>1, <2>1, <2>2, <2>3, <2>4, MessageKeeps DEF Told
  <1>7. ASSUME Pick PROVE IInv'
    <2>1. /\ request.pc = "pick" /\ UNCHANGED <<live, operations, provisioning, metadata, previewed>>
          /\ \/ Proceed("rest", message)
             \/ \E o \in Ops : Oldest(o) /\ Proceed("deliver", [message EXCEPT !.cmd = o])
      BY <1>7 DEF Pick, queueVars
    <2>2. /\ request' \in [pc : RequestPC, message : Message, awaited : BOOLEAN]
          /\ request'.message.telemetry = message.telemetry /\ request'.message.state = message.state
          /\ request'.message.report = told
          /\ \/ request'.pc = "rest" /\ request'.message.cmd = message.cmd
             \/ /\ request'.pc = "deliver" /\ request'.message.cmd \in Ops
                /\ IsActive(request'.message.cmd)
      <3>1. CASE Proceed("rest", message)
        BY <1>3, <1>4, <3>1 DEF RequestPC
      <3>2. ASSUME NEW o \in Ops, Oldest(o), Proceed("deliver", [message EXCEPT !.cmd = o])
            PROVE  /\ request' \in [pc : RequestPC, message : Message, awaited : BOOLEAN]
                   /\ request'.message.telemetry = message.telemetry /\ request'.message.state = message.state
                   /\ request'.message.report = told
                   /\ request'.pc = "deliver" /\ request'.message.cmd \in Ops /\ IsActive(request'.message.cmd)
        <4>1. /\ [message EXCEPT !.cmd = o] \in Message /\ [message EXCEPT !.cmd = o].telemetry = message.telemetry
              /\ [message EXCEPT !.cmd = o].state = message.state /\ [message EXCEPT !.cmd = o].report = told
              /\ [message EXCEPT !.cmd = o].cmd = o
          BY <1>3 DEF Message
        <4>2. IsActive(o)
          BY <3>2 DEF Oldest, Offered
        <4>3. request' = [request EXCEPT !.pc = "deliver", !.message = [message EXCEPT !.cmd = o]]
          BY <3>2 DEF Proceed
        <4>4. /\ request'.message = [message EXCEPT !.cmd = o] /\ request'.pc = "deliver"
              /\ request' \in [pc : RequestPC, message : Message, awaited : BOOLEAN]
          BY <1>3, <4>1, <4>3 DEF RequestPC
        <4> QED BY <4>1, <4>2, <4>4
      <3> QED BY <2>1, <3>1, <3>2
    <2>3. TypeOK'
      BY <1>1, <2>1, <2>2 DEF TypeOK, QueueTypeOK, agentVars, helperVars
    <2>4. MessagesSound'
      BY <1>1, <2>1, <2>2, OpsTyped DEF IInv, MessagesSound, Answered, IsFinal, IsActive
    <2>5. ProvisionedFirst'
      BY <1>1, <1>2, <2>1, <2>2 DEF IInv, ProvisionedFirst, Unseen
    <2> QED BY <1>1, <2>1, <2>2, <2>3, <2>4, <2>5, MessageKeeps DEF Told
  <1>8. ASSUME ServeRest PROVE IInv'
    <2>1. /\ request.pc = "rest" /\ request'.pc = "done" /\ request'.message = message
          /\ request' \in [pc : RequestPC, message : Message, awaited : BOOLEAN]
          /\ UNCHANGED <<live, operations, metadata, previewed>>
      BY <1>3, <1>4, <1>8 DEF ServeRest, RequestPC
    <2>2. /\ provisioning' \in [Instances -> [status : ProvisioningStates, pool : Pools \cup {None}]]
          /\ \A j \in Instances : provisioning'[j] = provisioning[j] \/ provisioning'[j].status = "done"
      BY <1>1, <1>8 DEF ServeRest, TypeOK, QueueTypeOK, ProvisioningStates
    <2>3. TypeOK'
      BY <1>1, <2>1, <2>2 DEF TypeOK, QueueTypeOK, agentVars, helperVars
    <2>4. MessagesSound'
      BY <1>1, <2>1 DEF IInv, MessagesSound, Answered, IsFinal, IsActive
    <2>5. ProvisionedFirst'
      BY <1>1, <1>2, <2>1, <2>2 DEF IInv, ProvisionedFirst, Unseen
    <2> QED BY <1>1, <2>1, <2>3, <2>4, <2>5, MessageKeeps DEF Told
  <1>9. ASSUME Deliver PROVE IInv'
    <2> DEFINE o == message.cmd
    <2>1. /\ request.pc = "deliver" /\ request'.pc = "rest" /\ request'.message = message
          /\ request' \in [pc : RequestPC, message : Message, awaited : BOOLEAN]
          /\ MarkDelivered(o) /\ UNCHANGED <<live, provisioning, metadata, previewed>>
      BY <1>3, <1>4, <1>9 DEF Deliver, RequestPC
    <2>2. o \in Ops
      BY <1>3, <2>1 DEF Message, IInv, MessagesSound
    <2>3. /\ operations' \in [Ops -> Operation]
          /\ \A d \in Ops : /\ SameRequest(d) /\ operations'[d].instance = operations[d].instance
                            /\ \/ operations'[d] = operations[d]
                               \/ operations[d].status = "queued" /\ operations'[d].status = "delivered"
      BY <1>1, <2>1, <2>2, MarkTyped DEF TypeOK
    <2>4. TypeOK'
      BY <1>1, <2>1, <2>3 DEF TypeOK, QueueTypeOK, agentVars, helperVars
    <2>5. \A d \in Ops : /\ IsActive(d) => IsActive(d)'
                         /\ IsFinal(d) => operations'[d].status = operations[d].status
                         /\ operations[d].status = "none" => operations'[d] = operations[d]
                         /\ operations[d].status # "none" => operations'[d].status # "none"
                         /\ operations'[d].status = "completed" => operations[d].status = "completed"
      BY <2>3 DEF IsActive, IsFinal, ActiveStates, FinalStates
    <2>6. MessagesSound'
      BY <1>1, <1>3, <1>5, <2>1, <2>2, <2>5 DEF IInv, MessagesSound, Answered, IsFinal
    <2> QED BY <1>1, <2>1, <2>3, <2>4, <2>5, <2>6, StatusKeeps
  <1>10. ASSUME Record, told.op = None \/ Mismatched(told.op) PROVE IInv'
    <2>1. /\ request.pc = "record" /\ request'.pc \in {"pick", "failed"} /\ request'.message = message
          /\ request' \in [pc : RequestPC, message : Message, awaited : BOOLEAN]
          /\ UNCHANGED <<live, operations, provisioning, metadata, previewed>>
      BY <1>3, <1>4, <1>10 DEF Record, RequestPC
    <2>2. TypeOK'
      BY <1>1, <2>1 DEF TypeOK, QueueTypeOK, agentVars, helperVars
    <2>3. MessagesSound'
      BY <1>1, <2>1 DEF IInv, MessagesSound, Answered, IsFinal, IsActive
    <2>4. ProvisionedFirst'
      BY <1>1, <1>2, <2>1 DEF IInv, ProvisionedFirst, Unseen
    <2> QED BY <1>1, <2>1, <2>2, <2>3, <2>4, MessageKeeps DEF Told
  <1>11. ASSUME Record, told.op # None, ~Mismatched(told.op) PROVE IInv'
    <2> DEFINE o == told.op
               state == [told EXCEPT !.status = operations'[o].status]
    <2>1. /\ request.pc = "record" /\ RecordResult(o, told.status)
          /\ Proceed("pick", [message EXCEPT !.state = state])
          /\ UNCHANGED <<live, provisioning, metadata, previewed>>
      BY <1>11 DEF Record
    <2>2. /\ o \in Ops /\ operations[o].status # "none" /\ told.status \in {"running"} \cup FinalStates
      BY <1>3, <1>11 DEF IInv, MessagesSound
    <2>3. /\ operations' \in [Ops -> Operation]
          /\ \A d \in Ops : SameRequest(d) /\ operations'[d].instance = operations[d].instance
          /\ \A d \in Ops : d # o => operations'[d] = operations[d]
          /\ operations'[o].status = IF IsFinal(o) THEN operations[o].status ELSE told.status
      <3>1. \A d \in Ops : operations[d] \in Operation
        BY <1>1 DEF TypeOK, QueueTypeOK
      <3>2. [operations[o] EXCEPT !.status = told.status] \in Operation
        BY <2>2, <3>1 DEF Operation, ActiveStates
      <3> QED BY <1>1, <2>1, <2>2, <3>1, <3>2 DEF RecordResult, Operation, SameRequest, IsFinal, TypeOK, QueueTypeOK
    <2>4. state \in Report /\ state.op = o /\ state.status = operations'[o].status
      <3>1. operations'[o].status \in ActiveStates \cup FinalStates \cup {"none"}
        BY <2>2, <2>3 DEF Operation
      <3> QED BY <1>3, <3>1 DEF Report
    <2> HIDE DEF state
    <2>5. /\ request' \in [pc : RequestPC, message : Message, awaited : BOOLEAN] /\ request'.pc = "pick"
          /\ request'.message.telemetry = message.telemetry /\ request'.message.report = told
          /\ request'.message.cmd = message.cmd /\ request'.message.state = state
      <3>1. /\ [message EXCEPT !.state = state] \in Message
            /\ [message EXCEPT !.state = state].telemetry = message.telemetry
            /\ [message EXCEPT !.state = state].report = told
            /\ [message EXCEPT !.state = state].cmd = message.cmd
            /\ [message EXCEPT !.state = state].state = state
        BY <1>3, <2>4 DEF Message
      <3>2. request' = [request EXCEPT !.pc = "pick", !.message = [message EXCEPT !.state = state]]
        BY <2>1 DEF Proceed
      <3>3. /\ request'.message = [message EXCEPT !.state = state] /\ request'.pc = "pick"
            /\ request' \in [pc : RequestPC, message : Message, awaited : BOOLEAN]
        BY <1>3, <3>1, <3>2 DEF RequestPC
      <3> QED BY <3>1, <3>3
    <2>6. TypeOK'
      BY <1>1, <2>1, <2>3, <2>5 DEF TypeOK, QueueTypeOK, agentVars, helperVars
    <2>7. \A d \in Ops : /\ IsFinal(d) => IsFinal(d)' /\ operations'[d].status = operations[d].status
                         /\ operations[d].status = "none" => operations'[d] = operations[d]
                         /\ operations[d].status # "none" => operations'[d].status # "none"
                         /\ operations'[d].status = "completed" => operations[d].status = "completed" \/ Told(d)
      BY <2>2, <2>3 DEF IsFinal, FinalStates, Told
    <2>8. MessagesSound'
      <3>1. Answered(request.message.state)'
        BY <2>2, <2>4, <2>5 DEF Answered, IsFinal
      <3>2. message.cmd = None
        BY <2>1 DEF IInv, MessagesSound
      <3>3. Answered(agent.message.state)'
        BY <1>1, <2>7 DEF IInv, MessagesSound, Answered
      <3>4. agent.pc \notin {"sampled", "stage", "clear"} /\ agent.message.cmd = None
        BY <1>5, <2>1 DEF IInv, MessagesSound
      <3> QED BY <1>1, <2>2, <2>5, <2>7, <3>1, <3>2, <3>3, <3>4 DEF MessagesSound
    <2> QED BY <1>1, <2>1, <2>3, <2>5, <2>6, <2>7, <2>8, StatusKeeps
  <1> QED BY <1>6, <1>7, <1>8, <1>9, <1>10, <1>11 DEF Handler, Record

-----------------------------------------------------------------------------
(* Faults *)

LEMMA CrashKeeps == IInv /\ Crash => IInv'
  <1> SUFFICES ASSUME IInv, Crash PROVE IInv'
    OBVIOUS
  <1>1. /\ Spend("crashes", MaxCrashes)
        /\ agent' = [pc |-> "idle", message |-> Blank]
        /\ request' = [request EXCEPT !.awaited = FALSE]
        /\ executors' = [o \in Ops |-> IF executors[o] = "overturned" THEN "overturned" ELSE "none"]
        /\ held' = [m \in Migrations |-> None]
        /\ helper' \in [Instances -> Pools \cup {None}]
        /\ UNCHANGED <<queueVars, record, dirs, results, newer, astray>>
    BY DEF Crash, Drop, Hold, Lingering
  <1>2. /\ TypeOK /\ RowsSound /\ Grown
        /\ UNCHANGED <<live, operations, provisioning, metadata, previewed>>
    BY <1>1 DEF IInv, queueVars, Grown, SameRequest, IsFinal
  <1>3. /\ request' \in [pc : RequestPC, message : Message, awaited : BOOLEAN]
        /\ request'.pc = request.pc /\ request'.message = request.message
    BY <1>1, <1>2 DEF TypeOK
  <1>4. executors' \in [Ops -> ExecutorStates] /\ held' \in [Migrations -> Pools \cup {None}]
    BY <1>1 DEF ExecutorStates
  <1>5. TypeOK'
    BY <1>1, <1>2, <1>3, <1>4, SpendTyped, BlankSound DEF TypeOK, QueueTypeOK, AgentPC
  <1>6. \A j : Overturned(j) <=> Overturned(j)'
    BY <1>1, <1>2, OpsTyped DEF Overturned
  <1>7. RowsSound' /\ OneLockHolder' /\ FilesKept' /\ OneMigrationPerInstance' /\ Fits'
    BY <1>1, <1>2 DEF IInv, RowsSound, RowSound, OneLockHolder, Locking, FilesKept, IsFinal,
                      OneMigrationPerInstance, IsActive, Fits
  <1>8. CopiesSafe' /\ DataKeptUnlessMislaid'
    BY <1>1, <1>2, <1>6, OpsTyped DEF IInv, CopiesSafe, DataKeptUnlessMislaid
  <1>9. MessagesSound'
    BY <1>1, <1>2, <1>3, BlankSound DEF IInv, MessagesSound, Answered, IsFinal, IsActive
  <1>10. ProvisionedFirst'
    BY <1>1, <1>2, <1>3, BlankSound DEF IInv, ProvisionedFirst, Unseen
  <1>11. ClaimsTrue'
    <2> SUFFICES ASSUME NEW m \in Migrations, Claimed(m)' PROVE Moved(m)'
      BY DEF ClaimsTrue
    <2>1. Claimed(m)
      BY <1>1, <1>2, <1>3, OpsTyped DEF Claimed
    <2> QED BY <1>1, <1>2, <1>6, <2>1 DEF IInv, ClaimsTrue, Moved
  <1> QED BY <1>5, <1>7, <1>8, <1>9, <1>10, <1>11 DEF IInv

LEMMA LossKeeps == IInv /\ (Timeout \/ DiscardOrphan) => IInv'
  <1> SUFFICES ASSUME IInv, Timeout \/ DiscardOrphan PROVE IInv'
    OBVIOUS
  <1>1. /\ UNCHANGED <<queueVars, agentVars>>
        /\ faults' = faults \/ Spend("losses", MaxLosses)
        /\ agent' = agent \/ agent' = [pc |-> "idle", message |-> Blank]
        /\ \/ request' = [request EXCEPT !.awaited = FALSE]
           \/ request' = [pc |-> "free", message |-> Blank, awaited |-> FALSE]
    BY DEF Timeout, DiscardOrphan, Drop, Hold
  <1>2. /\ TypeOK /\ UNCHANGED <<live, operations, provisioning, metadata, previewed, record, results>>
    BY <1>1 DEF IInv, queueVars, agentVars, helperVars
  <1>3. /\ request' \in [pc : RequestPC, message : Message, awaited : BOOLEAN]
        /\ \/ request'.pc = request.pc /\ request'.message = request.message
           \/ request'.pc = "free" /\ request'.message = Blank
    <2>1. request \in [pc : RequestPC, message : Message, awaited : BOOLEAN]
      BY <1>2 DEF TypeOK
    <2>2. CASE request' = [request EXCEPT !.awaited = FALSE]
      BY <2>1, <2>2
    <2>3. CASE request' = [pc |-> "free", message |-> Blank, awaited |-> FALSE]
      BY <2>3, BlankSound DEF RequestPC
    <2> QED BY <1>1, <2>2, <2>3
  <1>4. agent' \in [pc : AgentPC, message : Message]
    BY <1>1, <1>2, BlankSound DEF TypeOK, AgentPC
  <1>5. faults' \in [crashes : 0 .. MaxCrashes, losses : 0 .. MaxLosses]
    BY <1>1, <1>2, SpendTyped DEF TypeOK
  <1>6. TypeOK'
    BY <1>1, <1>2, <1>3, <1>4, <1>5 DEF TypeOK, QueueTypeOK, queueVars, agentVars, helperVars
  <1>7. MessagesSound'
    <2>1. \/ agent'.pc = agent.pc /\ agent'.message = agent.message
          \/ agent'.pc = "idle" /\ agent'.message = Blank
      BY <1>1
    <2> QED BY <1>2, <1>3, <2>1, BlankSound DEF IInv, MessagesSound, Answered, IsFinal, IsActive
  <1>8. ProvisionedFirst'
    BY <1>1, <1>2, <1>3, BlankSound DEF IInv, ProvisionedFirst, Unseen
  <1>9. \A m \in Migrations : Told(m)' => Told(m)
    BY <1>3, BlankSound, OpsTyped DEF Told
  <1> QED BY <1>1, <1>2, <1>6, <1>7, <1>8, <1>9, MessageKeeps

-----------------------------------------------------------------------------
(* The theorems *)

LEMMA StepKeeps == IInv /\ [Next]_vars => IInv'
  <1> SUFFICES ASSUME IInv, [Next]_vars PROVE IInv'
    OBVIOUS
  <1>1. ASSUME UNCHANGED vars PROVE IInv'
    <2>1. UNCHANGED <<live, operations, provisioning, metadata, previewed, agentVars, agent, request, faults>>
      BY <1>1 DEF vars, queueVars
    <2>2. TypeOK'
      BY <2>1 DEF IInv, TypeOK, QueueTypeOK, agentVars, helperVars
    <2>3. MessagesSound' /\ ProvisionedFirst'
      BY <2>1 DEF IInv, MessagesSound, Answered, IsFinal, IsActive, ProvisionedFirst, Unseen, agentVars, helperVars
    <2> QED BY <2>1, <2>2, <2>3, MessageKeeps DEF Told
  <1>2. ASSUME AgentStep PROVE IInv'
    BY <1>2, DaemonKeeps, StageKeeps, ClearKeeps DEF AgentStep
  <1>3. ASSUME Next PROVE IInv'
    BY <1>2, <1>3, UserStepKeeps, HandlerKeeps, ExecutorStepKeeps, RemoveInstanceKeeps, LateCopyKeeps, RunProvisioningKeeps,
       CrashKeeps, LossKeeps DEF Next
  <1> QED BY <1>1, <1>3

THEOREM Inductive == Spec => []IInv
  BY InitSound, StepKeeps, PTL DEF Spec

\* Every variable keeps its type: no step stores a status, a pool or a message that
\* the others do not expect, and no pool ever holds more than its capacity.
THEOREM StorageTyped == Spec => []TypeOK
  <1>1. IInv => TypeOK
    BY DEF IInv
  <1> QED BY <1>1, Inductive, PTL

\* However many administrators ask and whatever is lost on the way, an instance has at
\* most one active migration.
THEOREM OneMigrationAtATime == Spec => []OneMigrationPerInstance
  <1>1. IInv => OneMigrationPerInstance
    BY DEF IInv
  <1> QED BY <1>1, Inductive, PTL

\* The directory the record names is there, unless a migration of the instance was
\* rolled back over what had become of it since, or took a copy that went to another
\* pool than its own target for its own.
THEOREM DataIsKept == Spec => []DataKeptUnlessMislaid
  <1>1. IInv => DataKeptUnlessMislaid
    BY DEF IInv
  <1> QED BY <1>1, Inductive, PTL

\* A migration shown as completed did take its instance to the target, with the same
\* exception.
THEOREM CompletedHasMoved == Spec => []CompletedMoved
  <1>1. IInv => CompletedMoved
    BY DEF IInv, CompletedMoved, ClaimsTrue, Claimed, Moved
  <1> QED BY <1>1, Inductive, PTL

=============================================================================
