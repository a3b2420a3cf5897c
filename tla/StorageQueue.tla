---------------------------- MODULE StorageQueue ----------------------------
(***************************************************************************)
(* The Controller's queue of storage pool operations of one Agent:         *)
(* migrations of an instance to another pool and clean-ups of the copy a   *)
(* migration preserved, rows of the table operations                       *)
(* (database/instance_storage_pool_migration_repository.py); and the       *)
(* capacity both they and provisioning reserve in the pools                *)
(* (database/storage_pool_placement.py).                                   *)
(*                                                                         *)
(* Every instance takes one unit of space.  The Controller knows the       *)
(* Agent's pools from the metadata the last heartbeat stored.              *)
(***************************************************************************)
EXTENDS Naturals, FiniteSets

CONSTANTS
  Instances,   \* instances of the Agent
  Pools,       \* its storage pools
  Capacity,    \* units each pool holds
  Migrations,  \* ids of migrations
  Cleanups,    \* ids of clean-ups
  None,        \* no pool, no instance, no operation
  MaxClock     \* bound on the whole seconds of created_at

Ops == Migrations \cup Cleanups
ActiveStates == {"queued", "delivered", "running"}
FinalStates  == {"completed", "failed"}

ASSUME StorageAssumption ==
  /\ None \notin Instances \cup Pools \cup Ops
  /\ Migrations \cap Cleanups = {}
  /\ IsFiniteSet(Instances)
  /\ Capacity \in Nat /\ MaxClock \in Nat

VARIABLES
  live,          \* instances the Controller has not deleted
  operations,    \* the rows
  provisioning,  \* per instance, its provisioning row and the pool chosen
  metadata,      \* what the last heartbeat said of pools and instances
  previewed      \* clean-up requests between their preview and their row

queueVars == <<live, operations, provisioning, metadata, previewed>>

\* instance is the foreign key, owner and the rest the immutable request.
Operation == [status : ActiveStates \cup FinalStates \cup {"none"}, instance : Instances \cup {None},
              owner : Instances \cup {None}, source : Pools \cup {None}, target : Pools \cup {None},
              of : Migrations \cup {None}, created : 0 .. MaxClock]
NoOperation == [status |-> "none", instance |-> None, owner |-> None, source |-> None,
                target |-> None, of |-> None, created |-> 0]

\* "ran": finished on the Agent, its result not yet with the Controller.
ProvisioningStates == {"none", "active", "ran", "done"}
Telemetry == [pool : [Instances -> Pools \cup {None}], usable : [Pools -> Nat]]

QueueTypeOK ==
  /\ live \in SUBSET Instances
  /\ operations \in [Ops -> Operation]
  /\ provisioning \in [Instances -> [status : ProvisioningStates, pool : Pools \cup {None}]]
  /\ metadata \in Telemetry
  /\ previewed \in [Cleanups -> Migrations \cup {None}]

IsActive(o) == operations[o].status \in ActiveStates

\* The join with instances leaves out rows whose instance is gone.
Offered(o) == IsActive(o) /\ operations[o].instance \in live

ReservedByProvisioning(p) ==
  {i \in Instances : provisioning[i].status \in {"active", "ran"} /\ provisioning[i].pool = p}
ReservedByMigrations(p) == {m \in Migrations : Offered(m) /\ operations[m].target = p}

Insert(o, row) ==
  /\ operations[o] = NoOperation
  /\ \E now \in 0 .. MaxClock :
       /\ \A d \in Ops : operations[d].created <= now
       /\ operations' = [operations EXCEPT ![o] = [row EXCEPT !.created = now]]

\* Mutant: the instance's active migration is not looked up.
EnqueueMigrationAgain(i, m, p) ==
  /\ i \in live
  /\ metadata.pool[i] \notin {None, p}
  /\ Cardinality(ReservedByProvisioning(p)) + Cardinality(ReservedByMigrations(p)) + 1 <= metadata.usable[p]
  /\ Insert(m, [NoOperation EXCEPT !.status = "queued", !.instance = i, !.owner = i,
                                   !.source = metadata.pool[i], !.target = p])
  /\ UNCHANGED <<live, provisioning, metadata, previewed>>

EnqueueMigration(i, m, p) ==
  /\ i \in live
  /\ \A d \in Migrations : operations[d].instance = i => ~IsActive(d)
  /\ metadata.pool[i] \notin {None, p}
  /\ Cardinality(ReservedByProvisioning(p)) + Cardinality(ReservedByMigrations(p)) + 1 <= metadata.usable[p]
  /\ Insert(m, [NoOperation EXCEPT !.status = "queued", !.instance = i, !.owner = i,
                                   !.source = metadata.pool[i], !.target = p])
  /\ UNCHANGED <<live, provisioning, metadata, previewed>>

\* Provisioning counts the reservations of provisioning only.
EnqueueProvisioning(i, p) ==
  /\ i \in live /\ provisioning[i].status = "none"
  /\ Cardinality(ReservedByProvisioning(p)) + 1 <= metadata.usable[p]
  /\ provisioning' = [provisioning EXCEPT ![i] = [status |-> "active", pool |-> p]]
  /\ UNCHANGED <<live, operations, metadata, previewed>>

\* cleanup_preview reads in transactions of its own.
PreviewCleanup(c, m) ==
  LET row == operations[m]
      made == {d \in Cleanups : operations[d].of = m /\ operations[d].instance = row.owner}
  IN  /\ previewed[c] = None /\ operations[c] = NoOperation
      /\ row.status = "completed"
      /\ metadata.pool[row.owner] = row.target
      /\ made # {} => \E d \in made : /\ operations[d].status = "failed"
                                      /\ \A e \in made : operations[e].created <= operations[d].created
      /\ previewed' = [previewed EXCEPT ![c] = m]
      /\ UNCHANGED <<live, operations, provisioning, metadata>>

\* The row is inserted unless a clean-up of the instance is active by now.
InsertCleanup(c) ==
  LET m == previewed[c]
      i == operations[m].owner
  IN  /\ m # None
      /\ previewed' = [previewed EXCEPT ![c] = None]
      /\ IF i \in live /\ \A d \in Cleanups : operations[d].instance = i => ~IsActive(d)
         THEN Insert(c, [operations[m] EXCEPT !.status = "queued", !.instance = i, !.of = m])
         ELSE UNCHANGED operations
      /\ UNCHANGED <<live, provisioning, metadata>>

\* ON DELETE SET NULL keeps the rows; those of provisioning go along.
DeleteInstance(i) ==
  /\ i \in live
  /\ live' = live \ {i}
  /\ operations' = [o \in Ops |-> IF operations[o].instance = i THEN [operations[o] EXCEPT !.instance = None]
                                  ELSE operations[o]]
  /\ provisioning' = [provisioning EXCEPT ![i] = [status |-> "done", pool |-> None]]
  /\ UNCHANGED <<metadata, previewed>>

\* Mutant: what was delivered once is not offered again.
OldestQueued(o) ==
  /\ Offered(o) /\ operations[o].status = "queued"
  /\ \A d \in Ops : Offered(d) => operations[o].created <= operations[d].created

\* ORDER BY created_at LIMIT 1: any of the oldest second.
Oldest(o) == Offered(o) /\ \A d \in Ops : Offered(d) => operations[o].created <= operations[d].created

MarkDelivered(o) ==
  operations' = [operations EXCEPT ![o].status = IF @ = "queued" THEN "delivered" ELSE @]

\* Mutant: a result of a finished operation is refused too.
MismatchedOrFinal(o) ==
  operations[o].instance # operations[o].owner \/ operations[o].status \in FinalStates

\* apply_result compares the result's instance with the row's and raises.
Mismatched(o) == operations[o].instance # operations[o].owner

\* Mutant: the step is stored where the status belongs.
RecordStep(o, status) ==
  operations' = [operations EXCEPT ![o].status = IF @ \in FinalStates THEN @
                                                 ELSE IF status = "running" THEN "staged" ELSE status]

\* Mutant: every result is taken for a success.
RecordSuccess(o, status) ==
  operations' = [operations EXCEPT ![o].status = IF @ \in FinalStates THEN @ ELSE "completed"]

RecordResult(o, status) ==
  operations' = [operations EXCEPT ![o].status = IF @ \in FinalStates THEN @ ELSE status]

=============================================================================
