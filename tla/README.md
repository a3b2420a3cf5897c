# TLA+ verification of the Distributed Server Manager

The Distributed Server Manager runs game servers on many hosts. A **Controller** (dashboard, workers
and a database) decides what should run where; an **Agent** on each host does it, and speaks with the
Controller only through HTTP heartbeats that the Agent starts. This directory holds TLA+ models of
that code, the TLC runs that check them and TLAPS proofs about them. The models follow the Linux
Agent.

| module | models | kind |
| --- | --- | --- |
| `CommandQueue` | the Controller's queue of instance commands and the rows it works on | state, one operator per transaction |
| `AgentCommands` | the Agent's handling of a command: history and result files | state, one operator per step between two writes |
| `CommandExchange` | both, joined by heartbeats in flight, concurrent handler threads, losses and crashes | specification |
| `CommandPromise` | what a user may rely on when issuing a command | abstract specification |
| `InstanceRuntime` | one instance on its Agent: reconciler, lifecycle commands, storage pool jobs, privileged helper, lock, record, unit, process, data | specification |
| `JobQueue` | the Controller's queues of provisionings and game data jobs, and the public status of the instances | state, one operator per transaction |
| `JobExchange` | both queues joined by heartbeats to the executors and their result files, losses and crashes | specification |
| `JobPromise` | what a user may rely on when queueing a provisioning or a game data job | abstract specification |
| `StorageQueue` | the Controller's migrations and clean-ups of instances between storage pools, reservations, previews | state, one operator per transaction |
| `StorageExchange` | that queue joined to the executors that copy and delete directories | specification |
| `ServerPackSwap` | the journalled swap of a Minecraft runtime directory, one rename at a time, as the privileged helper runs it | state, one operator per phase and step |
| `ServerPackMigration` | the swap under its transaction, barrier, recovery command, finalization worker, operators and crashes | specification |
| `BackupQueue` | the Controller's backup jobs: requests, the scheduler, reports | state, one operator per transaction |
| `BackupExchange` | those jobs joined to the Agent's loop, the archives, the instance's directory and its restore | specification |
| `CommandExchangeProofs`, `CommandDeliveryProofs`, `InstanceRuntimeProofs`, `InstanceDataProofs`, `JobExchangeProofs`, `StorageExchangeProofs`, `ServerPackProofs`, `BackupProofs` | theorems for every value of the constants | proofs |
| `MCCommandExchange`, `MCInstanceRuntime`, `MCJobExchange`, `MCStorageExchange` | small instances and symmetry for TLC | |

`PROJECT.json` ties every definition to its source lines, every property to a mutant of the code it
detects, and lists components, hazards, findings and theorems.

## 1. Inventory

### Parts that carry the system's own logic

**Instance commands** — `database/agent_instance_runtime_repository.py`, `dashboard/agent_remote_http.py`,
`agents/linux/runtime/agent.py`, `instance_runtime.py`.
*State:* rows of `agent_instance_commands_v3` (queued → delivered → completed | failed), the instance and
contract rows, on the Agent a history file and a result file per command. *Operations:* enqueue with
arbitration, deliver the oldest active command, run it, report, project the instance's status, delete
instance and contract when a removal is confirmed. *Hard:* every heartbeat is served by a thread of its
own, in four transactions; a request the Agent gave up on is still served; delivery repeats until the
result arrives. *Correct when:* a command takes effect at most once, its final status is the Agent's
verdict, nothing is deleted before the Agent removed it, every command settles.

**Instance runtime** — `runtime_lock.py`, `runtime_operations.py`, `runtime_reconciler.py`,
`runtime_materialization.py`, `privileged_materialization.py`, `privileged/materialize_instance.py`,
`adapters/systemd.py`, `cap_dispatch.py`.
*State:* a JSON record per instance (desired state, storage pool, the backoff of the reconciler), a
systemd unit, a process, a directory in a storage pool, a `flock` file. *Operations:* reconcile, start,
stop, restart, remove. *Hard:* three kinds of processes write one record, read and written whole;
reconciliation reads before it locks and records some failures without the lock. *Correct when:* what is
desired eventually runs, in the pool of the record; nobody undoes an operator's command; the record names
a directory that holds the instance.

**Storage pool migration** — `storage_pool_migration_client.py`, `storage_pool_migration_executor.py` on
the Agent, `database/instance_storage_pool_migration_repository.py` on the Controller.
*State:* an `operations` row, request and result files, the copies in two pools. *Operations:* stage,
copy, switch the unit, register, report; roll back; clean the source up. *Hard:* the executor is a process
of its own that dies with the Agent, while the helper that copies for it is a systemd unit and does not; whoever
calls the helper meanwhile is answered by that copy; rollback happens after the lock was released; the result is
written before its event. *Correct when:* the server never runs during the copy (the code guarantees it only
while the executor waits for the copy), no failure loses the data, the cleanup deletes only what nobody uses.

**Provisioning and game data** — `agent_instance_provisioning_repository.py` (a base in `database/`, the
live subclass in `dashboard/`), `instance_provisioning_projection.py`, `agent_game_data_repository.py`,
`provisioning_client.py`, `provisioning_executor.py`, `game_data_client.py`, `game_data_executor.py`.
*State:* a row per job (queued → delivered → running → completed | failed), the instance's public status,
on the Agent a request, a result and an executor per job. *Operations:* enqueue, deliver the oldest, stage,
run, report, clear; game data is deferred while a provisioning is under way. *Hard:* progress and results
reach the Controller through requests that overlap; an executor dies with the daemon; the completed result
is on disk before the event that may still fail; one lock covers an execution that calls operations which
take it again. *Correct when:* a job starts once, its row ends as its executor says and stays so, an
instance has one provisioning at a time, every job ends.

**Server Pack migration** — `agents/common/minecraft_serverpack_migration_swap.py` and the modules
`minecraft_serverpack_*` and `runtime_operations.py` of the Agent.
*State:* five directories, a journal, a checkpoint, an operation journal that bars other operations, the
result file, the game server's unit. *Operations:* preflight, build, prepare, switch, probe, commit,
archive; roll back; recover (root); finalize (worker). *Hard:* a crash between two renames; a helper that is
a unit of its own and outlives its client; a worker and a root command beside the executor. *Correct when:*
the original is never lost, no server runs on half a swap, a verdict stands, the barrier is lifted.

**Backups** — `database/backup_repository.py`, `backup_client.py`.
*State:* rows of `backup_jobs` (pending → running → completed | failed), on the Agent a result file per job
that is never removed, the archives of an instance, its directory and the copy a restore sets aside.
*Operations:* request, schedule, deliver everything pending, back up, prune, delete, restore, report. *Hard:*
the loop runs a job for minutes inside a heartbeat and may die in it; the scheduler reads in one transaction
and inserts in another; a restore is two renames and its rollback two more; an operator's start takes the lock
a restore does not hold. *Correct when:* a job is begun once and ends, a world is never lost, the newest
backup can be restored.

**Ports** — reservations per Agent, correct when never shared. **Pairing, relink, lifecycle** —
one-time tokens and credential rotation. **Update and uninstall** — staged update with rollback, uninstall
in two phases. **Artifact transfer** — chunks with resume.
**Native restart, maintenance, automation** — scheduled work with leases and retries. **Content and
configuration revisions** — applied with verification and rollback. **HA/DR and federation** — plans and
their confirmation.

The rest — dashboard rendering, RBAC tables, catalog, installers, the shell core, observability — has
little interaction between steps; `PROJECT.json` lists each with the reason it is left out.

### How they interact

    user / worker --> queue rows <--transactions-- heartbeat handler threads
                                                     ^            |
                                            result of one    command of one
                                                     |            v
    cap (operator) --+                        agent.py, a single-threaded loop
                     |                          |  reconcile_all  |  stages
                     v                          v                 v
                  flock(instance) <------ reconciler, lifecycle, executors
                     |
             record, unit, process, storage pools

`CommandExchange` covers the upper half down to the daemon; `InstanceRuntime` the lower half. They meet in
`handle_command`: `AgentCommands!Execute` is what the upper half sees of an execution, the commands of the
daemon in `InstanceRuntime` are what goes on inside it.

`JobExchange` and `StorageExchange` cover the same upper half for the channels that stage executors;
`StorageExchange` and `InstanceRuntime` meet in the migration executor, which the first has whole and the
second step by step beside the reconciler and operators. `ServerPackMigration` is one branch of the
provisioning executor, from its request to its result file.

### Hazards

`PROJECT.json` lists them by line. In short: repeated, reordered and orphaned results; several
transactions per request; a process dying between two transactions, two files or two renames; a record read
before the lock; writes after the lock was released; an exception that fails a whole heartbeat; a status
query that fails open; executors that leave `running` behind for ever; a helper that outlives its client; a
barrier nothing lifts; a lock taken twice by one operation.

## 2. Plan

1. **Instance commands** (done): queue, Agent, exchange; promise as the abstract specification; proofs of
   the safety invariants.
2. **Instance runtime** (done: model, with the helper's copies that outlive their executor, and runs; types,
   `StoppedWhileAwaited` and `DataAvailable` proved). Open: the helper's apply in its steps, more writers of the
   record (resource profiles, content activation).
3. **Provisioning and game data jobs** (done: queues, exchange, runs, proofs of all safety properties).
   Open: the provisioning executor's own steps (ports, contents, materialization, compensation, the lock it
   takes twice), the game data caches and their activation.
4. **Storage pool operations** (done: queue, exchange, runs, proofs of all safety properties). Open: requests
   that overlap, pools ranked by free space.
5. **Server Pack migration** (done: swap, transaction, recovery, finalization, runs, proofs of all safety
   properties). Open: the two finalization branches left out, the Windows Agent's swap.
6. **Backups** (done: jobs, loop, archives, restore, run, proofs of all safety properties). Open: several
   instances on one Agent, the privileged restore helper.
7. **Native restart, update, uninstall, ports, pairing, artifact transfer**, each small, in that order.

No module with a theorem uses a RECURSIVE operator; parameters are CONSTANTS with named assumptions, and
each operation of the code is an action of its own.

## 3. Instance commands

### State and actions

| model | code |
| --- | --- |
| `commands[c]` | a row of `agent_instance_commands_v3`; `purged` after `ON DELETE CASCADE` |
| `instances[i]`, `contracts[k]` | the status columns; `absent` once the row is gone |
| `pendingRemovals` | an admin process between marking an instance and queueing its removal |
| `history[c]`, `results` | `instance-command-history/*.json`, `instance-results/*.json` |
| `agent` | the heartbeat thread: where it is and what it read from the last response |
| `requests[q]` | a heartbeat: sent, or the point its handler thread has reached |

`Enqueue` is the transaction of `enqueue` with its arbitration; `RecordResult`, `ReconcileStatus`,
`DeleteInstance`, `FinalizeContractIfEmpty`, `Oldest`, `MarkDelivered` are the transactions of
`apply_result` and of the handler. `CommandExchange` runs them in the handler's order, `Record`, `Project`,
`FinalizeContract`, `Pick`, `Deliver`, interleaved with every other thread. The daemon's `HandleCommand` is
cut where it writes: run, history, result file. `Flush` is the extra heartbeat after a synchronous result.
`Crash` loses the memory of the daemon between any two writes, `Timeout` makes the Agent give a request up
that is still served, `Lose` drops one, `AdminCrash` ends an admin process half way.

### Runs

| run | question | bounds |
| --- | --- | --- |
| `exchange` | all safety properties, and that the exchange implements `CommandPromise` | 1 instance, 2 commands, 2 threads, 1 crash, 1 loss |
| `exchange_neighbours` | instances of one contract and one Agent; liveness | 2 instances, 2 commands, 1 loss |
| `exchange_poison` | *violated:* every command settles | 2 instances, 2 commands |

Two commands are what arbitration, order and replay need; two threads are what an orphaned request and its
successor need; one crash and one loss each fall between any two steps. The proofs lift the safety
properties to any numbers.

`AtMostOnce` counts executions that a crash did not leave unrecorded: `handle_command` runs first and
records next, so a crash between the two does run a command again; the code's lifecycle operations are
idempotent and the model shows that nothing else repeats one. `ExecutesOnlyLive` says that the Agent
starts a command only while the Controller waits for it, or when the whole instance is gone. `PurgedOnlyAfterRemoval` ties the
deletion of a row to the runtime's removal on the Agent. `NoResultLost`: a result file goes only when the
Controller has the result or has purged the command. `PromiseKept` maps a row and the Agent's history to
the phase and the verdict of `CommandPromise`, where a final row is the verdict that was learned: it is the
one the Agent's history holds.

### Fairness

The Agent's loop runs for ever, sends a heartbeat when the last one ended and processes what it received;
the Controller's threads run until they answer; a request given up is eventually dropped. Users and
administrators are not fair, and neither are faults. That is weak fairness on each of these actions,
per request slot, and no more.

### What was found

* **A poisoned result directory** (`exchange_poison`). Deleting an instance purges its commands by
  cascade. If a result of one of them still waits on the Agent, the Controller refuses it with an error,
  the handler gives no acknowledgement and picks no command, and the Agent offers the same file first
  again: no instance of that Agent receives a command any more. `SettlesUnlessPoisoned` shows that this is
  the only obstacle.
* **A contract left in deleting** (`ContractIsRetired` fails under `exchange_poison.cfg`), when the handler stops between two
  transactions.
* **A stale status** (`LastCommandShows` fails under `exchange.cfg` with `MaxClock = 1`): the status is projected from any result that arrives, also
  from a repeated one.

### Abstractions

An Agent is active throughout. `deleting` of an instance is informational: nothing but an administrator's
listing depends on it. Statuses that provisioning protects from the projection belong to provisioning. The
clock of `created_at` counts the seconds that ties depend on, up to `MaxClock`. Only the instance channel
of the heartbeat is modelled; the hybrid worker, which runs the queue inside the Controller's host, is not.

## 4. Instance runtime

### State and actions

| model | code |
| --- | --- |
| `lock` | `flock` on `locks/<instance>.lock`; freed by the kernel when its process dies |
| `record` | the instance's JSON record: `storage_pool_id`, `desired_state`, `reconcile_next_retry_at` |
| `unit`, `process` | the pool the installed unit, and the running server, work in |
| `data[p]` | the instance's directory in pool `p`: absent, freshly seeded, half deleted, whole |
| `helper` | the copy that `capivara-agent-materialize@<instance>` is at: its source and target, or none |
| `misled`, `strayed` | history: whose call of the helper was answered by such a copy; that a migration took another one's copy |
| `copy[a]`, `latest` | the records held in local variables: the one read first, the one about to be saved |
| `pc[a]` | the position of the daemon, of `cap`, and of the executor |
| `completed` | migrations whose completed result the Controller may have seen |

The daemon is one thread: it reconciles, runs a command or stages a job, one after the other. `cap` and the
executor are processes. Each action is the work between two accesses to shared state: a reconcile pass is
`ReadRecord` (no lock), `LockForReconcile` or `ReconcileTimeout`, `InspectUnit`, `RegisterRepaired`,
`Converge`, `Settle`, `Verify`, `SaveOutcome`; each step may fail into `RecordFailure`, which writes the
record it re-read back, lock or no lock. A lifecycle command is `LockForLifecycle`, `RunAdapter`,
`RegisterDesired`. A removal is `LockForRemove`, `RemoveRuntime`, `UnlinkRecord`. A migration is
`BeginMigration`, `AskCopy`, `SwitchUnit`, `RegisterTarget`, `CommitResult`, `PublishCompleted`, and fails into
`RestoreUnit`, `RestoreRecord`, which run after the lock was released. `AgentRestart` ends the daemon and the
executors of its cgroup at any point, and the kernel frees their lock; the next daemon begins with a pass.

The copy itself is the helper's: a systemd unit of its own, one per instance, that `AskCopy` starts and that
`CopyData` or `CopyFails` ends. Neither `AgentRestart` nor `MigrationBreaks`, the executor's timeout of 3600
seconds among its causes, touches `helper`: the copy goes on with the lock free. `_invoke` starts the unit with
`systemctl start`, which for a unit at work only waits for it, and reads whatever result it left. So a call made
meanwhile (`Callers`) either times out after its 60 seconds (`HelperGivesUp`) or is answered by the copy's result:
its process is then `misled`, goes on as if the unit had been applied or the runtime removed, and `Apply` leaves
both alone. A migration that calls joins the copy in the same way; when it is of another migration and goes to
another pool than its own target, `strayed` notes it.

### Runs

Every run starts from a converged instance, stopped or running. `runtime_controller` has three pools, which its
symmetry makes interchangeable: only then can a migration meet a copy to a pool that is neither end of its own.
The others have two.

| run | question | orders, operator commands, jobs, faults, failed migrations, restarts, outages |
| --- | --- | --- |
| `runtime_controller` | types; the record never names a directory that lacks the instance | 1, 0, 2, 1, 1, 1, 1 |
| `runtime_operators` | no server runs while an executor waits for a copy; convergence | 0, 1, 1, 1, 1, 1, 0 |
| `runtime_cleanup_live` | *violated:* a cleanup spares the directory of a running server | 0, 1, 2, 0, 0, 1, 0 |

Two jobs are a migration and the cleanup of its source, or a migration and the way back; the other bounds
let each kind of event happen once, between any two steps. Together the two passing runs take every action.
Deadlock is not checked: a removed instance whose budgets are spent has nothing left to do.

`DataAvailable` needs the Controller's view only (no operator at work on the host): an operator's process
that holds the lock while two passes time out lets a failure path write back a record from before a
migration. It holds beside copies that outlive their executor, as the record stays on their source until they
end, except once a migration took such a copy for its own (`strayed`).

`StoppedWhileAwaited` is what the executor's check of the server and the lock achieve together: no server runs as
long as an executor waits for a copy, also a joined one. It is less than what the check is for. That no
server runs in a directory being copied, with or without an executor, is `StoppedWhileCopying`; TLC violates it,
see below. `StoppedWhileAwaited` assumes that status queries are answered: the code takes `unavailable` and
`unknown` for stopped. The limits of both properties are hazards in `PROJECT.json`.

### Fairness

Weak fairness of the reconciler, of a lifecycle command that has begun, of a removal and of the executor:
each is a process that goes on until it ends, and the daemon's loop comes back to `reconcile_all` every few
seconds. The helper's copy (`Copying`) is fair for the same reason: it ends, well or not. Commands, jobs and faults are not fair, so `Converges` speaks of what happens when they cease.
A pass inside its backoff is skipped; time is not modelled, and a later pass always comes.

### What was found

* **A cleanup under a running server** (`runtime_cleanup_live`). A pass reads its copy, waits for the lock
  while a migration completes, finds the unit changed and repairs it *back* to the old pool from its copy;
  a restart before the copy is registered leaves the record on the new pool and the unit on the old one; a
  start that comes before the next pass runs the unit; the cleanup looks only at the record.
* **A stop that is undone** (`OnlyLifecycleDecides` fails under `runtime_operators.cfg`). A pass that did not get the lock saves its failure into a
  record that it read without it. What another process registers between the read and the write is lost:
  the stop of an operator, or (same path) a migration's new pool. The rollback of a rejected or failed
  migration writes without the lock as well.
* **A server beside its own copy** (`StoppedWhileCopying` fails under `runtime_operators.cfg`): the executor times
  out or dies with the Agent, its lock is free, the helper still copies, and an operator's start runs the server
  in the directory it copies from. The helper compares both trees at the end: the copy fails, or the server goes
  on writing into a source whose copy was just verified.
* **A migration completed with another one's copy** (`MovesItsOwn` fails under `runtime_controller.cfg`): the next
  migration, to a third pool, finds the helper at that copy, waits for it, takes its result without comparing
  migration or target, and moves unit and record to a pool where the instance is not.

### Abstractions

The observed state and the count of retries are informational. The operation journal is left out here: it
only gates Server Pack migrations, and `ServerPackMigration` has it. Of the helper's actions only the storage
copy takes time; applying a unit and removing a runtime are one step each, and `ServerPackSwap` has the phases of
a swap. The start of a DayZ server, which calls the helper too, is left out. `whole` says that a directory holds
all of the instance, not its age: a copy that ended late may be older than its source. One executor works at
a time, as the Controller sends one operation at a time; after a restart the model lets the Controller send the
next at once, where the code may first wait behind the abandoned one. The release of the lock is merged with the last
write before it. A cleanup that finds another number of files than the migration verified is one of its
nondeterministic failures. Host reboots and game-specific profile migrations are left out.

## 5. Provisioning and game data jobs

### State and actions

| model | code |
| --- | --- |
| `rows[j]` | a row of `agent_instance_provisioning` or `agent_game_data_jobs`; `purged` after `ON DELETE CASCADE` |
| `public[i]` | `instances.status` as customers see it |
| `results[j]`, `newer[j]` | the result file of a job and which files are newer than it (`read_*_result` sorts by time) |
| `executors[j]`, `starts[j]`, `outcomes[j]` | the executor process, how often it was started, what it ever wrote |
| `agent` | the heartbeat loop, channel by channel: stage, then clear |
| `requests[q]` | a heartbeat and its handler: record, pick, deliver, project, first of one channel, then of the other |

`EnqueueProvision` is `enqueue` with the lock of the Agent's row; `RecordReport`, `Oldest`, `MarkDelivered`
and `ProjectState` are the transactions of the handler. `Advance` is the decision of `dispatch_heartbeat`
whether game data is deferred. `Stage` writes the marker and starts the executor, `StageFails` is a process
that cannot be started, after which the rest of the answer is lost. `Finish` writes the executor's final
result, `Overturn` is the failure after the completed result was written, `Exit` ends the process. `Crash`
ends the daemon and every executor, as systemd does with the cgroup; `Timeout` and `Lose` are those of
section 3.

### Runs

| run | question | bounds |
| --- | --- | --- |
| `jobs` | types; a job starts once; rows tell what executors wrote; one provisioning per instance; no result is lost; the exchange implements `JobPromise` | 1 instance, 2 provisionings, 2 overlapping requests, 1 crash, 2 losses |
| `jobs_settle` | every job ends unless an executor died or a result outlived its row | 1 instance, 2 provisionings, 1 game data job, 1 request at a time, 1 crash |

Two provisionings and two requests are what an orphaned report needs to race its successor; two losses orphan
two requests, or orphan one and fail one start. A clock that stands still makes every pair of rows tie, which
is the case where `Oldest` may choose either. `PromiseKept` maps a row to what the issuer knows, and `starts`
and `outcomes` to what happened where the job runs; a final row that changed, a second start, or an end that
nobody wrote would be no step of `JobPromise`. The proofs lift the safety properties to any numbers.

`SettlesUnlessAbandoned` names the two things that stop a queue for ever: a result left at `running` by an
executor that died (the job is never staged again), and a result whose row went with its instance (the
handler raises on it, at every heartbeat). A game data job also waits behind every provisioning.

Fairness: the loop, the handlers, and each executor once it was started are weakly fair, as in section 3.

### What was found

* **Provisioning and game data in one answer** (`NeverTogether` fails under `jobs_settle.cfg`): the deferral
  looks at the state the handler reports, and that is the finished job's when the body carried a report.
* **An older outcome over the last one** (`LastProvisioningShows` fails under `jobs.cfg`): the projection
  follows the report that is served, also a late one.
* **Completed, then failed** (`Overturn`): the Controller's row may say `completed` of an execution that
  rolled itself back. `ReportedIsRecorded` therefore speaks of what an executor *ever* wrote.

### Abstractions

What an executor does between its first and its last result is one action here. Reservations of space belong
to section 6; events, progress percentages and the publication of bundles are left out. Game data jobs carry
no instance; the server update that schedules some of them is left out.

## 6. Storage pool operations

### State and actions

| model | code |
| --- | --- |
| `operations[o]` | a row of `operations`: status, foreign key, and the immutable request |
| `provisioning[i]` | the provisioning of an instance as far as it reserves space |
| `metadata` | `agents.metadata_json`: pools and instances as the last heartbeat described them |
| `previewed[c]` | a clean-up between `cleanup_preview` and its own transaction |
| `record[i]`, `dirs[p]` | the pool the Agent's record names, and the directories that exist in a pool |
| `results`, `newer` | result files, and which files are newer than each |
| `executors[o]`, `held[m]` | the executor, and the pool in the record it had read |
| `helper[i]`, `astray` | the pool the helper still copies an instance to for an executor that is gone; history: instances whose migration took such a copy to another pool for its own |
| `agent`, `request` | the loop; the heartbeat in flight |

A heartbeat samples its telemetry before it reads the result files (`SampleTelemetry`, `SendHeartbeat`).
The Controller stores the telemetry, records the result and picks the next operation inside
`record_agent_heartbeat` (`StoreMetadata`, `Record`, `Pick`, `Deliver`), where an exception fails the request;
the other channels follow (`ServeRest`). A migration is `CopyTree`, `CommitMigration`, `ExitMigration`; it may
be refused (`RejectMigration`), break (`BreakMigration`) and undo itself outside the lock (`UndoMigration`,
`UndoFails`). A clean-up is `DeleteCopy`, `ReportCleanup`. `DieUnreported` is the failure before the executor's
`try`.

`CopyTree` is a copy that its executor sees to the end. One that it does not (`AbandonCopy`, its timeout, or a
`Crash` at that point, `Lingering`) stays in `helper` until it lands or fails: `LateCopy`, when nobody waits for
it; `JoinCopy`, when the next migration's call does; `RemoveMisled`, when a removal's call does, which then deletes
the record and no directory.

### Runs

| run | question | bounds |
| --- | --- | --- |
| `storage` | types; one migration per instance; the directory the record names exists; a completed migration moved the instance | 1 instance, 2 pools of 2 units, 2 migrations, 2 clean-ups, 1 loss or failure |
| `storage_settle` | heartbeats are answered and operations end, unless a result was orphaned or abandoned | 1 instance, 1 migration, 1 clean-up, 1 crash, 1 loss |

A migration there and one back, each with its clean-up, is the shortest history in which a stale preview could
delete the directory that is in use. `DataKeptUnlessMislaid` and `CompletedMoved` except one case, instance
by instance: an undo that overwrites a record someone else has changed since, which
`executors[m] = "overturned"` marks. `DataKeptUnlessMislaid` has a second one: a migration that took the lingering
copy of another, to another pool, for its own (`astray`; the finding `MovesItsOwn` of section 4). Two pools make
every migration lead there or back, and no instance goes astray; the proofs cover three and more, where the target
of one migration can be neither end of the next.

Fairness: the loop, the handler, every staged executor and an active provisioning are weakly fair;
administrators, removals, the helper and faults are not, so operations end even behind a copy that does not.

### What was found

* **No heartbeat is answered again** (`HeartbeatsAnswered` fails under `storage_settle.cfg`): an instance deleted while the result of its
  migration is still to be reported makes `apply_result` raise inside `record_agent_heartbeat`. Unlike the
  channels of sections 3 and 5, nothing catches it, `last_seen` is not written, and the Agent repeats the
  same result. `AnsweredUnlessOrphaned` shows that nothing else has this effect.
* **A removed instance comes back** (`GoneIsGone` fails under `storage.cfg`): the undo registers its copy of
  the record after the lock was released.
* **Space promised twice** (`NeverOversubscribed` fails with two instances and pools of one unit): a migration counts the
  reservations of provisionings and migrations, a provisioning those of provisionings only.

### Abstractions

Every instance takes one unit of space, and pools differ only in name. `dirs` holds directories with an instance
in them; the empty one that applying a unit creates where there is none is left out. Lifecycle of the game server, the
reconciler and operators are section 4's. One request is served at a time; overlapping requests are
section 5's.

## 7. Server Pack migration

### State and actions

| model | code |
| --- | --- |
| `dirs` | the trees in `runtime`, `runtime.migration-stage`, `-rollback`, `-failed` and the history: old or new build, and whether its content still has the recorded checksum |
| `journal`, `temp`, `checkpoint`, `filed` | the swap journal's phase, its temporary file, the archive checkpoint, whether the journal was filed |
| `helper` | the privileged unit: the phase it runs, the steps left, the answer |
| `server` | the game server's systemd unit |
| `outer`, `evidence` | the operation journal and the archive of a recovery's proof |
| `executor`, `cli`, `worker`, `lock` | the three clients of the swap and the lock they share |
| `result`, `original` | the provisioning result file; the server's state before the migration |

`ServerPackSwap` gives each phase its precondition (`Accepts`), its sequence of durable steps (`Plan`) and its
answer; `HelperStep` performs one, so a crash leaves any prefix. A client that starts the unit while it works
joins the run in progress (`Invoke`). `ServerPackMigration` has the transaction: `Preflight`, `Lock`,
`Check`, `Stop`, `Backup`, the phases (`Call`, `Return`, `GiveUp`), the readiness probe (`Launch`, `Probe`),
the rollback (`Undo`, `recover`, `Revive`) and the end (`Restore`, `ReportResult`); the root command
`recover-serverpack` (`CliLock`, `CliProve`, `CliFinish`); the finalization worker (`WorkerLock` to
`WorkerRelease`); the daemon's `ClearResult`; operators' start and stop (`Operate`). `AgentCrash` ends the
Agent's processes and not the helper; `HostCrash` ends all.

### Run

`serverpack`: two attempts, three crashes, breaks or hangs, one client that gives up. Two attempts let a
second migration meet what the first left behind; three faults reach a crash of the Agent, a host that goes
down during the recovery, and a failed restart after it; one client that gives up leaves a helper working
behind a lock that is free. It checks the types and

* `OriginalIntact`: from the journal's first phase to the archive, the original tree is whole in one place,
  and `runtime` is missing only behind the barrier;
* `StartsOnlyWhole`, `NeverMovesUnderServer`: no server on half a swap, no swap under a server;
* `VerdictIsFinal`, `OutcomesAreTrue` (`SettledWhenLifted`, `FailureKeepsOld`, `CompletedIsArchived`): what was committed,
  published or lifted is so;
* `BarrierLiftsUnlessStuck`: every barrier is lifted, except in the states that `Unrecoverable` and
  `Unfinishable` enumerate.

`FailureKeepsOld` and one case of `OriginalIntact` hold as long as no client gives up: a client that does
joins, with its next call, the run of the call it gave up.

Fairness: the executor, the helper, the worker, the daemon, and the administrator who is shown an interrupted
or failed migration. The finalization worker is taken as enabled; an environment variable turns it on.

### What was found

* **A second recovery bars the instance** (`RecoveredIsUsable`): the archive of a recovery's proof has one
  slot per instance, and the next operation after a second recovery raises.
* **A barrier nothing lifts** (`BarrierLifts`): a failed check before the first change leaves the operation
  journal at `failed` with a message that the recovery does not recognise; `Unrecoverable` lists the others.
* **One migration per instance**: the archive checkpoint stays, and the preflight refuses any later attempt.

### Abstractions

Archives, plans and backups are verified elsewhere; here a check succeeds or fails. Checksums are abstracted
to the build of a tree and whether it ran since. The unit's `activating` state and two branches that no
reachable state takes (a journal already in the history, a pending restart without evidence) are left out.
The Windows Agent has a swap of its own.

## 8. Backups

### State and actions

| model | code |
| --- | --- |
| `rows[j]` | a row of `backup_jobs`: status, action, the backup it is about, the order of `created_at` |
| `results[j]` | the status in `backup-results/<command>.json`; files are sorted by name, and names are UUIDs |
| `archives` | the `*.tar*` files of the instance, oldest first: whose they are, and whether they were finished |
| `root`, `previous` | the instance's directory and its `.c5-previous`: whose world, and whether whole |
| `server` | the game server, which `lifecycle` or an operator starts and stops |
| `agent`, `requests` | the loop and where it is in a job; heartbeats in flight and the threads that serve them |
| `runs[j]`, `kept` | history: how often a job was begun, and the restore whose world is to be kept |

A heartbeat carries `Reported`, the results of the last `MaxReports` files. The thread that serves it runs
`Record`, `Check`, `Schedule`, `List`, each a transaction, and answers with everything pending. The loop begins
the jobs in their order (`Begin`): one whose result is final is skipped, any other is begun. A backup is
`Create` (with the stop), `Pack`, `Seal`, `Prune`, `Restart`; a restore `Restore`, `Halt`, `Unpack`, `SetAside`,
`Activate`, `Launch`, `Discard`, and on failure `Undo`, `Erase`, `PutBack`, `Revive`. Each of them is a durable
step that may fail, at any time and without a bound; `Crash`, `Timeout`, `Lose` and a result that cannot be
written (`WriteFails`) are bounded by `MaxFaults`. Operators start and stop the server at any time (`Operate`).

### Run

`backups`: three jobs of one instance, reports of two, one archive kept, one fault, one heartbeat in flight. Three
jobs are a backup, another or a deletion, and a restore; with three results and reports of two, one result is in
no heartbeat. The properties also hold with two heartbeats in flight (two million states), which is left out of
the run for its time; `BackupProofs` covers any number. It checks the types and

* `RunsOnce`: a job is begun once. The loop would begin a job again that it left at running; what prevents it is
  that the Controller records what a heartbeat reports before it lists what is pending, so only a result that no
  heartbeat carries lets it happen;
* `WorldSurvives`: the world of the last restore that succeeded, or the first one, is whole in the directory or
  beside it, at every step of a restore, of its rollback and after a crash in either;
* `LatestIsRestorable`: the newest backup that the Controller saw completed is on disk, or a later whole archive
  took its place, or a deletion of it was begun;
* `SettlesUnlessStranded`: every job ends, except one that the Agent died in and one that no heartbeat reports.

Fairness: the loop, the sending and receiving of heartbeats, the handler threads. Users, operators and faults are
not fair. A job step may fail every time, so nothing says that a backup succeeds.

### What was found

* **An interrupted job runs for ever** (`EveryJobSettles`): the Agent that died in a job reports it as running;
  it is not delivered again, and the scheduler waits for it, so the instance gets no scheduled backup any more.
* **Results beyond the five hundredth** (`RunsOnce` without its second disjunct): files are never removed, and
  once an Agent has more of them the jobs with small names stay pending.
* **Two active jobs** (`SchedulesOnlyWhenFree`): the scheduler's check and its insert are two transactions.
* **The swap is not atomic** (`DirectoryAlwaysThere`): between its renames there is no directory, and nothing
  puts the copy back after a crash there.
* **Listed but gone** (`ListedIsRestorable`): archives that retention removed stay listed, and retention counts
  archives that a failed backup left incomplete.
* **A restore under a running server** (`NeverReplacedUnderServer`): an operator's start between the stop and the
  rename runs the server in the tree that is set aside.

All of them are stated at the end of `BackupExchange` and fail under `backups.cfg`.

### Abstractions

One instance, so the order of jobs and the cap on reports concern it alone; the cap really is over all instances
of the Agent, which only makes it easier to reach. Policies decide whether a backup may be due and how it is made:
both are choices here. The restore by the privileged helper, the hybrid worker, clones, imports and the vault of
deleted backups are left out.

## 9. What is proved

`CommandExchangeProofs` proves, for any instances, contracts, commands, threads, crashes and losses, from
`QueueAssumption`, `AgentAssumption` and `FaultAssumption`: `TypesHold`, `CommandsRunOnce`,
`RecordsAreTrue`, `DeletionIsConfirmed`, `ContractsGoLast`. None of these is inductive alone. The invariant
`IInv` adds what messages in flight and local variables may claim: a result that a request carries is in the
history and names a queued command (`WellReferred`), a command that ran once is decided or about to be
(`RunsCounted`), and a completed removal emptied the registry (`RemovalsTookEffect`). It has one lemma per transaction and per step of the Agent, `StepKeeps` joins them, and
`Inductive` lifts it with PTL.

`CommandDeliveryProofs` adds what becomes of a command between the two sides: `ActiveCommandsExclude`,
`OnlyAwaitedRun`, `FirstResultStays`, `ResultsAwaitRecording`. Rows move one way (`RowMoves`: queued,
delivered, final, purged; `StepShape`: or one is inserted) and the Agent's files stand (`FilesStand`: a history
entry never changes, a removed record never returns). So whatever a response in flight or the daemon's memory
claims of a command stays true however late it is read (`ClaimsStand`): an acknowledgement names a command
that is `Settled`, a delivery one that is `Live`. `DeliveryInv` says so of every request and of the daemon.

It also proves the refinement `PromiseKept`: each step maps to `Issue`, `Decide`, `Learn` or
`Forget` of `CommandPromise`, or to none. The hard case is a second thread that projects the same removal after
the first deleted the instance: `PromiseInv` says that an instance and its rows go together, so the second
deletion finds no row and the step stutters.

`InstanceRuntimeProofs` proves, for any pools and any number of commands, jobs, failures and restarts, from
`RuntimeAssumption`: `RuntimeTyped`, and `NoServerWhileAwaited`, which is `StoppedWhileAwaited` under
`MaxOutages = 0`. The invariant adds `LockDiscipline` (whoever is in a critical section holds the lock; only the
rollback and the failure path write outside one), `CopiesHeld` (whoever works from a copy has read one) and
`StoppedUnderLock` (from the executor's check to the end of its wait no server runs). With it a start cannot fall
between the check and the copy: `RunAdapter` and `Converge` need the lock that the executor holds. The theorem says
nothing of a copy that nobody waits for, with which the code does let a server run (`StoppedWhileCopying`).

`InstanceDataProofs` builds on it and proves `NoDataLost`: with `MaxLocals = 0`, `DataAvailable` holds. Its
invariant `DataInv` says that every record which some process may still write names a whole directory
(`EveryCopyWhole`); that from the staging of a job to the end of its copy the daemon holds no record of another
pool than the current one (`JobQuiet`): jobs are staged by the daemon itself, between its operations, so a pass
with a copy from before a migration ends before the cleanup of that migration can begin; and that while the helper
copies, with or without an executor, every record in anybody's hands is on the pool it copies from (`CopyQuiet`),
so a copy that ends late lands beside the instance and never under it. That is what makes the unlocked writes
harmless to the data, and it is what an operator's process, which is not the daemon, breaks.

`JobExchangeProofs` proves, for any instances, jobs, requests, crashes and losses, from
`JobQueueAssumption` and `JobFaultAssumption`: `TypesHold`, `JobsStartOnce`, `RecordsAreTrue`,
`OneProvisioningAtATime`, the action properties `ResultsAreKept`, `VerdictsStand`, `StartsAreLive`, and the
refinement `JobsKeepPromise`. The
invariant adds `WellReferred` (files, requests and memory name queued jobs of their channel and repeat what
was written; a final state in an answer is the Controller's), `FilesCoverRuns` (a job that ever ran has its
file until the Controller is done with it) and `PendingIsFresh` (a job on its way to be staged has a file or
never ran). The last is what makes redelivery harmless: an answer that was overtaken is never awaited.
For the refinement `RunInv` adds that an executor at work has written no end yet, so that it ends once; the steps
are sorted by what they do to executors (`WorkMoves`) and to rows (`RowsMove`), and each kind is one step of
`JobPromise`: `Begin`, `Refuse`, `End`, `Overturn`; `Queue`, `Learn`, `Forget`.

`StorageExchangeProofs` proves, for any finite set of instances and any pools, migrations, clean-ups, crashes
and losses, from `StorageAssumption` and `StorageFaultAssumption`: `StorageTyped`, `OneMigrationAtATime`,
`DataIsKept`, `CompletedHasMoved`. The clean-up itself never deletes the pool the record names; what could
go wrong is a record that starts to name a pool without a directory. The lock lets one executor of an instance
act at a time (`OneLockHolder`), so the copy of a migration stays in its target until the record names it, unless
the instance went astray, and the record keeps naming the source until then (`CopiesSafe`). A copy that lingers
only ever adds a directory (`LandGrows`, `LateCopyKeeps`). An operation that has an
executor keeps its result file until its row is final (`FilesKept`), so it is never staged twice and an undo
that overturned something is never forgotten. A provisioning runs before the Controller has seen a pool of its
instance, so before any migration of it (`ProvisionedFirst`), and a result that claims completion is of a
migration that moved the record (`ClaimsTrue`).
Instances are assumed finite because the capacity of a pool counts them.

`ServerPackProofs` proves, for any number of attempts, faults and clients that give up, from
`MigrationAssumption`: `MigrationTyped`, `NothingMovesUnderServer`, `CommitIsFinal`. The helper outlives the
client that called it, so the invariant ties a phase at work to the journal and not to a client: a switch or a
recovery has a journal and no decision, a commit has a checked one, an archival a decision (`HelperSound`).
`MovesBehindBarrier` says that as long as steps which replace the directory are left, the server is down and
the operation journal bars whoever could start it; `QuietAfterSwap` that the steps of the executor which do
start it find the helper idle; `AheadSound` that a new attempt meets no half-finished swap.
`InvokeSound` and `HelperStepSound` are the two lemmas the rest stands on.

It also proves `OriginalStaysIntact`, `OutcomesStayTrue` and `StartsAreWhole`, the three properties about what is
in the directories. They are not inductive, with `IInv` or without: nothing in them excludes a switch that has
`activate` still to do and an empty stage, or a rollback that finds the commit it waits for already decided. The
second part of the invariant, `Kept`, is added to the first and was checked on a small instance before it was
proved. `TreesKept` says where the trees are at each phase of the journal. `WorkKnown` enumerates how far each
phase of the helper can be, and ties what it has left to the journal and the directories it finds; `RecoverAt`
covers a recovery started at any of the points where a switch may have died, and `AnswerTrue` what its answer
will say. `ClientsKnow` says what the executor, the administrator and the worker may conclude from such an answer:
where the journal is at each step of the executor (`PhaseSound`); that a rollback no forgotten helper can disturb
ends with the original in place (`UndoSound`), which is what a failure reports (`FailureSound`); that a lifted
barrier leaves the journal empty or recovered (`BarrierSound`), and success an archived migration
(`SuccessSound`). `HelperWorks` and `InvokeKnown` carry the first two through the helper; one lemma per group of
steps carries the third, and `StepKept` joins them.

`BackupProofs` proves, for any finite set of jobs and any heartbeats, kept archives and faults, from
`BackupJobsAssumption` and `BackupAssumption`: `BackupTyped`, `WorldIsKept`, `JobsBeginOnce`,
`LatestStaysRestorable`, and `VerdictsStand`, which no run checks. `WorldInv` says at each step of a
restore which of the two directories is the one to keep; a restore that finds no copy beside the directory knows
that the directory itself is it. `OnceInv` follows a job left at running: the request that the loop waits for
reports it, as the files do not change meanwhile; once recorded it is not pending, and a job that is inserted
later has no result yet; so whatever is listed or received is new, ended, or hidden by the cap (`Harmless`), and a
hidden result stays hidden, as files are only added (`StaysUnreported`). Jobs are assumed finite because the cap
counts them.

The newest backup stays restorable because the loop begins jobs in the order of their rows, so an archive that
takes the place of another is of a later job. `CreationInv` numbers the rows, and says that a deletion or a restore
is about a backup that had completed. `TruthInv` says that a verdict is the one in the Agent's file, although a
report overwrites any status, as a report of a running job is in flight only while no verdict is known; `VerdictsStand`
is its reading for every behaviour. `OrderInv` says that once a later job was begun an earlier one never is
again (`Past`), through what is listed, in flight and in the loop's hands (`Waits`). `StageInv` says that the last
archive is the one the job at work is writing. With them `RestorableInv` is inductive: retention removes only what
is followed by a whole archive of its own job.

Only model-checked, on the instances above: the liveness properties `SettlesUnlessPoisoned`, `Converges`,
`SettlesUnlessAbandoned`, `AnsweredUnlessOrphaned`, `OperationsSettle`, `BarrierLiftsUnlessStuck` and
`SettlesUnlessStranded`, as liveness under fairness is outside the prover's reach. Every other property of a passing
run is a theorem. What the code violates is shown by a run or named with its finding, and is no theorem either.

## 10. Checking

    tlc -workers 2 -config exchange.cfg MCCommandExchange
    tlc -workers 2 -config runtime_operators.cfg MCInstanceRuntime
    tlc -workers 2 -config jobs.cfg MCJobExchange
    tlc -workers 2 -config storage.cfg MCStorageExchange
    tlc -workers 2 -config serverpack.cfg ServerPackMigration
    tlc -workers 2 -config backups.cfg BackupExchange
    tlapm CommandExchangeProofs.tla
    tlapm CommandDeliveryProofs.tla
    tlapm InstanceRuntimeProofs.tla
    tlapm InstanceDataProofs.tla
    tlapm JobExchangeProofs.tla
    tlapm StorageExchangeProofs.tla
    tlapm ServerPackProofs.tla
    tlapm BackupProofs.tla

Operators whose comment begins with "Mutant" are plausible bugs; nothing uses them until one replaces the
definition it mutates, and the property that `PROJECT.json` names then fails.

## 11. Not modelled

Left for later modules of the plan: the inside of the provisioning executor, the caches of game data, ports,
pairing and relink, update and uninstall, artifact transfer, native restart and maintenance, content
and configuration revisions, automation with its leases. Left out for good: rendering, RBAC tables, the
catalog, installers, the shell core, schema upgrades and observability, which are functions of one row or
plain I/O; and the Windows Agent, which speaks the same protocol. The models cover a small share of the
repository's lines, and all of the heartbeat protocol that instances, provisionings, game data, storage
pools and backups go through.
