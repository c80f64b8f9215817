# A verification project for mududb

mududb is a database whose server runs one worker per core. A worker is a
single-threaded event loop (an io_uring ring loop or a tokio current-thread
runtime) that owns partitions, sessions, a lock table, a snapshot manager, a
write-ahead log and relation files. Requests of different sessions of a worker
interleave at every `await`; nothing else is concurrent inside a worker, and
workers talk to each other by messages. This directory models the parts of a
worker that are hard to test because of those interleavings, of crashes and of
I/O errors. Paths below are relative to `src/mudu_kernel/src/`.

Each module's opening comment says which code it models and what it abstracts;
`PROJECT.json` maps every definition to the lines it stands for.

## The system and its parts

| Part | State | What makes it hard | Modules |
|---|---|---|---|
| Lock manager (`server/x_lock_mgr.rs`) | owner and FIFO queue per key, latches | wakeups sent after the mutex is dropped, deadlines, 30 s TTL | `XLockMgr`, `LockTable` |
| Transactions (`server/x_contract`, `server/worker_snapshot.rs`, `server/worker_storage.rs`) | running xids, staged writes, version chains | two concurrency-control schemes, checks acted on several awaits later, error paths that keep resources | `WorkerTx`, `RangeRead` |
| Write-ahead log (`wal/`) | LSN counter, queue, flush rounds, chunk files, watermark | concurrent rounds, power loss, I/O errors | `WorkerWal` |
| Relations (`storage/relation/`, `contract/data_row.rs`) | index, version windows, key and value file, write stripes | overlapping commits, two files that a crash cuts at different places, replay over what was rebuilt | `WorkerRelation` |
| Relation files (`storage/time_series/`) | page images, dirty pages, physical log, data file | latch-free readers beside splits, flush rounds beside writers, crash between log and pages | `TimeSeriesFile` |
| Filesystem objects (`server/fs_*.rs`, `command/fs_hook.rs`) | object rows, content files, fds, collection round | collection interleaved with writers, fds that outlive transactions, crash between content and row | `FsObject`, `FsFd` |
| Cross-partition transactions (`server/x_contract/rpc.rs`, `server/partition_rpc.rs`, `server/message_bus_*.rs`) | remote locks, handed-off write sets, mailboxes, waiters | partial failure between workers, handlers that outlive their callers, late answers | `CrossPartition` |
| Partition router (`server/partition_router.rs`) | none: a function of the rule | rules with gaps and overlaps, bounds | `PartitionRouter` |
| Catalogs, DDL, plan cache (`meta/`, `command/`, `mudu_conn/plan_cache.rs`) | maps of every worker, catalog rows, versions, plans | maps against rows, broadcast beside statements, crash between two catalog writes | `MetaCatalog` |
| Server start (`server/linux/`, `RecoveryCoordinator`) | counter and flag at a barrier | failures before and after it, spurious wakeups | `RecoveryBarrier` |
| Service loop (`server/linux/worker_ring_loop*`) | task registry, mailbox, eventfd, timeouts, flush slot | wakes from other threads just before the loop blocks, shutdown with work in flight | `RingLoop` |

How they interact: a statement of a session is a task of the service loop
(`RingLoop`); it is bound against the catalogs (`MetaCatalog`), routed
(`PartitionRouter`, `RangeRead`), locks its rows (`XLockMgr`) here or on another
worker (`CrossPartition`), and stages its writes (`WorkerTx`). A commit logs them
(`WorkerWal`) and writes them to relations (`WorkerRelation`), each of which is
two relation files (`TimeSeriesFile`); FILE columns go through `FsObject`.
`WorkerTx` and `CrossPartition` use the lock manager through `LockTable`, which
`XLockMgr` is shown to implement; `RangeRead` extends `PartitionRouter`.

`PROJECT.json` has the full list of parts, with the reason for each one that is
not modelled, and the hazards with the line at which each one bites.

## Modules

`XLockMgr` models the lock manager. One critical section of its mutex is one
action; each notification is a step of its own after it, as in `send_wakes`.
A call goes through `LockSomeFast` or `LockSomeSlow`, then rounds of
`AttemptGranted`, `AttemptFails`, `Park`, `Wake` and, when its deadline has
passed, `LeaveOnTimeout`. Time is two sets: `stale` (owners older than the TTL)
and `late` (calls past their deadline). `LockTable` is the abstract
specification: keys have an owner, a request takes all of its keys or none,
only the owner or the TTL frees a key. `XLockMgr` implements it under the
identity mapping of `owner` and `stale`.

`WorkerTx` models transactions of one worker on top of `LockTable`'s view of
locks. A session is a process. SQL rows are written under a statement lock and
read at the latest committed version (`StmtLock`, then `Insert`, `Update` or
`Delete`); key-value keys are read at the begin snapshot (`KvGet`, `KvPut`).
A commit is `CommitTx`, `CommitLock`, `Prepare`, `EnqueueLog`, one `ApplyKey`
per key, `CommitFinish` and `WaitReturns`, the wait for the durability watermark,
with an error exit at each. `AutoPut`, `AutoApply` and `AutoFails` are the
autocommit calls. `FlushQueue` and `FlushFails` are a flush round that succeeds or
fails; a failed one is never reported, so the watermark stays before it. A version is the xid that wrote it
and the version its writer read; that is all lost updates can be told by.
`SnapshotVisible` is the visibility test of `contract/snapshot.rs` and
`IsVisible` the one of `WorkerSnapshot`: the code has both.

`WorkerWal` models the log: `EnqueueGroupCommit` allocates LSNs, `StartRound`
drains batches into a flush slot and reserves file offsets, `RoundWritten`,
`RoundSynced` and `RoundWrittenOnly` are the completions under the two sync
policies, `Ready` is the watermark `WaitLsn`, `DirectAppend` and its
completions bypass the queue, `FsyncTake`, `FsyncSubmit`, `FsyncDone` and
`FsyncFails` are the periodic fsync, whose submission and completion other rounds
interleave with; `Crash` loses the page cache or only the process, `Restart` is
the tail scan and the replay, frame by frame and chunk by chunk.

`FsObject` models objects bound to table rows. `Hook` runs before the statement
lock and `Exec` under it; `FsOpenWrite`, `FsWrite`, `FsFsync`, `FsClose` are the
syscalls of write fds; `Commit` applies table rows and object rows together;
`GcStart`, `ScanFsRoots`, `GcCheck`, `RemoveRootEntry`, `GcEnd` are the awaits of
one collection round; `Crash` and `RecoverScan` are a restart. A content file
has an identity, since an unlinked file can still be written.

`FsFd` models the fd table of a session (the allocation hint, and the cursor
and length of each fd against the length of its file).

`TimeSeriesFile` models one relation file: a chain of pages, newest timestamps
first. `InsertBatch` plans rows against an overlay (`FindInsertLocation`,
`InsertBefore`, `InsertAfter`, `SplitInsert`), logs the page deltas and publishes
the images in one step, as the code does under its write latch; `Delete` rewrites
one page. `FlushWal` moves log batches from the queue to the log file,
`FlushStart`, `FlushWrite`, `FlushWriteFails` and `FlushEnd` are a round of
`flush_dirty_pages` beside the writers, `Get`, `ScanRange`, `ReadPage` and
`EndRead` are a reader that holds no latch. `Crash` and `CrashInReplay` keep the
log file and the data file; `Open` replays one over the other (`ReplayDelta`) and
accepts the result only when `load_chain_metadata` would (`Openable`).

`WorkerRelation` models one relation below the commits: `EnqueueCommit` logs the
operations, `TakeStripe`, `ResolveRows`, `ReserveTupleIds`, `WriteKeyFile`,
`WriteValueFile` and `PublishRows` are `write_rows`, `ComputeDeltas` and
`DeltasWritten` the deferred deltas, which publish first and write afterwards.
`ApplyForeign` is a part applied for another worker, without this worker's log.
`Crash` keeps a prefix of each file; `RebuiltRow` is the index as rebuilt,
`ReplayOp` the replay of the worker's log over it. A payload records who wrote it
and which deltas were added how often: lost and doubled updates show.

`CrossPartition` models transactions over several workers. `WriteLocal` and
`WriteRemote` are statements; `CommitLocal`, `CommitHandoff` and `CommitMixed` are
the three routes of a commit, `Handle...` the tasks that serve the calls on the
owner, with the retries of a handed-off write set and the guard against applying
a part twice. `Send`, `Deliver`, `Reply`, `TakeAnswer` and `RpcTimeout` are the
message bus: a call that timed out leaves its handler running and its answer to
come. Every file write, flush round and drive of the queue may fail, every call may
time out. Commits and handlers wait for the watermark of their worker, which stops
for good behind a failed round (`stopped`, `behind`).

`PartitionRouter` has the router as operators over any total order on route
tuples. `RangeRead` models one transaction's writes, range and prefix reads over
the partitions of a table (`ReadRange`, `ReadPrefix`, one `ReadPartition` per
partition) while others commit in between; `Overlay` lays staged rows over what a
local or a remote partition returned, the two of which the code does differently.
A table that is not bound yet has one partition of its own; `Bind`, the second half of
CREATE TABLE, comes at any time, also in the middle of a scan.

`MetaCatalog` models DDL on the catalogs of all workers. `BindCreateTable` and
`BindOther` bind a statement, `LockAndCheck` takes the path's lock and checks,
`WriteCatalog` writes and flushes one catalog row, `WriteCatalogFails` leaves at the
place its flush has reserved the row, its key alone or a hole, `Broadcast` changes the maps of
one registered instance, then its version. `LookUpPlan`, `BindTemplate`,
`InsertPlan` and `RunPlan` are other statements beside them; `LogRow` names the
table in the worker's log. `Crash` may tear the row being written, `Restart` cuts
the log of the key file or of the value file at the first hole, loads the maps and
refuses when the log names a table that is gone.

`RecoveryBarrier` models the worker threads up to and in their service loops, one
critical section of the coordinator's mutex per step (`worker_succeeded`,
`worker_failed`, `LeaveWait`, `SpuriousWakeup`).

`RingLoop` models the service loop of one worker, one step per queue element it
handles: `DrainMailbox`, `DrainCompletions`, `PollTask`, `Submit`, `WaitForCqe` and
a step for each kind of completion. Everything outside the thread is its
environment: the shutdown notifier, other workers and helper threads (a push and
the write to the eventfd are two steps), clients, the kernel, the clock.

The `...Proofs` modules hold the theorems. The `MC...` modules instantiate the
others for TLC. Most hold two or three instances; a behaviour is about one of
them, and the others keep their initial state. `MCReturns` has `CrossPartition` and
`WorkerTx` on shared variables, `MCSchema` has `RangeRead` and `MetaCatalog`,
`MCStorage` has `WorkerRelation` and `FsObject`, `MCServer` has `RecoveryBarrier`,
`RingLoop` and `FsFd`; the others have two instances of one module.

## Runs

| Run | Checks | Instance and why it is enough |
|---|---|---|
| `lock` | `NoLostWakeup`, `ImplementsLockTable`, `DeadlineReturns`; `FifoGrantOrder`, `FifoLockSomeReturns` | two transactions with the TTL, deadlines and nested calls, which multiply the interleavings; three transactions without them, so that a waiter stands behind a waiter; two keys requested alone or together in either order |
| `tx_rows` | `RowNoLostUpdate`, `CheckStillHolds`, `LogExplainsVersions` | two sessions on a row and a key-value key; three transactions, so that a third overwrites what the first two did; the wait for the watermark of each commit; and key-value calls with autocommit, TTL and failing I/O, for the last property |
| `returns` | `EveryRequestReturns` | one worker with every error path, failed flush rounds, autocommit and the TTL on one key; two workers with statements, commits and rollbacks by call while other sessions keep rows locked; the same with one call, write, flush round or drive that fails |
| `wal` | `CommittedSurvives`, `WatermarkDurable`, `CommitReturns`; `PeriodicTracked` | four entries, two flush slots and batches of two: rounds complete in either order; chunks of two frames: commits span chunks; two power losses: a restart continues a truncated log. The other sync policy with a direct append, a two-part entry and write errors |
| `fs_aborts` | `AbortedReclaimed` | directory objects of two entries with collection running, and a crash |
| `storage` | `LatestIsLogged`, `OneTupleId`, `ReadsNewestVisible`, `RefusedOnlyByLog`, `NoStripeCycle`; `SealedHasContent`, `ReferencedHasRow` | three commits overlapping on two keys on two stripes, in both orders; a window of two versions, so that old ones leave it; a column at its limit; a failed write and two crashes. Two sessions that race for one row with FILE objects, one write fd each, a crash, no collection |
| `ts` | `FileHoldsWritten`, `ChainSound`; `ReadsRightBesideWriters`, `CleanIsOnDiskBesideWriters` | pages of two records, three timestamps, three writes of up to two rows: every insert location, both kinds of split; a flush round, two crashes, one of them possibly in the replay of the other. One read beside three writes and a flush round with failing and reordered page writes |
| `xp_routes` | `NoUpdateLost`, `AppliedOnce`, `AckedIsApplied`, `LocksTracked`, `TakesOwnAnswer`, `NoAnswerLeft` | two sessions on two workers, a row on each; three rows in three partitions in the other instances, so that all three routes occur; one fault at any call, write or flush round with up to two calls, three calls without faults; and both sessions on one worker, so that commit locks meet |
| `schema` | `OneRowPerKey`, `InnerRowsRight`; `CatalogsAgree`, `PlanFresh`, `DdlDurable` | seven tables: split, gapped, overlapping, two-column keys partitioned by the first, the second and both columns, and one that is bound while it is used; two writes, a delta, two other commits, one scan. Two interchangeable DDL sessions on one worker, a statement on the other, three DDL statements, a failed write with each of its outcomes, a crash |
| `server` | `ServesOnlyRecovered`; `WokenIsPolled`, `ShutdownCompletes`; `MinimumFree` | three workers, each of which may fail at any point; a loop with one connection and one frame, call or periodic round, a poll budget of one so that tasks stay queued over a turn; fds up to 2, so that a hole in a full table and the wrapped hint occur |
| `ts_pageflush` | `NeverRefused` (violated) | a finding, below |
| `xp_guard` | `AckedApplied` (violated) | a finding, below |

Semicolons separate the properties of different instances. Deadlock checking is off
where counters are bounded (timestamps, entries, writes, crashes, work) and the
model simply stops; `lock` keeps it on.

Each module also has a type invariant, and some have further invariants that no run
lists, as they follow from or lead up to those above (`QueuesSound`, `HeldIsOwned`,
`FileOrderIsLsnOrder`, `LogCoversPages`, `ReadsOwnPayload`, `RemoteEdgesRight`,
`RefusedOnlyByDrop`, `LengthWithinFile`). They hold on the same instances. The loop
with one unit of work plus a periodic round also satisfies both of its liveness
properties, in more time.

Assumptions that the code does not enforce are constants of the models:

* `LogFirst` (`ts`): no flush round starts while log batches are queued; without it
  the file may be refused after a crash (`ts_pageflush`).
* `InOrder` and no `IoFails` (`ts`, crashing instance): the page writes of a round
  complete in page order, as under tokio. Under io_uring, or after a failed write, a
  later page can extend the file before an earlier new one, and a crash then leaves
  a hole of zero bytes that replay refuses as a torn page although the log would
  rebuild it; `LogCoversPages` fails with either constant changed.
* `WalFirst` (`storage`): a relation file keeps no batch of a commit whose entry the
  worker's log lost. The files have logs of their own, flushed on their own, so a
  crash may break it; `LatestIsLogged` then fails.

`InnerRowsRight` leaves out the rows at the edges of a range, about which the table
below says more. `NoUpdateLost` and `AckedIsApplied` leave out what `xp_guard` shows,
and `NoUpdateLost` writers that were not told Ok. `DdlDurable` leaves out statements
written behind a hole of their catalog's log. `EveryRequestReturns` leaves out a
commit on its own worker that waits for the watermark behind a failed flush round:
it waits for ever (`CommitReturns` in the table below); a handler that waits so makes
its caller time out. `SealedHasContent` is a claim about one write fd per session and
no collection.
`InsertBatch` never rewrites a record where one timestamp spans pages: the code
appends a second record there, as its tests document
(`time_series_file/tests.rs:932-937`).

### The findings with a run

`ts_pageflush`: `persist_plan` queues the log batch without forcing it and
publishes dirty pages; `flush_dirty_pages` writes them without waiting for the
queue. A crash in a round then leaves a page linking to one that neither the data
file nor the log has, and the file does not open.
`time_series_file/plan.rs:44` says "Physical WAL must reach durable storage before
any data-page update." The queue of a data relation's own log is drained only by
`flush_wal_async` (on `close` and on the catalogs' writes), while
`tests.rs:593-594` says that "production workers drive it continuously".

`xp_guard`: `apply_cross_partition_tx_async` skips a part whose `(tx_id, partition_id)`
it has seen, and `tx_id` is the xid of the coordinator, which every worker counts
from 1. When two coordinators have transactions of equal xid, the writes of the
second one to that partition are dropped and its commit returns Ok. The field's doc
(`server/worker_storage.rs:70-74`) has in mind "replay/retries of the same partition's
write set".

### Other disagreements between comments and code

These were met while modelling. Each is shown by TLC with the definition and
constants named here, starting from the configuration of the same module; they
are not kept as runs.

| Definition and constants | What it shows | What the repository says |
|---|---|---|
| `NoHoldAndWaitCycle`, `Nested = TRUE` | statement locks are held while `lock_some` waits for further keys; a cycle lasts until a deadline | `x_lock_mgr.rs:97-99` "no hold-and-wait cycle can form regardless of key ordering" |
| `RowNoLostUpdate`, `TtlFires = TRUE` | an idle transaction loses its lock to the TTL, commits without a check and overwrites a newer version | `x_lock_mgr.rs:18-19` the TTL "only ever fires for leaked statement locks" |
| `KvNoLostUpdate`, two sessions, three transactions | `_Snapshot::from` swaps its two bounds, so `get` and the conflict check of the commit disagree on visibility and an update is lost | `contract/snapshot.rs:86` and `:89`, whose comments describe the opposite assignment |
| `WalOrderIsApplyOrder`, `Autocommit = TRUE` | autocommit writes of one key are logged in one order and applied in the other | `x_contract/kv.rs:216-222` "keeps WAL order equal to apply order" |
| `CommitReleasesLocks` | a commit that fails in `acquire_commit_locks` or `prepare_commit_async` keeps its locks and its running xid | `x_contract/kv.rs:167-172` every lock "is released on return" |
| `CommittedSurvives`, `Direct = {e2}` | a direct append in flight leaves a hole in front of an acknowledged commit at a power loss | `sync_policy.rs` "A committed transaction survives any power loss" |
| `RecoverySucceeds`, two-part entries | truncation drops the first part of an entry and keeps the second; replay fails | `worker_log.rs:65-68` "recovery must truncate there instead of failing" |
| `CommitReturns`, `IoFails = TRUE` | a failed round is never reported to the watermark; other commits wait for ever (tokio backend) | `flush.rs:630-641` "so no waiter parks forever" |
| `SealedHasContent`, `GcRuns = TRUE`, no crash | a collection round removes the content of an object being written, or committed after the oldest running transaction began | `fs_gc.rs:154-156` "observes every generation a running transaction may reference" |
| `SealedImmutable`, `MaxFds = 2` | a second write fd writes to a sealed generation | `fs_service.rs:8` "Object generations are immutable" |
| `UnclosedUnsealed`, `IsDirectory = TRUE` | closing one entry seals the object, and the commit makes it so while an entry is open for writing | `fs_service.rs:388-390` "generations that were never sealed" |
| `NoOrphanRow`, two sessions | the hook looked for the object before a concurrent insert committed; the object stays | `command/fs_hook.rs:135-137` "a delete for every object id the old row referenced" |
| `NoOrphanRow`, one session | closing an fd after a rollback seals an object no row refers to | `fs_gc.rs:8-10` aborted writes are "removed" |
| `LengthWithinFile`, `IoSizes = {0, 1}` | an empty write past the end moves the fd's length beyond its file | `fs_service.rs:782-784` a short buffer "at EOF instead of an error" |
| `LengthCurrent` | the length of one write fd ignores what another wrote | `fs_service.rs:310-311` "current length" |
| `CheckStillHolds`, `Autocommit = TRUE` | an autocommit write appends its version between the check of a commit and its apply | `x_contract/kv.rs:216-222`, as above |
| `AckedInFiles` | a commit is acknowledged while its batches are still queued in the logs of the relation's own files | `x_contract/kv.rs:253-257` "so the PL batches are durable before the commit is reported" |
| `NeverRefused` of `WorkerRelation` (`WorkerRelation_overflow.cfg`) | two deltas that were in range in the order they were applied are not in the order they were logged, and recovery fails | `worker_storage.rs:805-808` "deferred deltas commute by contract, so the result equals the live apply" |
| `DdlDurable`, DDL on both workers (`MetaCatalog_durable.cfg`) | each worker's catalog relation has its own offset into the same log file; one overwrites the row of the other, and an acknowledged table is gone after a restart | `meta/schema_catalog.rs:154-155` "so the DDL is durable when it returns" |
| `DdlDurableAlways`, one failed catalog write (`MetaCatalog_hole.cfg`) | the failed flush has drained its queue and reserved its place in the log; the next DDL statement is written behind the hole and acknowledged, and the tail scan of a restart cuts it off | `meta/schema_catalog.rs:154-155`, as above |
| `RowsReachable` (`RangeRead_bind.cfg`) | CREATE TABLE publishes the table before it binds it to its rule; a row written in between goes to the default partition and is not found afterwards | `doc/en/partition.md:167`, "The routing key is built from the bound partition columns, then compared to the range rule." |
| `PlacementFollows` | `insert_sync` does not overwrite: after a second placement or binding the maps keep the first, the catalog row has the second | `doc/en/partition.md:48` "placement may change independently of the table definition" |
| `RecoverySucceeds` of `MetaCatalog` | the log names a dropped table, and every later restart fails | `recovery.rs`: the log is replayed "before the worker starts serving live traffic" |
| `FsTypeExists` | a filesystem type is dropped between the bind of a CREATE TABLE that uses it and its check | `meta/meta_mgr.rs` "Reject dropping a filesystem type that is still referenced" |
| `ScanRight` (`RangeRead_edges.cfg`) | a range with an included end that equals the start of a partition skips that partition (`partition_router.rs:228-235`) | `Bound::Included` |
| `ScanRight`, with writes | local reads return a staged row at an excluded start and miss one at an included end (`worker_storage.rs:393-395`); staged rows are filtered by comparing big-endian bytes, so negative keys are misplaced; deferred deltas are not seen | `x_contract/utils.rs:545-547` "the inclusive/exclusive boundary keys are adjusted here", for remote reads only |
| `NeverBlocksOnReady` | a due collection or page-flush round is queued after `more_ready` is computed and nothing nudges the eventfd, so on an idle worker it is polled when the next completion or timeout arrives | `worker_ring_loop/runtime.rs:110` "Tasks are still queued: do not block in wait_for_cqe" |

Others were read off the code while modelling it:

* `x_contract/utils.rs:442-444` says of `eval_sub_wrap` that `wrap > floor` makes any two
  updates commute; for 20, floor 10, wrap 11 and the amounts 20 and 3 one order
  gives 8, the other 19.
* `worker_ring_loop.rs:680-683` says page-flush rounds also run while shutting down; the
  function returns when `stop` is set, which the notifier does first.
* `loop_mailbox.rs:42` says messages are drained only while not shutting down;
  `process_cqe` drains them then as well.
* A worker that waits at the recovery barrier returns an error when another one
  fails after the barrier was complete, though readiness has been published. A
  worker whose service loop fails leaves the others serving; the server reports it
  when it stops.
* Cross-partition transactions: a handoff that timed out may have been applied, and
  its client is told it failed; its abort frees the row while the handler runs on,
  so the late write can overwrite a commit that was acknowledged in between; a mixed
  commit that fails half-way stays applied in part; remote locks of a failed statement are left to the TTL; a lock granted after
  its caller timed out is not tracked; a mixed commit whose lock times out keeps
  its xid running. `AckedIsApplied` and `LocksTracked` are stated around these.
* A crash between the flush of a catalog's key log and of its value log, while a row
  is overwritten, loses the row that had been acknowledged before.
* `CREATE TABLE ... PARTITION BY` is two DDL steps, with a crash possible in between;
  a catalog write whose fsync failed has left its row in the log, which after a restart
  can shadow a table created later; filesystem type ids are given out again after a restart.
* A deferred delta followed by an absolute update in one transaction is applied
  again at commit.

## Fairness

* `XLockMgr`: a task that is runnable is polled (weak fairness of the steps of a
  call), and deadlines pass. `FifoLockSomeReturns` switches deadlines and the TTL off
  and lets a transaction end (`ReleaseAll`), so that a call returns only because
  it is granted; `DeadlineReturns` assumes no release.
* `WorkerTx`, `CrossPartition`: only the steps inside a request, the delivery of
  messages and the handlers are fair; clients need not continue, and locks may
  be held for ever. The wait for a lock ends by its deadline, and the call of a
  handler that hangs behind a failed flush round by its timeout. The worker's loop
  flushes its queue (`FlushQueue`); faults are not fair.
* `WorkerWal`: a round is started when something is queued and completes its I/O; an
  acknowledged commit is polled. `CommitReturns` is checked without I/O errors.
* `FsObject`: a collection round is started again and again (`FS_GC_INTERVAL`) and
  runs to its end; I/O errors of a round are not modelled. On an idle io_uring worker
  the interval is an underestimate (`NeverBlocksOnReady`).
* `RingLoop`: the thread is scheduled, and the kernel, the clock and helper threads
  do not all stop with something left to do. Clients may be silent and other workers
  may never answer or call.
* The other modules state safety only.

## Proofs

TLAPS checks the following for every value of the constants that satisfies the
`ASSUME` of the module.

* `LockSafety`: the inductive invariant is `TypeOK`, `QueuesSound` and
  `NoLostWakeup` together. A free key with a non-empty queue has a signalled
  head or a wakeup to it in some task's `wakes`; that survives a step only
  because a registration belongs to a call that is still waiting
  (`QueuesSound`), so that whoever leaves a queue passes the wakeup on.
* `LockExclusion` assumes `~TtlFires`. With the TTL the statement is false:
  an owner is reclaimed while its transaction is alive.
* `LockRefinement`: every step is an `Acquire`, `Reclaim`, `Release` or `Expire`
  of `LockTable`, or leaves the table alone.
* `WalDurability`: the watermark covers only durable frames. The strengthening
  (`IInv` of `WorkerWalProofs`) says where every allocated LSN is: queued, in
  exactly one round, appended directly, reported, or lost by a failed round;
  that what is reported is durable under the policy; and that nothing below the
  watermark is queued or in a round. It is needed because rounds complete out
  of order.
* `FdMinimum`: from the invariant that all fds below the hint are in use.
* `FdLength` assumes that no write is empty (`0 \notin IoSizes`); the
  table above says why.
* `RouterPruning`: for any rule and any total order, the partitions a range is
  routed to include the partition of every tuple within the bounds, except the one
  at an included end.
* `ScanOneRow`: a scan returns at most one row for a key, for every rule, any writes
  between its partitions and a bind at any time. The invariant (`PlacedInv` and `ScanInv`)
  says that committed and staged rows of a key are in the default partition or in
  the one partition its rule gives it, the first of those that contain it
  (`RouterUnique`); that a scan reads either the default partition or partitions of the
  rule; and that a key it has got belongs to none of those it has still to read. It is
  needed because rows of one key can be in two partitions once a table is bound.
* `BarrierSafe`: no service loop runs, and readiness is not published, before every
  worker has recovered. The invariant (`BInv`) says that the counter is the number
  of a set of workers, all recovered and none of them still to arrive, so that it
  reaches the total only with all of them; who passed the barrier saw that total.
  It is needed because failures and spurious wakeups come at any time.

The runs `lock`, `wal`, `schema` and `server` check on their instances what these
theorems state for all. Only model-checked: all liveness properties (fairness and
`ENABLED` are beyond the prover), everything about replay after a crash
(`CommittedSurvives`, `LatestIsLogged`, `FileHoldsWritten`, `DdlDurable`), whose
definitions fold over logs, and `WorkerTx`, `CrossPartition`, `FsObject`,
`TimeSeriesFile`, `WorkerRelation`, `MetaCatalog` and `RingLoop` as a whole.

## Not modelled

Values and byte formats; predicates of statements; the layout of pages and of the
B+tree; parsers, binder, planner and executors; bulk load and save; the procedure
runtime; client libraries, adapters, code generation and tools. They are sequential
and share no state, or are generated; `PROJECT.json` gives the reason for each.
Of what is modelled:

* The content directory of filesystem objects is shared by workers, `FsObject` has
  one worker; a commit there is one step, since `WorkerTx` and `WorkerWal` split it.
  Errors of the collection, `fs_readdir` and dropped filesystem types are left out.
* Relation files: `delete_file`, power loss of data pages, schema hashes, records of
  different sizes, rounds of more than one batch of 16 pages. Replay starts from the
  whole log, so its LSN test only tells a flushed page from an older one.
* `CrossPartition`: crashes of a worker, whose log does not name the parts applied for
  others; the TTL of a transaction that is still open, which `WorkerTx` has.
* `MetaCatalog`: the fields of a table description; the crash in the middle of a
  broadcast loses all maps, as they are memory.
* `RingLoop`: one worker, with the others as its environment; the task that
  recovers cross-partition transactions before the first turn, the slot of the
  periodic fsync, failed accepts and event callbacks; the tokio backend, whose
  scheduler is not part of the repository.
* `RecoveryBarrier`: creation of sockets and threads.
