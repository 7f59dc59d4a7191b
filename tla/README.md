# Formal models of HeliosDB-Nano

TLA+ specifications of the concurrent core of HeliosDB-Nano, an embedded and
client/server SQL database in Rust over RocksDB, with the TLC configurations
that check them on small instances and TLAPS proofs about them. Source paths
below are relative to the crate's `src/` directory; `PROJECT.json` maps every
definition to file and lines.

## 1. The system

| Component | State | Operations | Talks to |
|---|---|---|---|
| Engine timestamps (`storage/engine.rs`, `lib.rs`) | one counter under a lock | `next_timestamp`, `next_commit_timestamp`, `current_timestamp` | announces commits to the conflict registry inside the lock |
| Write-conflict registry (`storage/conflict.rs`) | `recent_writes`, `active_snapshots`, in-flight ring, watermark, condition variable | `begin_commit`, `end_commit`, `try_reclaim`, `snapshot_barrier`, `validate_and_record`, `prune`, (de)register | every transaction |
| Transactions (`storage/transaction.rs`) | snapshot, write set, insert log, lock guards, savepoints | `get`, `put`, `delete`, `refresh_snapshot`, `commit`, `commit_with_timestamp`, `rollback`, `Drop` | registry, lock manager, group committer, WAL, row cache, RocksDB |
| Group commit (`storage/group_commit.rs`) | generations, failed generations, leader and flush flags | `wait_durable` | RocksDB `flush_wal` |
| Row locks (`storage/lock_manager.rs`) | lock table, wait-for graph | `acquire_lock`, guard drop, `cleanup_transaction`, deadlock detection | session transactions |
| Sessions (`session/`) | isolation level, open transaction, failed flag | BEGIN, COMMIT, ROLLBACK [TO SAVEPOINT] | transactions |
| Logical WAL (`storage/wal.rs`) | LSN counter, publication slots, published watermark; on disk entries, last LSN, checkpoint | stage, publish, abandon, append a hole, checkpoint, recover at open | transactions, replication |
| Logical replication (`replication/streaming.rs`, `wal_applicator.rs`) | broadcast channel, connection, catch-up plan; on the standby a durable cursor and the rows | handshake, catch-up, live feed, apply, redial | logical WAL, standby engine |
| Version history (`storage/time_travel.rs`) | version and index keys per row, snapshot metadata | AS OF resolution, pin, read | transactions, collector |
| Version GC (`storage/version_gc.rs`) | time anchors, low watermark in memory and on disk, scan cursor | worker cycle, VACUUM | pins, branch registry, version chains |
| Branches (`storage/branch.rs`) | branch records with their anchor timestamp | create (now, AS OF), drop | version history |
| Row cache (`storage/row_cache.rs`) | rows, storage generation | lookup, guarded fill, invalidate, expire | commits, fast updates, live replay |
| Fast scan (`sql/executor/scan.rs`) | write watermark per table | check, scan current rows, check again | commits, fast updates |
| Failover, split brain (`replication/`) | role, term, votes | vote, heartbeat, promote | replication |
| Offline sync (`sync/`) | queue, vector clocks | push, pull, resolve | server |
| SQL, protocols, indexes, branches, views, vector, graph, tooling | | | see `PROJECT.json` |

What is hard here, and what must hold:

- **Snapshots over lock-free announcements.** A commit takes its timestamp
  first and becomes visible later. A snapshot with a higher timestamp must not
  be used in between. The ledger that arranges this is a ring of atomics with a
  watermark, a single-reclaimer flag and a Dekker-style sleep/notify handoff.
  It must never let a snapshot pass early, lose a wakeup or reuse a live slot.
- **First committer wins.** Validation and recording are atomic per key, not per
  transaction; a loser undoes half of its work while others commit; records are
  pruned. A validating transaction must still never overwrite a version newer
  than its snapshot.
- **Durability with shared fsyncs.** Leaders, followers and failed flushes of
  overlapping generations; an acknowledged commit must be on disk.
- **Row locks.** Re-entrance, upgrades, deadlocks, timeouts and removal of empty
  entries race; a write lock must be exclusive and nothing may leak.
- **A log published in order.** LSNs are reserved first, entries are written by
  any thread, in the batch of a commit's rows or before or after the row of a fast
  statement, and shown to standbys in LSN order; failed writes leave holes,
  checkpoints delete, a crash loses the publisher. What was logged must have its
  entry or be below the checkpoint.
- **Catch-up meets the live feed.** A connection subscribes, reads history and
  forwards the broadcast, which may overflow; everything may break off, and an
  entry may fail to apply. A standby must hold a prefix of the log and get to its
  end, or stop and say so.
- **Pin, then check; publish, then look again.** A reader and the collector miss
  each other only if both orders are kept, and the watermark must be on disk
  before anything is deleted.
- **Caches beside the version chains.** Fence before `end_commit`, generation
  against late fills, write watermark on both sides of a fast scan.
- **Failure paths.** Every way out of a commit must withdraw its announcement.

The complete list is `hazards` in `PROJECT.json`, each at its line.

## 2. Modules

| Module | Models | Role |
|---|---|---|
| `GroupCommit` | `GroupCommitter::wait_durable` | component |
| `SnapshotBarrier` | what the in-flight ledger promises | abstract specification |
| `CommitRing` | ring, reclaimer and barrier of `conflict.rs`, one atomic per step | component; implements `SnapshotBarrier` |
| `Mvcc` | transactions, registry and timestamps together | composition, on top of the barrier's promise |
| `LockManager` | `lock_manager.rs` under `Transaction` | component |
| `Wal` | `wal.rs`: publisher, checkpoints, recovery | component |
| `LogicalReplication` | streaming server and client, catch-up, applicator | composition with `Wal` |
| `VersionGc` | the collector against readers, branches and writers | composition |
| `ReadPaths` | row cache and fast scan against commits, autocommit commits, fast updates and replay | composition |
| `MC*` | model values and workloads for TLC | instances |
| `*Proofs` | one for each component and composition | theorems about it; `LogicalReplicationProofs` builds on `WalProofs` |

Every module keeps the program's state under the names of its fields (in
TLA+'s camel case) and has one action per critical section or atomic access.
Operators named "Mutant of X" are wrong variants of X; each property has one
that violates it, listed in `PROJECT.json`.

**GroupCommit.** An action is one hold of the mutex `state`; `Flush` and `Sync`
are the call and the return of `flush_wal(true)` outside it. The RocksDB WAL is
external: `written` batches, of which the prefix `synced` survives a power loss.
`Flush` fixes what the call covers, so batches written while it runs may or may
not be on disk and are not counted. `Sync` may fail. `acked` is a history of
what callers were told.

**CommitRing.** Steps are the loads, stores and read-modify-writes of
`begin_commit` (with the engine's timestamp lock held), `end_commit`,
`try_reclaim` and `snapshot_barrier`; `ring`, `head`, `tail` and the locals of
each thread are explicit. The release of the reclaim flag is a store that
waits in `flagStore` until `DrainFlag` makes it visible, while its thread goes on
to the loads of the re-check; `missed` is a history of a committer that was
refused the flag in between. The refinement mapping takes a commit to be in flight
from the bump of `head` (the last step under the timestamp lock) to the
compare-and-swap to applied, and a reader to wait until its call returns.

**Mvcc.** Begin allocates the snapshot; `PassBarrier` is `snapshot_barrier`
followed by the registration; `Put`, `Delete`; `Commit` allocates and announces;
`RecordKey`, `Conflict`, `UndoKey`, `Lose` are `validate_and_record` key by key;
`Validated` counts and starts a prune, whose two unlocked passes go entry by
entry: `LookAt` for the minimum over the registered snapshots, `RetainKey` for the
records, `PruneEnds`; `Apply`, `CommitFails`, `PreimageFails` are what
becomes of the batch; `EndCommit`. Values are irrelevant: a version is its
timestamp. A transaction is one of four kinds (embedded, repeatable-read
session, read-committed session, autocommit), which differ in validation, row
locks, refreshes and in how the commit timestamp is chosen. Row locks appear as
a holder per row; how they are granted is `LockManager`'s subject. `unprotected`
is a history of the validating transactions a prune pass missed, because they had
a snapshot and were not registered when it visited their place or began behind
it, and of those that ran when one of these undid a record: it may put back a
stale one.

**LockManager.** One step is one hold of a DashMap shard. `RemoveEntry` is the
`locks.remove` that follows after the shard lock was given up. `raced` (entries
removed while in use) and `swept` (transactions `cleanup_transaction` ran for)
are histories that the properties use to say exactly how far exclusion goes.

**Wal.** A commit reserves its LSNs (`Stage`; `ReserveHole` for entries that
cannot be sealed) and writes rows and entries in one batch (`Write`, `WriteFails`).
The fast autocommit statements call `append` or `append_nosync`, whose batch holds
the entry alone: UPDATE and DELETE before their row (`LogFirst`, then, after
publication and perhaps a checkpoint, `WriteRow` or `RowFails`), INSERT after it
(`RowFirst`). `logged` and `rows` are histories of the operations whose entry and
whose row were written, `apart` of those that write them apart. The writer then
resolves its slots (`Resolve`, then `PublishNext` for every settled slot at
the head, then `ResolveEnd`, which stores the watermark) under the publisher's
mutex. A checkpoint is a read of the log (`CheckpointScan`) and one batch later
(`CheckpointWrite`). `Crash` keeps the disk and runs `recover_wal_at_open`,
which replays the entries above the checkpoint (`Replayed`);
`CleanRestart` is the shutdown checkpoint. An operation is named by session and
LSN, so that an LSN used twice is seen. `races` is a history of two overtakings:
`wal:checkpoint` overwritten by an older checkpoint (`regress`), and a crash with
`wal:last_lsn` below an LSN that was used, because concurrent batches write that
key in any order (`reuse`).

**LogicalReplication.** Extends `Wal`: `Broadcast` is `PublishNext` with its send
on the bounded channel. `Connect` subscribes; `ReadWatermark` and `SendCatchup`
are the two halves of the handshake (plan, then read of the log); `Forward` and
`LagDisconnect` are the live feed; `Apply` drops what the cursor covers and
writes row and cursor in one batch; `ApplyFails` is its error arm, which closes
the queue with the cursor below the entry (`Deliver` then adds nothing), and
`StandbyStops` the end of the process that follows; a restart (`StandbyCrash`)
tries again from the cursor. `DeclareCaughtUp` waits for the barrier.
`Disconnect`, `StandbyCrash` and `PrimaryRestart` lose any suffix of what is on
the wire. `windows` is a history of handshakes that met one of two races with the
log, described in section 3.

**VersionGc.** A row's chain is the set of timestamps of its `v:` keys and of its
`v_idx:` keys. Commits are the three kinds that differ in which keys and which
snapshot metadata they write (`ApplyTxn`; `ApplyUpdate`, whose pre-image version
is not indexed; `ApplyInsert`). Readers are transactions (allocate, then pin) and
AS OF statements (`ResolveAsOf`, `PinAsOf`, `CheckAsOf`); branches anchor a
timestamp. A cycle is `RunCycle` or `Vacuum`, `Clamp`, `PersistMark`,
`PublishMark`, `ClampPins`, `ClampBranches`, `OpenScan` and one `CollectRow` per
row, with the resumption cursor; `CycleFails` ends it anywhere, `Restart` loses
what is in memory and seeds the clock from disk. Wall-clock time is `aged`, the
newest timestamp proved older than the retention window; `Age` moves it. `late`
is a history of pins and anchors published when the watermark had passed them.

**ReadPaths.** Writers are transaction commits, autocommit commits, fast updates
in place and live replay; each is a sequence of steps in the code's order
(`AllocCommit`, `RaiseMark`, `ApplyBatch`, `Fence`, `EndCommit`; `DropMark`,
`PutInPlace`, `InvalidateRow`), with its failures. Only commits of the same row
and the single replay stream exclude one another. A lookup is `LookUp` (which
combines the miss with the capture of the generation that precedes it),
`ReadStorage`, `FillCache`; a fast scan is `CheckBefore`, `ScanCurrent`,
`CheckAfter`; a scan returns every current row, and the second check keeps or
discards the whole of it. `over`, `buried` and `replayed` are histories of
overwritten values; `refilled`, `hidden`, `overtaken` and `late` record what the
properties except, described in section 3.

## 3. Runs

Passing runs:

| Run | Instance | Shows |
|---|---|---|
| `group_commit` | 3 committers, 4 writes, retention 2 | acknowledged commits are on disk (`AckedDurable`), one flush at a time (`SingleFlush`), the debug assertion (`LeaderOwnsCohort`), every commit returns (`EveryCommitReturns`) |
| `commit_ring` | 2 committers, 1 reader, 2 slots, 3 timestamps | slots are not reused early (`OwnSlot`), the watermark is sound (`WatermarkSound`), no applied entry is stranded but by the flag's late release (`NothingLingers`), the ring implements the barrier (`ImplementsBarrier`), snapshots and announcements end (`BarrierEnds`, `AnnouncementEnds`) |
| `mvcc` | 3 transactions, 2 rows, pruning every 2nd commit | `FirstCommitterWins`, `LoserLeavesNoTrace`, `SnapshotStable`, `BarrierLifts` |
| `lock_manager` | 3 transactions, 2 rows, 2 guards each, one savepoint user | `GuardsBacked`, `ExclusiveUnlessRaced`, `NoPhantomDeadlock`, `NothingLeaks`, `DeadlockBroken` |
| `wal` | 2 writers, 3 LSNs, batches of 2, 1 statement that logs apart, 2 sessions, 2 checkpoints | shown is exactly what was logged below the publisher's position, staged entries only with their rows (`PublishedInOrder`), a missing entry is below the checkpoint (`PrunedIsCheckpointed`), every reserved LSN is passed in the end (`PublicationDrains`) |
| `logical_replication` | 2 writers, 2 LSNs, 1 statement that logs apart, channel of 1, 2 sessions, no periodic checkpoint, 2 losses | the copy is the log up to the cursor (`CopyIsPrefixUnlessRaced`), CaughtUp means it (`CaughtUpIsComplete`), the standby gets there, is refused or has stopped on a failed entry (`Converges`) |
| `version_gc` | 2 rows, 1 reader, 1 writer, 1 branch, 3 timestamps, 1 fault | pinned reads and branch anchors see full history (`PinnedReadsExact`, `AnchorsExact`), a restart at any instant never admits a pruned read (`DurableMarkCovers`), garbage goes (`Reclaims`) |
| `read_paths` | 1 row, 2 writers, 1 lookup, 1 scan, 4 timestamps, 1 DDL | `LookupsSeeSettled`, `ReplayedNeverResurrected`, `FastScanIsSnapshot` |

Runs that end in a counterexample, each a disagreement between the code and
what it says of itself (the quoted lines are in `findings`):

| Run | Violated | What happens |
|---|---|---|
| `mvcc_autocommit` | `SnapshotStable` | `Transaction::commit`, used by autocommit statements, commits at its own snapshot timestamp and announces nothing; its version appears below a snapshot another transaction is already reading |
| `lock_reap` | `WriteExclusive` | the row is granted between "entry is empty" and `locks.remove`; the grant is erased and the next request granted too |
| `versiongc_anchor` | `WatermarkBehindClock` | a time anchor is the live counter, a restart seeds the counter lower; when the anchor is old enough the watermark overtakes the timestamps the engine issues |
| `readpaths_refill` | `FreshLookupsSeeCommits` | a lookup read storage before a write and fills the cache after the write's invalidation, which does not advance the generation; later lookups serve the old row |

Further known exceptions. Each has a configuration that reproduces it with the
named module; they are not among the regular runs:

| Configuration | Module | Violated | What happens, against what is said |
|---|---|---|---|
| `MvccDelete.cfg` | `MCMvcc` | `FirstCommitterWins` | a ReadCommitted DELETE takes no row lock; it allocates its timestamp, is overtaken by a RepeatableRead commit that validates clean, and both commit (`conflict.rs:46-48`) |
| `MvccPrune.cfg` | `MCMvcc` | `NoLostUpdate` | a snapshot that has its timestamp but is not registered when the first pass of `prune` visits it is not counted in the minimum; the second pass drops the record it needed (`conflict.rs:4-7`) |
| `MvccLeak.cfg` | `MCMvcc` | `BarrierAlwaysLifts` | an error while the pre-image of a row is read leaves `commit_with_timestamp` by `?` with the announcement standing (`transaction.rs:1910-1912`) |
| `LockSavepoint.cfg` | `MCLockManager` | `SurvivorsKeepTheirLocks` | a timeout takes every lock of the transaction, which goes on after ROLLBACK TO SAVEPOINT with its earlier rows unlocked (`lock_manager.rs:78-80`) |
| `WalReuse.cfg` | `MCWal` | `BornAboveCheckpoint` | two batches write `wal:last_lsn` in the wrong order, the process dies, and the next session numbers its entries from below those on disk (`wal.rs:1281-1283`: "the next session's first append must be > up_to_lsn") |
| `LogicalReplicationHandshake.cfg` | `MCLogicalReplication` | `CopyIsPrefix` | an entry is broadcast before the standby subscribes and is not yet below the watermark its plan reads; neither delivers it (`streaming.rs:456`: "no entry can fall between the two") |

Exceptions that the histories exempt and that have no configuration of their own:

- `VersionGc`: a transaction pins its snapshot without comparing it with the
  watermark, and CREATE BRANCH AS OF NOW anchors a timestamp nothing pinned
  (`version_gc.rs:251-252` speaks of readers that check after they pin). With
  `late` removed from the properties both show.
- `CommitRing`: a committer is refused the reclaim flag after its holder's store
  and before the store is visible, and the holder's re-check has loaded the slot
  before the committer marked it (`missed`). The applied entry stays at the tail
  until the next reclaim, as `conflict.rs:416-419` concedes; the barrier and the
  progress of commits do not depend on it (`ImplementsBarrier`, `BarrierEnds`,
  `AnnouncementEnds` hold with it).
- `Wal`, statements that log apart from their row (`apart`): a standby may show a
  DELETE or UPDATE that the primary has not carried out yet, or never does because
  the row write failed; an INSERT whose append fails stays on the primary and goes
  to no standby; the periodic checkpoint may pass an UPDATE still in flight
  (`wal.rs:717-725` says so), and without one a crash replays it at open even after
  the client was told that it failed.
- `Wal`: an older checkpoint that writes last lowers `wal:checkpoint` (`regress`).
  `LogicalReplication`: a checkpoint between plan and read prunes what the plan
  counted on (`pruned`).
- `ReadPaths`: an accepted fast scan differs from the snapshot, although
  `scan.rs:163-168` calls it "row-for-row identical", in three cases. The watermark
  was dropped and raised again, and does not report a write in place or a commit
  above it (`hidden`). An autocommit commit, which holds no row lock, and another
  commit of the row were applied out of timestamp order (`overtaken`). An
  autocommit commit, which announces nothing, appears below the snapshot after the
  rows were read (`late`). The actions return such rows like any others; the
  histories are used in `FastScanIsSnapshot` only, and with any one of the three
  left out the run fails.
- `transaction.rs:1742` registers snapshot metadata after the batch and
  `end_commit`; a crash in between lets a reopen issue the timestamp of a durable
  version again (`engine.rs:2730-2736` seeds from that metadata). `VersionGc` has
  the window (`RegisterSnapshot`); no property forbids it.

The passing properties say what is left: `FirstCommitterWins` exempts the
transactions a prune missed and the `mvcc` workloads leave out the autocommit and
the ReadCommitted-DELETE cases, so neither shows in that run; `BarrierLifts`
exempts a leaked announcement, `NothingLingers` the late release of the flag,
`ExclusiveUnlessRaced` and `GuardsBacked` exempt raced entries and swept
transactions, the properties of `Wal`, `LogicalReplication`, `VersionGc` and
`ReadPaths` exempt the histories above. On these instances nothing else breaks
them.

### Bounds

- `GroupCommit`: with retention 2 and 4 writes a follower can sleep while two
  further generations complete, which is the first moment its failure can be
  forgotten; three threads give a flush in flight, an accumulating leader and a
  follower at once.
- `CommitRing`: a ring of two slots is full with two commits and wraps with the
  third timestamp, so a scan can read a slot that has changed its owner; the
  code has 4096 slots and compares numbers in the same way.
- `Mvcc`: t1 shares one row with each of the other two, so it can win one row,
  lose the other and undo while the third commits. A prune needs an interval of
  2 (4096 in the code) to strike between two commits. A transaction runs once;
  timestamps grow with it and need no bound. Of the ways into `unprotected`, this
  run meets the snapshot not yet registered when its place is visited. A
  transaction that begins behind a pass is recorded too, but comes to harm only
  under an unannounced autocommit pruner: behind an announced one it waits at the
  barrier until the pass has ended. A missed transaction whose undo harms a third
  one needs four transactions. The proof covers both.
- `LockManager`: two guards per transaction and two rows are the least for a
  cycle, an upgrade and a re-entrant acquisition; the third transaction is the
  one that is granted a row in the removal window. `Mixed` gives each a
  different menu of requests, so there is no symmetry to use.
- `Wal`: two writers are enough for every order of reservation, write and
  publication; three LSNs let a batch of two meet a single one and let both
  writers checkpoint, and one statement that logs apart meets commits on both
  sides; the second session is the one that inherits a crashed disk.
- `LogicalReplication`: a channel of one overflows with the second entry (the
  code's default is 1000); two losses and a restart of the primary let a standby
  resume twice, or start again after a failed entry. Two LSNs are the least for an
  entry to be delivered while another is missing. Periodic checkpoints are off
  (`MaxCheckpoints` 0), so `pruned` is not met in this run, only in the proof.
- `VersionGc`: `MaxPerCycle` 1 makes every deletion end a cycle, so the cursor is
  always at work; three timestamps are load, overwrite and a reader's snapshot
  between or after them. Larger
  instances (not kept, for their time) found nothing else.
- `ReadPaths`: four timestamps are two overlapping writes, a snapshot and a write
  on top of the initial row. The writers are interchangeable (`WriterSymmetry`;
  only invariants are checked). Instances with two rows, and with five timestamps
  and no lookups, also passed.
- Deadlock checking is on in `version_gc` and `read_paths`, where the collector
  and the clients can always start again. Elsewhere it is off: those systems may
  come to rest, because clients stop and bounds are reached. That nobody is stuck
  half-way is what the liveness properties state.

### Fairness

Weak fairness of each thread *inside* a call, nothing more: the operating system
schedules runnable threads, an fsync or a batch write returns, a thread that is
notified runs. Clients are not obliged to begin, commit or roll back, and the
lock timeout is not assumed to strike, so `DeadlockBroken` is due to detection
alone. In `GroupCommit` and `CommitRing` a sleeping thread is in `parked` and
only a notification takes it out, so a lost wakeup would be seen.

`Wal` assumes that a commit, once it has its LSNs, runs to its end.
`LogicalReplication` adds that the client redials without limit (its loop has no
other exit than a refusal) and that the connection task, the applicator and the
forwarding task are scheduled: an entry in the queue is applied or fails, and a
closed queue ends the process. `VersionGc` assumes that the worker thread runs its cycles and
finishes a scan; `Reclaims` supposes that pins go away and does not assume it.
Nothing is assumed of faults, of clients or of the passage of time; losses and
crashes are bounded, so `Converges` and `Reclaims` say what happens once they
stop. `ReadPaths` has safety properties only.

## 4. Proofs

Every invariant that a passing run checks is also a theorem, for all values of
the constants that satisfy the named assumptions; so are the refinement and the
one action property. In each module a theorem `...Invariance` shows
`Spec => []I` for an inductive invariant `I` (its parts are listed in the
module's header), with one lemma per action, and the properties follow from `I`.
Bounds such as `MaxTs`, `MaxLsn` or `MaxClock` are arbitrary naturals there.

| Module | Theorems | Assumes |
|---|---|---|
| `GroupCommitProofs` | `TypeCorrect`, `Durability` (`AckedDurable`), `OneFlush` (`SingleFlush`), `LeaderAssertion` (`LeaderOwnsCohort`) | a retention of at least one generation |
| `CommitRingProofs` | `RingTypeCorrect`, `SlotsOwned` (`OwnSlot`), `WatermarkTrails` (`WatermarkSound`), `NothingLeftBehind` (`NothingLingers`), `RingImplementsBarrier` (`ImplementsBarrier`) | at least one slot; committers and readers are different threads |
| `MvccProofs` | `MvccTypeCorrect`, `LosersGone` (`LoserLeavesNoTrace`), `FirstCommitters` (`FirstCommitterWins`), `SnapshotsStable` (`SnapshotStable`) | any workload; the last two with the hypotheses below |
| `LockManagerProofs` | `LockTypeCorrect`, `GuardsCounted` (`GuardsBacked`), `WritersExclusive` (`ExclusiveUnlessRaced`), `NothingLeft` (`NothingLeaks`), `EdgesReal`, `DeadlocksReal` (`NoPhantomDeadlock`) | finitely many transactions |
| `WalProofs` | `TypeCorrect` (`WalTypeOK`), `Publication` (`PublishedInOrder`), `Checkpoints` (`PrunedIsCheckpointed`) | `WalAssumption` |
| `LogicalReplicationProofs` | `StandbyTypeCorrect`, `NothingBetween` (`CopyIsPrefixUnlessRaced`), `CaughtUpComplete` (`CaughtUpIsComplete`) | a channel of at least one entry |
| `VersionGcProofs` | `GcTypeCorrect`, `PinnedReadsKept` (`PinnedReadsExact`), `AnchorsKept` (`AnchorsExact`), `DeletionsCovered` (`DurableMarkCovers`) | at least one row; sessions and branches have different names |
| `ReadPathsProofs` | `ReadTypeCorrect`, `SettledServed` (`LookupsSeeSettled`), `ReplayFinal` (`ReplayedNeverResurrected`), `FastScansExact` (`FastScanIsSnapshot`) | a clock that can tick |

**Group commit.** `AckedDurable` is not inductive: whether an acknowledgement is
sound depends on what the flush of its generation covered, which was decided when
the cohort was closed. `IInv` adds `Generations` (the completed, flushing and
accumulating generations are consecutive, and every thread's generation is one it
can be in), `Covered` (the flush in flight covers every member of its cohort, and
what has been synced never shrinks) and `Settled` (a follower of a completed
generation is on disk, or its failure is still recorded, or it is late by the
whole retention).

**The ring.** That a slot is free for the next announcement depends on what lies
between `tail` and `head`: `Window` says that these entries ascend and only the
one at `tail` may be empty, while the reclaimer is about to pass it; `Gate` that
there is one reclaimer at most, and none while the release of the flag is still in
the store buffer; `Owned` ties every announced commit to its entry, `Counts` and `Mutex` tie the two counters
to the threads that will decrement them, and `Covered` names the thread that will
reclaim an entry applied at `tail`, unless the flag was refused after its release
(`missed`). For the refinement, `Scans` records
what a reader's scan has shown so far: everything announced at or below its
snapshot and not yet passed is still between its position and the head it loaded.
With it each atomic step maps to one step of `SnapshotBarrier` or to a stutter.

**Transactions.** `LosersGone` holds for every workload: `Traces` says that
`recent_writes` holds an undecided commit's timestamp only for keys that commit
would undo. First committer wins is proved row by row. For a row that is
`Covered` (written by validating transactions only, or by locking sessions without
DELETE), `Watched` says that a commit which has claimed the row shows in
`recent_writes` to every transaction it endangers, `Priors` and `Sole` that this
survives undos, `Shielded` that it survives both passes of a prune (the minimum
found so far is not above the snapshot of a transaction the pass has looked at, or
that transaction is in `unprotected`), `Ordered` that row locks order the commits.
`FirstCommitters` asks for a workload whose rows are all covered (`Disciplined`),
`SnapshotsStable` for one in which no autocommit statement writes
(`OnlyAnnounced`). Both hypotheses hold of the workloads of the `mvcc` run. They
are there because the properties are false without them: `mvcc_autocommit` breaks
the one, and the other fails on rows written both with and without validation
(`MvccDelete.cfg`: the DELETE of a ReadCommitted session).

**Row locks.** `Backed` says that a transaction never has more acquisitions in
an entry than guards, and exactly as many unless it was swept or the entry was
removed in use; `Marked` that the row of a write guard is in write mode; `Shaped`
that a write mode has one holder. `Queued` and `Kept` account for everything left
in the table: a queued transaction still waits or is about to sweep the entry, and
an unused entry is about to be removed by somebody. `Edges` says that an edge to
a transaction which has neither ended nor been swept is never stale, because such
a transaction gives up nothing. That a reported deadlock is real follows with two
lemmas about `HasCycle` for any graph: it holds exactly when the transaction is in
a set from each of whose members an edge leads back into the set (`CycleTraps`
by the pigeonhole principle on a path, `TrapCycles`). The induction over the
length of walks is by the least counterexample.

**The log and the standby.** `WalInv` says who owns which LSN (`Spans`, `Owned`,
`Window`), that slots and writers agree with the disk (`Logged`), that entries and
rows of a staged commit appear together and a row still owed belongs to a
statement that logs apart (`Together`), that without a
reuse an LSN to be written was never used (`Fresh`) and that a checkpoint deletes
nothing above its own LSN (`Surveyed`). `StandbyInv` adds that before any entry on
the wire comes all that the standby lacks (`Wire`), that the channel holds, until
it lags or the applicator fails, what the catch-up plan does not (`Tap`), and that the plan is below the
publisher's position (`Plan`).

**Garbage collection.** `Whole` is the set of timestamps at which every row reads
as if nothing had been collected. Writers only enlarge it and a collected row
keeps in it what is at or above the horizon; so the invariant is about horizons:
`Marks` (memory against disk), `Guarded` (pins and anchors seen by the second
look, or admitted since, are above the horizon), `Covers` (at or above the
watermark everything is whole).

**Read paths.** `ReadInv` is about the cache: `Slots` and `Stored` give every
write a number of its own; `Cached` says what the cache cannot hold between a
writer's fence and its return, `Looked` what a lookup with a current generation
cannot have read. `ScanSide` is about the scans: one announced commit at a time has
a row (`Locked`), a row left by a commit is its newest version or is in `overtaken`
(`Ordered`), whatever a row has been the watermark is absent, at or above it, or
lost it in a drop (`Reported`), and a scan that differs from the snapshot shows
what `Reported` makes the second check reject (`Scanned`). That an accepted scan
stays right needs the barrier: no announced commit is at or below the snapshot.

Only model-checked: everything under fairness (`EveryCommitReturns`,
`BarrierEnds`, `AnnouncementEnds`, `BarrierLifts`, `DeadlockBroken`,
`PublicationDrains`, `Converges`, `Reclaims`), because liveness and ENABLED are
outside the prover's reach; and the counterexamples, which are facts about one
instance.

## 5. Abstractions and omissions

- Memory order. The handoff between a reader that goes to sleep and a committer
  that notifies is fenced with SeqCst in the code and modelled as such. The release
  of the reclaim flag is a Release store followed by Acquire loads against a
  compare-and-swap whose failure is Relaxed (`conflict.rs:423-451`); it has a store
  buffer in the model. The other accesses are acquire/release and modelled as
  sequentially consistent: timestamps are drawn under one lock, so a snapshot sees
  every `begin_commit` of a lower timestamp, and a stale `tail`, slot or watermark
  makes a reader wait or a committer spin longer, never pass. This last step is an
  argument, not a proof.
- `end_commit` called from another thread than `begin_commit` scans the ring for
  its slot; no caller does that and the scan is left out. The bounded spin
  before a reader parks repeats the fast path and is folded into it.
- In `Mvcc` the batch write is atomic (RocksDB `WriteBatch`); crashes, the
  logical WAL, the INSERT log and savepoints are not in it. The row cache and the
  write watermarks are in `ReadPaths`, garbage collection is in `VersionGc`.
- In `Mvcc` a pruning pass visits the places of all transactions, registered or
  not, in any order, as a DashMap iteration may.
- `LockGuard::clone`, `resolve_deadlock` and `timeout_lock` have no callers and
  are left out; so is the retry of a statement after a write conflict.
- `Wal` leaves out the capture of statements, the background queue of the
  group-commit mode, the wait for synchronous standbys and what the replay of a
  single operation does. The put of an INSERT and the reservation of its LSN are one
  step: until then nothing names the row. A batch is atomic and, once written, survives the crash; what an
  fsync adds is `GroupCommit`'s subject.
- `LogicalReplication` has one standby. Authentication, the binding to a history
  id, acknowledgements and synchronous modes are left out; so is the applicator's
  `pause()`, which skips entries (`wal_applicator.rs:160-163`) and has no caller.
- In `VersionGc` the second bound of a cycle, the scan budget
  (`version_gc.rs:496`), is not a bound of its own: it stops the scan at the same
  group boundary with the same cursor as the bound on deletions.
- `VersionGc` leaves out row images, elided versions and copy markers; branches
  are their anchors, copy-on-write reads and merges are left out.
- `ReadPaths` has no DELETE, no fast INSERT, no capacity or hotness policy and one cache entry
  per row; the cache's shard lock makes the generation check and the fill one step.
- Failover, switchover and split-brain protection are library code that no binary
  of the repository wires up: vote messages are looped back in the process
  and votes are kept in memory. They are not modelled.
- Parsing, planning, execution, encodings, cryptography, vector and graph
  algorithms and protocol formats are sequential and data-heavy and say nothing
  about the state machines above. They are most of the crate's 400,000 lines,
  which is why the models map to a small share of it: the concurrent and
  fault-tolerant core is a few thousand lines.

## 6. Plan

Modelling still worth doing: the INSERT log as a fifth kind of transaction in
`Mvcc`; advisory locks; the offline queue with its vector clocks; terms and votes
(`SplitBrain`) once something drives them; statement retries after a conflict.

Proofs still worth doing: that `Mvcc`, whose barrier is one step, is a sound
abstraction of `CommitRing` composed with it, which would join the two theorems
about snapshots; `FirstCommitterWins` for rows that mix locking and validating
writers, as far as it holds; what is left of `WriteExclusive` for a swept
transaction that goes on after ROLLBACK TO SAVEPOINT.
