-------------------------------- MODULE Wal ---------------------------------
(***************************************************************************)
(* The logical write-ahead log of a primary (storage/wal.rs): LSNs are     *)
(* reserved, the entries are written to RocksDB, and a publisher shows     *)
(* them to standbys in LSN order.                                          *)
(*                                                                         *)
(* A commit stages its entries into the batch of its rows: one write.  The *)
(* fast autocommit statements write an entry and its row apart: UPDATE and *)
(* DELETE append first and then write the row, INSERT writes the row first *)
(* (lib.rs, engine.rs).                                                    *)
(*                                                                         *)
(* Writers run these concurrently; the publisher's mutex orders reserve    *)
(* and resolve only, and resolve shows entries one by one before it stores *)
(* the watermark.  After publishing, a writer may run a checkpoint, which  *)
(* is a read of the log followed by one batch.  A crash keeps what RocksDB *)
(* wrote and loses the publisher; recover_wal_at_open then runs.           *)
(*                                                                         *)
(* An operation is named by the session and the LSN it was logged under.   *)
(***************************************************************************)
EXTENDS Integers, FiniteSets, FiniteSetsExt

CONSTANTS
    Writers,         \* threads that commit
    MaxLsn,          \* bound on LSNs
    MaxBatch,        \* bound on the operations of one commit
    MaxApart,        \* bound on statements that write entry and row apart
    MaxSessions,     \* bound on restarts
    MaxCheckpoints,  \* bound on checkpoints by due threads; 0: intervals at 0
    None             \* nobody holds the publisher's mutex

ASSUME WalAssumption ==
    /\ MaxLsn \in Nat /\ MaxCheckpoints \in Nat /\ MaxSessions \in Nat \ {0}
    /\ MaxBatch \in Nat \ {0} /\ MaxApart \in Nat
    /\ None \notin Writers

Lsns == 1 .. MaxLsn
Sessions == 1 .. MaxSessions
NoCheckpoint == -1   \* wal:checkpoint is absent

VARIABLES
    session,      \* openings of the store so far
    current,      \* current_lsn
    next,         \* PublishState::next
    slots,        \* PublishState::slots
    published,    \* Publisher::published, what catch-up reads
    mutex,        \* holder of Publisher::state
    pc,           \* where each writer is
    span,         \* LSNs of each writer's operations
    scan,         \* what a writer's truncate_to_checkpoint has read
    checkpoints,  \* checkpoints begun by due threads
    entries,      \* wal:entries: LSN -> session that wrote it, 0 if absent
    last,         \* wal:last_lsn
    ckpt,         \* wal:checkpoint
    logged,       \* history: operations whose entry was written
    rows,         \* history: operations whose row was written
    apart,        \* history: operations with a write each for entry and row
    shown,        \* history: operations shown to standbys
    races         \* history: known races met so far, see Known

publisher == <<current, next, slots, published, mutex>>
disk == <<entries, last, ckpt>>
store == <<logged, rows, apart>>
walVars == <<session, publisher, pc, span, scan, checkpoints, disk, store,
             shown, races>>

SlotStates == {"none", "reserved", "ready", "skipped"}
WriterPC == {"idle", "staged", "append", "written", "void", "publishing",
             "skipping", "published", "checkpoint", "row"}
NoScan == [lsn |-> 0, keys |-> {}, last |-> 0]

\* Two races change what recovery and catch-up may rely on:
\*   regress  a checkpoint overwrites a later one, and wal:checkpoint drops
\*   reuse    a crash with wal:last_lsn below an LSN already used
Known == {"regress", "reuse"}

Op(l) == [session |-> session, lsn |-> l]
LogOp(l) == [session |-> entries[l], lsn |-> l]
Retained == {l \in Lsns : entries[l] # 0}

WalInit ==
    /\ session = 1
    /\ current = 0 /\ next = 1 /\ published = 0
    /\ slots = [l \in Lsns |-> "none"]
    /\ mutex = None
    /\ pc = [w \in Writers |-> "idle"]
    /\ span = [w \in Writers |-> {}]
    /\ scan = [w \in Writers |-> NoScan]
    /\ checkpoints = 0
    /\ entries = [l \in Lsns |-> 0]
    /\ last = 0 /\ ckpt = NoCheckpoint
    /\ logged = {} /\ rows = {} /\ apart = {}
    /\ shown = {} /\ races = {}

-----------------------------------------------------------------------------
Goto(w, label) == pc' = [pc EXCEPT ![w] = label]

\* Publisher::reserve: the LSNs are allocated and registered under one lock.
Reserve(w, n) ==
    LET lsns == current + 1 .. current + n IN
      /\ mutex = None
      /\ current + n <= MaxLsn
      /\ current' = current + n
      /\ slots' = [l \in Lsns |-> IF l \in lsns THEN "reserved" ELSE slots[l]]
      /\ span' = [span EXCEPT ![w] = lsns]
      /\ UNCHANGED <<next, published, mutex>>

\* stage: entries are sealed into the caller's batch; nothing is written.
Stage(w) ==
    /\ pc[w] = "idle"
    /\ \E n \in 1 .. MaxBatch : Reserve(w, n)
    /\ Goto(w, "staged")
    /\ UNCHANGED <<session, scan, checkpoints, disk, store, shown, races>>

\* increment_lsn, or stage when an entry cannot be sealed: LSNs reserved and
\* then skipped.
ReserveHole(w) ==
    /\ pc[w] = "idle"
    /\ \E n \in 1 .. MaxBatch : Reserve(w, n)
    /\ Goto(w, "void")
    /\ UNCHANGED <<session, scan, checkpoints, disk, store, shown, races>>

\* append / append_nosync of a fast UPDATE or DELETE: the row comes later.
LogFirst(w) ==
    /\ pc[w] = "idle"
    /\ Cardinality(apart) < MaxApart
    /\ Reserve(w, 1)
    /\ apart' = apart \cup {Op(current + 1)}
    /\ Goto(w, "append")
    /\ UNCHANGED <<session, scan, checkpoints, disk, logged, rows, shown, races>>

\* An INSERT puts its row and then calls append / append_nosync.  The put and
\* the reservation are one step: until then nothing names the row.
RowFirst(w) ==
    /\ pc[w] = "idle"
    /\ Cardinality(apart) < MaxApart
    /\ Reserve(w, 1)
    /\ apart' = apart \cup {Op(current + 1)}
    /\ rows' = rows \cup {Op(current + 1)}
    /\ Goto(w, "append")
    /\ UNCHANGED <<session, scan, checkpoints, disk, logged, shown, races>>

\* Entries and wal:last_lsn in one RocksDB write: a batch of append's own, or
\* the batch that holds the rows of a staged commit as well.
Write(w) ==
    LET ops == {Op(l) : l \in span[w]} IN
      /\ pc[w] \in {"staged", "append"}
      /\ entries' = [l \in Lsns |-> IF l \in span[w] THEN session ELSE entries[l]]
      /\ last' = Max(span[w])
      /\ logged' = logged \cup ops
      /\ rows' = IF pc[w] = "staged" THEN rows \cup ops ELSE rows
      /\ Goto(w, "written")
      /\ UNCHANGED <<session, publisher, span, scan, checkpoints, ckpt, apart,
                     shown, races>>

WriteFails(w) ==
    /\ pc[w] \in {"staged", "append"}
    /\ Goto(w, "void")
    /\ UNCHANGED <<session, publisher, span, scan, checkpoints, disk, store, shown, races>>

\* Publisher::resolve takes the mutex and settles the slots: publish_staged
\* after a write, abandon_staged or skip otherwise.
Resolve(w) ==
    /\ pc[w] \in {"written", "void"}
    /\ mutex = None
    /\ mutex' = w
    /\ slots' = [l \in Lsns |->
                   IF l \notin span[w] THEN slots[l]
                   ELSE IF pc[w] = "written" THEN "ready" ELSE "skipped"]
    /\ Goto(w, IF pc[w] = "written" THEN "publishing" ELSE "skipping")
    /\ UNCHANGED <<session, current, next, published, span, scan, checkpoints,
                   disk, store, shown, races>>

Settled(l) == l \in Lsns /\ slots[l] \in {"ready", "skipped"}

\* Mutant of PublishNext: the loop runs on over a reserved LSN.
PublishNextOverReserved(w) ==
    /\ mutex = w
    /\ next \in Lsns /\ \E l \in Lsns : l >= next /\ Settled(l)
    /\ shown' = IF slots[next] = "ready" THEN shown \cup {Op(next)} ELSE shown
    /\ slots' = [slots EXCEPT ![next] = "none"]
    /\ next' = next + 1
    /\ UNCHANGED <<session, current, published, mutex, pc, span, scan,
                   checkpoints, disk, store, races>>

\* One turn of resolve's loop: the lowest unresolved LSN is settled, and is
\* broadcast if it is ready.
PublishNext(w) ==
    /\ mutex = w
    /\ Settled(next)
    /\ shown' = IF slots[next] = "ready" THEN shown \cup {Op(next)} ELSE shown
    /\ slots' = [slots EXCEPT ![next] = "none"]
    /\ next' = next + 1
    /\ UNCHANGED <<session, current, published, mutex, pc, span, scan,
                   checkpoints, disk, store, races>>

\* The writer still owes the row of an entry it appended first.
Owed(w) == {l \in span[w] : Op(l) \in logged \ rows}

\* Mutant of ResolveEnd: a skipped LSN does not move the watermark.
ResolveEndSkipStalls(w) ==
    /\ mutex = w
    /\ ~Settled(next)
    /\ published' = IF pc[w] = "publishing" THEN next - 1 ELSE published
    /\ mutex' = None
    /\ Goto(w, IF pc[w] = "publishing" THEN "published" ELSE "idle")
    /\ span' = [span EXCEPT ![w] = Owed(w)]
    /\ UNCHANGED <<session, current, next, slots, scan, checkpoints, disk,
                   store, shown, races>>

\* The loop stops: the watermark is stored and the mutex released.
ResolveEnd(w) ==
    /\ mutex = w
    /\ ~Settled(next)
    /\ published' = next - 1
    /\ mutex' = None
    /\ Goto(w, IF pc[w] = "publishing" THEN "published" ELSE "idle")
    /\ span' = [span EXCEPT ![w] = Owed(w)]
    /\ UNCHANGED <<session, current, next, slots, scan, checkpoints, disk,
                   store, shown, races>>

-----------------------------------------------------------------------------
(* Checkpoints.                                                            *)

\* append returns to a statement that has its row to write, or to the end.
Return(w) == Goto(w, IF span[w] = {} THEN "idle" ELSE "row")

\* maybe_advance_checkpoint when neither threshold is due.
NotDue(w) ==
    /\ pc[w] = "published"
    /\ Return(w)
    /\ UNCHANGED <<session, publisher, span, scan, checkpoints, disk, store, shown, races>>

\* A threshold is due: truncate_to_checkpoint(current_lsn) surveys the log
\* and reads wal:last_lsn.  The writer's own row may not be written yet.
CheckpointScan(w) ==
    /\ pc[w] = "published"
    /\ checkpoints < MaxCheckpoints
    /\ checkpoints' = checkpoints + 1
    /\ scan' = [scan EXCEPT ![w] =
                  [lsn  |-> current,
                   keys |-> {l \in Retained : l <= current},
                   last |-> last]]
    /\ Goto(w, "checkpoint")
    /\ UNCHANGED <<session, publisher, span, disk, store, shown, races>>

\* Mutant of Truncate: entries above the checkpoint are deleted as well.
TruncateAll(lsn, keys, seen) ==
    /\ entries' = [l \in Lsns |-> 0]
    /\ ckpt' = lsn
    /\ last' = IF lsn > seen THEN lsn ELSE last

\* Mutant of Truncate: the recorded checkpoint is one too high.
TruncatePast(lsn, keys, seen) ==
    /\ entries' = [l \in Lsns |-> IF l \in keys THEN 0 ELSE entries[l]]
    /\ ckpt' = lsn + 1
    /\ last' = IF lsn > seen THEN lsn ELSE last

\* The batch of truncate_to_checkpoint.
Truncate(lsn, keys, seen) ==
    /\ entries' = [l \in Lsns |-> IF l \in keys THEN 0 ELSE entries[l]]
    /\ ckpt' = lsn
    /\ last' = IF lsn > seen THEN lsn ELSE last

CheckpointWrite(w) ==
    /\ pc[w] = "checkpoint"
    /\ Truncate(scan[w].lsn, scan[w].keys, scan[w].last)
    /\ races' = IF scan[w].lsn < ckpt THEN races \cup {"regress"} ELSE races
    /\ scan' = [scan EXCEPT ![w] = NoScan]
    /\ Return(w)
    /\ UNCHANGED <<session, publisher, span, checkpoints, store, shown>>

\* The batch fails: a warning, and the counters stay due.
CheckpointFails(w) ==
    /\ pc[w] = "checkpoint"
    /\ scan' = [scan EXCEPT ![w] = NoScan]
    /\ Return(w)
    /\ UNCHANGED <<session, publisher, span, checkpoints, disk, store, shown, races>>

-----------------------------------------------------------------------------
\* The row of an UPDATE or DELETE, after its entry has been published.
WriteRow(w) ==
    /\ pc[w] = "row"
    /\ rows' = rows \cup {Op(l) : l \in span[w]}
    /\ span' = [span EXCEPT ![w] = {}]
    /\ Goto(w, "idle")
    /\ UNCHANGED <<session, publisher, scan, checkpoints, disk, logged, apart,
                   shown, races>>

\* The row write fails: the statement returns an error and the entry stays.
RowFails(w) ==
    /\ pc[w] = "row"
    /\ span' = [span EXCEPT ![w] = {}]
    /\ Goto(w, "idle")
    /\ UNCHANGED <<session, publisher, scan, checkpoints, disk, store, shown,
                   races>>

-----------------------------------------------------------------------------
(* Restarts.                                                               *)

\* WriteAheadLog::open: every LSN counter starts from recover_last_lsn.
Reopen(lsn) ==
    /\ session < MaxSessions
    /\ session' = session + 1
    /\ current' = lsn /\ next' = lsn + 1 /\ published' = lsn
    /\ slots' = [l \in Lsns |-> "none"]
    /\ mutex' = None
    /\ pc' = [w \in Writers |-> "idle"]
    /\ span' = [w \in Writers |-> {}]
    /\ scan' = [w \in Writers |-> NoScan]
    /\ UNCHANGED <<checkpoints, logged, apart, shown>>

\* What recover_wal_at_open replays: the entries above the checkpoint, none
\* when it adopts a log that has never had one.  For a staged commit this
\* repeats what its batch wrote; an UPDATE cut off before its row gets it.
Replayed ==
    {LogOp(l) : l \in {k \in Retained : ckpt # NoCheckpoint /\ k > ckpt}}

\* The checkpoint recover_wal_at_open records.
RecoveryTarget ==
    LET newest == Max(Retained)
        target == Max({last, newest})
    IN  IF newest <= ckpt THEN Max({ckpt, target}) ELSE target

\* The process dies at any point and the store is opened again.
Crash ==
    /\ Reopen(last)
    /\ IF Retained = {} THEN UNCHANGED disk
                        ELSE Truncate(RecoveryTarget, Retained, last)
    /\ rows' = rows \cup Replayed
    /\ races' = IF ckpt > last \/ \E op \in logged : op.lsn > last
                THEN races \cup {"reuse"} ELSE races

\* A clean close runs checkpoint_logical_wal before the store is opened again.
CleanRestart ==
    /\ \A w \in Writers : pc[w] = "idle"
    /\ current > 0
    /\ Truncate(current, Retained, last)
    /\ Reopen(last')
    /\ UNCHANGED <<rows, races>>

-----------------------------------------------------------------------------
\* The steps of a statement that has reserved LSNs, the broadcast aside.
WriterStep(w) ==
    \/ Write(w) \/ WriteFails(w) \/ Resolve(w) \/ ResolveEnd(w)
    \/ NotDue(w) \/ CheckpointWrite(w) \/ CheckpointFails(w)
    \/ WriteRow(w) \/ RowFails(w)

WriterStart(w) ==
    Stage(w) \/ LogFirst(w) \/ RowFirst(w) \/ ReserveHole(w) \/ CheckpointScan(w)

WalNext ==
    \/ \E w \in Writers : WriterStart(w) \/ WriterStep(w) \/ PublishNext(w)
    \/ Crash \/ CleanRestart

\* A commit runs to its end; new commits, checkpoints and crashes need not come.
WalSpec ==
    /\ WalInit /\ [][WalNext]_walVars
    /\ \A w \in Writers : WF_walVars(WriterStep(w) \/ PublishNext(w))

-----------------------------------------------------------------------------
WalTypeOK ==
    /\ session \in Sessions
    /\ current \in 0 .. MaxLsn /\ next \in 1 .. MaxLsn + 1
    /\ published \in 0 .. MaxLsn
    /\ slots \in [Lsns -> SlotStates]
    /\ mutex \in Writers \cup {None}
    /\ pc \in [Writers -> WriterPC]
    /\ span \in [Writers -> SUBSET Lsns]
    /\ scan \in [Writers -> [lsn : 0 .. MaxLsn, keys : SUBSET Lsns,
                             last : 0 .. MaxLsn]]
    /\ checkpoints \in 0 .. MaxCheckpoints
    /\ entries \in [Lsns -> 0 .. MaxSessions]
    /\ last \in 0 .. MaxLsn
    /\ ckpt \in 0 .. MaxLsn \cup {NoCheckpoint}
    /\ logged \subseteq [session : Sessions, lsn : Lsns]
    /\ rows \subseteq [session : Sessions, lsn : Lsns]
    /\ apart \subseteq [session : Sessions, lsn : Lsns]
    /\ shown \subseteq [session : Sessions, lsn : Lsns]
    /\ races \subseteq Known

\* Publication is complete below the publisher's position: every operation of
\* this session logged under a lower LSN has been shown, none above has, and
\* nothing is ever shown that was not logged, however the writers interleave.
\* What a commit stages is shown only with its rows written; an entry that is
\* written apart from its row may be shown before the row, or without it.
PublishedInOrder ==
    /\ shown \subseteq logged
    /\ shown \ apart \subseteq rows
    /\ \A op \in logged : op.session = session => (op \in shown <=> op.lsn < next)

\* "None where committed data lacks its entry": an operation that was logged, as
\* every row of a staged commit is, and whose entry is gone is at or below the
\* checkpoint, so that a standby behind it is refused and not given history
\* with a hole.  Only the row of an INSERT can be without an entry: when its
\* append fails, or a crash comes between the two.
PrunedIsCheckpointed ==
    races = {} => \A op \in logged \cup (rows \ apart) :
                    entries[op.lsn] # op.session => op.lsn <= ckpt

\* "The next session's first append must be > up_to_lsn": no LSN is handed out
\* at or below the checkpoint.
BornAboveCheckpoint == ckpt <= current

\* A reserved LSN is published or becomes a known hole: neither a failed write
\* nor a slow committer leaves catch-up and the live feed behind for ever.
PublicationDrains ==
    \A l \in Lsns : current >= l ~> published >= l \/ current < l
=============================================================================
