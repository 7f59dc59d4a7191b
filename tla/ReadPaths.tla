------------------------------ MODULE ReadPaths ------------------------------
(***************************************************************************)
(* The two short cuts around the version chains of one table, against the  *)
(* writers that must keep them honest:                                     *)
(*   - the row cache (storage/row_cache.rs): a point lookup serves a cached *)
(*     row, or reads storage and fills the cache if the storage generation *)
(*     is still the one it saw;                                            *)
(*   - the fast scan of an open transaction (sql/executor/scan.rs,          *)
(*     txn_base_tuples): while the table's committed-write watermark is at *)
(*     or below its snapshot, a transaction reads the current rows.         *)
(* A row's value is the number of the write that produced it; every write  *)
(* has its own number, and 0 is no row.                                    *)
(***************************************************************************)
EXTENDS Integers, FiniteSets, FiniteSetsExt

CONSTANTS
    Rows,           \* row ids of the table
    Writers,        \* sessions that write
    Lookups,        \* sessions in a point lookup
    Scanners,       \* sessions with an open transaction that scans
    MaxClock,       \* bound: timestamps and write numbers
    MaxBumps        \* bound: DDL statements and branch switches

ASSUME BoundsAssumption == MaxClock \in Nat \ {0} /\ MaxBumps \in Nat

None == 0

VARIABLES
    clock,          \* StorageEngine::timestamp; also numbers the writes
    data,           \* row -> value under its `data:` key
    chain,          \* row -> timestamps of its indexed versions
    inflight,       \* announced commits (WriteConflictRegistry)
    mark,           \* write_watermarks entry of the table, None when absent
    cache,          \* row -> cached value
    generation,     \* StorageEngine::schema_generation
    writer,         \* session -> its write
    lookup,         \* session -> its point lookup
    scan,           \* session -> its transaction's scan
    bumps,          \* schema generation bumps so far
    over,           \* history: row -> values that were overwritten
    buried,         \* history: row -> values overwritten by, or before, a
                    \* write that has returned
    replayed,       \* history: row -> the same for replays only
    refilled,       \* history: rows whose cache entry was filled with an
                    \* overwritten value
    hidden,         \* history: writes that the watermark, dropped and raised
                    \* again, does not report
    overtaken,      \* history: commits applied on top of a later one of their
                    \* row, an autocommit statement being one of the two
    late            \* history: autocommit commits applied at or below the
                    \* snapshot of a scan that had read its rows

disorder == <<hidden, overtaken, late>>
histories == <<over, buried, replayed, refilled, disorder>>
vars == <<clock, data, chain, inflight, mark, cache, generation, writer,
          lookup, scan, bumps, histories>>

IdleWriter == [pc |-> "idle", kind |-> "commit", row |-> None, val |-> None,
               over |-> {}]
IdleLookup == [pc |-> "idle", row |-> None, val |-> None, gen |-> 0,
               floor |-> {}, refill |-> FALSE]
IdleScan == [pc |-> "idle", ts |-> None, seen |-> [r \in Rows |-> None]]

Init ==
    /\ clock = 1
    /\ data = [r \in Rows |-> 1]
    /\ chain = [r \in Rows |-> {1}]
    /\ inflight = {}
    /\ mark = 1
    /\ cache = [r \in Rows |-> None]
    /\ generation = 0
    /\ writer = [w \in Writers |-> IdleWriter]
    /\ lookup = [l \in Lookups |-> IdleLookup]
    /\ scan = [s \in Scanners |-> IdleScan]
    /\ bumps = 0
    /\ over = [r \in Rows |-> {}]
    /\ buried = over
    /\ replayed = over
    /\ refilled = {}
    /\ hidden = {} /\ overtaken = {} /\ late = {}

Tick == clock < MaxClock /\ clock' = clock + 1

Newest(S, t) == Max({v \in S : v <= t} \cup {None})

\* Transactions lock the rows they write and there is one replay stream;
\* autocommit statements and fast updates overlap with everything.
Serial(r, kind) ==
    kind \in {"commit", "replay"} =>
        \A w \in Writers : ~(writer[w].row = r /\ writer[w].kind = kind)

\* A new value under the row's data key.
Overwrite(w, pc) ==
    LET r == writer[w].row
        gone == over[r] \cup {data[r]}
    IN  /\ data' = [data EXCEPT ![r] = writer[w].val]
        /\ over' = [over EXCEPT ![r] = gone]
        /\ writer' = [writer EXCEPT ![w].pc = pc, ![w].over = gone]

\* The write returns to its caller.
Return(w) ==
    /\ buried' = [buried EXCEPT ![writer[w].row] = @ \cup writer[w].over]
    /\ writer' = [writer EXCEPT ![w] = IdleWriter]

(***************************************************************************)
(* Transaction commits.  An explicit transaction announces its commit      *)
(* timestamp; an autocommit statement ("auto") does not.                   *)
(***************************************************************************)
AllocCommit(w, r, kind) ==
    /\ writer[w].pc = "idle"
    /\ Serial(r, kind)
    /\ Tick
    /\ writer' = [writer EXCEPT ![w] = [IdleWriter EXCEPT
          !.pc = "alloc", !.kind = kind, !.row = r, !.val = clock']]
    /\ inflight' = IF kind = "commit" THEN inflight \cup {clock'} ELSE inflight
    /\ UNCHANGED <<data, chain, mark, cache, generation, lookup, scan, bumps,
                   histories>>

\* Mutant: the entry of the table is overwritten by whoever commits last.
RaisedLast(ts) == ts

\* note_committed_write: monotone
Raised(ts) == Max({mark, ts})

\* The writes that a first watermark of m says nothing of: those put in
\* place, and commits above m whose own watermark was dropped.
Unreported(m) ==
    {v \in 1 .. clock :
        \/ \E r \in Rows :
              v \in over[r] \cup {data[r]} /\ (v \notin chain[r] \/ v > m)
        \/ \E w \in Writers :
              /\ writer[w].val = v
              /\ writer[w].pc = "dropped" \/ (writer[w].pc = "raised" /\ v > m)}

\* The watermark rises before the batch is visible.
RaiseMark(w) ==
    /\ writer[w].pc = "alloc"
    /\ mark' = Raised(writer[w].val)
    /\ writer' = [writer EXCEPT ![w].pc = "raised"]
    /\ hidden' = IF mark = None THEN hidden \cup Unreported(mark') ELSE hidden
    /\ UNCHANGED <<clock, data, chain, inflight, cache, generation, lookup,
                   scan, bumps, over, buried, replayed, refilled, overtaken, late>>

\* The commits of the row that are out of order once the autocommit commit of
\* w, which holds no row lock, is applied: those it passes, and itself if a
\* later one is there.
Passed(w) ==
    {writer[x].val : x \in {y \in Writers :
        /\ writer[y].row = writer[w].row /\ writer[y].kind = "commit"
        /\ writer[y].pc \in {"alloc", "raised"} /\ writer[y].val < writer[w].val}}
    \cup {v \in {writer[w].val} : \E u \in chain[writer[w].row] : u > v}

\* db.write of the batch: row and indexed version together.
ApplyBatch(w) ==
    LET r == writer[w].row
        v == writer[w].val
        auto == writer[w].kind = "auto"
        below == \E s \in Scanners :
                    scan[s].pc \in {"scanned", "accepted"} /\ v <= scan[s].ts
    IN  /\ writer[w].pc = "raised"
        /\ Overwrite(w, "applied")
        /\ chain' = [chain EXCEPT ![r] = @ \cup {v}]
        /\ overtaken' = IF auto THEN overtaken \cup Passed(w) ELSE overtaken
        /\ late' = IF auto /\ below THEN late \cup {v} ELSE late
        /\ UNCHANGED <<clock, inflight, mark, cache, generation, lookup, scan,
                       bumps, buried, replayed, refilled, hidden>>

Lift(w) == inflight' = inflight \ {writer[w].val}

\* Mutant: the failed commit stays announced.
BatchFailsLeaks(w) ==
    /\ writer[w].pc = "raised"
    /\ writer' = [writer EXCEPT ![w] = IdleWriter]
    /\ UNCHANGED <<clock, data, chain, inflight, mark, cache, generation, lookup,
                   scan, bumps, histories>>

\* db.write fails: no fence, the announcement is lifted, the watermark stays.
BatchFails(w) ==
    /\ writer[w].pc = "raised"
    /\ Lift(w)
    /\ writer' = [writer EXCEPT ![w] = IdleWriter]
    /\ UNCHANGED <<clock, data, chain, mark, cache, generation, lookup, scan,
                   bumps, histories>>

Evict(r) ==
    /\ cache' = [cache EXCEPT ![r] = None]
    /\ refilled' = refilled \ {r}

\* Mutant: the announcement is lifted and the commit returns before the fence.
FenceLate(w) ==
    /\ writer[w].pc = "applied"
    /\ Lift(w)
    /\ buried' = [buried EXCEPT ![writer[w].row] = @ \cup writer[w].over]
    /\ writer' = [writer EXCEPT ![w].pc = "fenced"]
    /\ UNCHANGED <<clock, data, chain, mark, cache, generation, lookup, scan,
                   bumps, over, replayed, refilled, disorder>>

\* The row-cache fence: the written row leaves the cache.  The storage
\* generation is not advanced.
Fence(w) ==
    /\ writer[w].pc = "applied"
    /\ Evict(writer[w].row)
    /\ writer' = [writer EXCEPT ![w].pc = "fenced"]
    /\ UNCHANGED <<clock, data, chain, inflight, mark, generation, lookup, scan,
                   bumps, over, buried, replayed, disorder>>

\* end_commit, then the locks are released.
EndCommit(w) ==
    /\ writer[w].pc = "fenced"
    /\ Lift(w)
    /\ Return(w)
    /\ UNCHANGED <<clock, data, chain, mark, cache, generation, lookup, scan,
                   bumps, over, replayed, refilled, disorder>>

(***************************************************************************)
(* Writes without an indexed version: the fast UPDATE of an autocommit     *)
(* statement or an upsert ("fast"), and live replay on a standby           *)
(* ("replay").                                                             *)
(***************************************************************************)
\* invalidate_write_watermark, before the value is visible
DropMark(w, r, kind) ==
    /\ writer[w].pc = "idle"
    /\ Serial(r, kind)
    /\ Tick
    /\ mark' = None
    /\ writer' = [writer EXCEPT ![w] = [IdleWriter EXCEPT
          !.pc = "dropped", !.kind = kind, !.row = r, !.val = clock']]
    /\ UNCHANGED <<data, chain, inflight, cache, generation, lookup, scan, bumps,
                   histories>>

PutInPlace(w) ==
    /\ writer[w].pc = "dropped"
    /\ Overwrite(w, "put")
    /\ UNCHANGED <<clock, chain, inflight, mark, cache, generation, lookup, scan,
                   bumps, buried, replayed, refilled, disorder>>

\* row_cache.invalidate, or invalidate_with_generation for replay: generation
\* and eviction under one shard lock.  A replay whose write failed does it too.
InvalidateRow(w) ==
    LET r == writer[w].row
        replay == writer[w].kind = "replay"
    IN  /\ \/ writer[w].pc = "put"
           \/ writer[w].pc = "dropped" /\ replay
        /\ Evict(r)
        /\ Return(w)
        /\ generation' = IF replay THEN generation + 1 ELSE generation
        /\ replayed' = IF replay THEN [replayed EXCEPT ![r] = @ \cup writer[w].over]
                       ELSE replayed
        /\ UNCHANGED <<clock, data, chain, inflight, mark, lookup, scan, bumps,
                       over, disorder>>

\* The put of a fast update fails: the watermark stays dropped.
PutFails(w) ==
    /\ writer[w].pc = "dropped" /\ writer[w].kind = "fast"
    /\ writer' = [writer EXCEPT ![w] = IdleWriter]
    /\ UNCHANGED <<clock, data, chain, inflight, mark, cache, generation, lookup,
                   scan, bumps, histories>>

\* bump_schema_generation, on DDL or a branch switch (which also empties the
\* row cache: Expire).
BumpGeneration ==
    /\ bumps < MaxBumps
    /\ bumps' = bumps + 1
    /\ generation' = generation + 1
    /\ mark' = None
    /\ UNCHANGED <<clock, data, chain, inflight, cache, writer, lookup, scan,
                   histories>>

(***************************************************************************)
(* Point lookups (get_row_by_pk, get_row_by_id).                           *)
(***************************************************************************)
\* get_arc: a hit returns the cached row; a miss captures the generation.
LookUp(l, r) ==
    /\ lookup[l].pc \in {"idle", "done"}
    /\ lookup' = [lookup EXCEPT ![l] =
            [pc |-> IF cache[r] # None THEN "done" ELSE "miss", row |-> r,
             val |-> cache[r], gen |-> generation, floor |-> buried[r],
             refill |-> r \in refilled]]
    /\ UNCHANGED <<clock, data, chain, inflight, mark, cache, generation, writer,
                   scan, bumps, histories>>

\* The row is read from storage.
ReadStorage(l) ==
    /\ lookup[l].pc = "miss"
    /\ lookup' = [lookup EXCEPT ![l].pc = "read", ![l].val = data[lookup[l].row]]
    /\ UNCHANGED <<clock, data, chain, inflight, mark, cache, generation, writer,
                   scan, bumps, histories>>

\* Mutant: the fill takes the generation as it is when it is published.
CurrentAny(l) == TRUE

\* The generation test of put_arc_checked, under the shard lock.
Current(l) == lookup[l].gen = generation

\* put_if_generation, then the row is returned.
FillCache(l) ==
    LET r == lookup[l].row
    IN  /\ lookup[l].pc = "read"
        /\ IF Current(l)
           THEN /\ cache' = [cache EXCEPT ![r] = lookup[l].val]
                /\ refilled' = IF lookup[l].val \in over[r]
                               THEN refilled \cup {r} ELSE refilled \ {r}
           ELSE UNCHANGED <<cache, refilled>>
        /\ lookup' = [lookup EXCEPT ![l].pc = "done"]
        /\ UNCHANGED <<clock, data, chain, inflight, mark, generation, writer,
                       scan, bumps, over, buried, replayed, disorder>>

\* The entry is evicted for capacity or has outlived its TTL.
Expire(r) ==
    /\ cache[r] # None
    /\ Evict(r)
    /\ UNCHANGED <<clock, data, chain, inflight, mark, generation, writer, lookup,
                   scan, bumps, over, buried, replayed, disorder>>

(***************************************************************************)
(* Scans of an open transaction (txn_base_tuples).                         *)
(***************************************************************************)
BeginTxn(s) ==
    /\ scan[s].pc = "idle"
    /\ Tick
    /\ scan' = [scan EXCEPT ![s].pc = "barrier", ![s].ts = clock']
    /\ UNCHANGED <<data, chain, inflight, mark, cache, generation, writer, lookup,
                   bumps, histories>>

\* snapshot_barrier
PassBarrier(s) ==
    /\ scan[s].pc = "barrier"
    /\ \A t \in inflight : t > scan[s].ts
    /\ scan' = [scan EXCEPT ![s].pc = "open"]
    /\ UNCHANGED <<clock, data, chain, inflight, mark, cache, generation, writer,
                   lookup, bumps, histories>>

\* table_unchanged_since: default-closed
Unchanged(ts) == mark # None /\ mark <= ts

\* The first look at the watermark admits the fast path.
CheckBefore(s) ==
    /\ scan[s].pc \in {"open", "accepted"}
    /\ Unchanged(scan[s].ts)
    /\ scan' = [scan EXCEPT
          ![s] = [IdleScan EXCEPT !.pc = "fast", !.ts = scan[s].ts]]
    /\ UNCHANGED <<clock, data, chain, inflight, mark, cache, generation, writer,
                   lookup, bumps, histories>>

\* The current rows, through one iterator.
ScanCurrent(s) ==
    /\ scan[s].pc = "fast"
    /\ scan' = [scan EXCEPT ![s].pc = "scanned", ![s].seen = data]
    /\ UNCHANGED <<clock, data, chain, inflight, mark, cache, generation, writer,
                   lookup, bumps, histories>>

\* The second look: keep the scan, or take the snapshot path instead.
CheckAfter(s) ==
    /\ scan[s].pc = "scanned"
    /\ scan' = [scan EXCEPT ![s] =
          IF Unchanged(scan[s].ts) THEN [scan[s] EXCEPT !.pc = "accepted"]
          ELSE [IdleScan EXCEPT !.pc = "open", !.ts = scan[s].ts]]
    /\ UNCHANGED <<clock, data, chain, inflight, mark, cache, generation, writer,
                   lookup, bumps, histories>>

EndTxn(s) ==
    /\ scan[s].pc \in {"open", "accepted"}
    /\ scan' = [scan EXCEPT ![s] = IdleScan]
    /\ UNCHANGED <<clock, data, chain, inflight, mark, cache, generation, writer,
                   lookup, bumps, histories>>

WriterStep(w) ==
    \/ \E r \in Rows, kind \in {"commit", "auto"} : AllocCommit(w, r, kind)
    \/ \E r \in Rows, kind \in {"fast", "replay"} : DropMark(w, r, kind)
    \/ RaiseMark(w) \/ ApplyBatch(w) \/ BatchFails(w) \/ Fence(w) \/ EndCommit(w)
    \/ PutInPlace(w) \/ InvalidateRow(w) \/ PutFails(w)

LookupStep(l) ==
    \/ \E r \in Rows : LookUp(l, r)
    \/ ReadStorage(l) \/ FillCache(l)

ScanStep(s) ==
    \/ BeginTxn(s) \/ PassBarrier(s) \/ CheckBefore(s) \/ ScanCurrent(s)
    \/ CheckAfter(s) \/ EndTxn(s)

Next ==
    \/ \E w \in Writers : WriterStep(w)
    \/ \E l \in Lookups : LookupStep(l)
    \/ \E s \in Scanners : ScanStep(s)
    \/ \E r \in Rows : Expire(r)
    \/ BumpGeneration

Spec == Init /\ [][Next]_vars

(***************************************************************************)
(* Properties.                                                             *)
(***************************************************************************)
Values == 0 .. MaxClock

\* Every variable keeps its type; an announced commit belongs to a writer.
TypeOK ==
    /\ clock \in Values /\ mark \in Values
    /\ data \in [Rows -> Values] /\ cache \in [Rows -> Values]
    /\ chain \in [Rows -> SUBSET Values]
    /\ inflight \subseteq {writer[w].val : w \in Writers}
    /\ generation \in Nat
    /\ writer \in [Writers ->
          [pc : {"idle", "alloc", "raised", "applied", "fenced", "dropped", "put"},
           kind : {"commit", "auto", "fast", "replay"}, row : Rows \cup {None},
           val : Values, over : SUBSET Values]]
    /\ lookup \in [Lookups ->
          [pc : {"idle", "miss", "read", "done"}, row : Rows \cup {None},
           val : Values, gen : Nat, floor : SUBSET Values,
           refill : BOOLEAN]]
    /\ scan \in [Scanners ->
          [pc : {"idle", "barrier", "open", "fast", "scanned", "accepted"},
           ts : Values, seen : [Rows -> Values]]]
    /\ {over, buried, replayed} \subseteq [Rows -> SUBSET Values]
    /\ refilled \subseteq Rows
    /\ hidden \subseteq Values /\ overtaken \subseteq Values /\ late \subseteq Values

\* A point lookup that starts after a write has returned serves nothing that
\* this write, or one before it, overwrote: the fence precedes end_commit.  The
\* exception is an entry filled by a lookup that had read storage before.
LookupsSeeSettled ==
    \A l \in Lookups :
        lookup[l].pc = "done" /\ ~lookup[l].refill =>
            lookup[l].val \notin lookup[l].floor

\* Live replay advances the generation under the shard lock, so no fill that
\* read storage before it brings an overwritten row back.
ReplayedNeverResurrected ==
    \A r \in Rows : cache[r] \notin replayed[r]

\* A fast scan that passes both looks at the watermark is row for row what
\* scan_table_at_snapshot resolves, then and for as long as the transaction
\* keeps the result: no write after the snapshot shows in it, no commit before
\* it is missing.  The exceptions are rows whose write the watermark lost when
\* it was dropped and raised again, rows where an autocommit commit and
\* another one were applied out of order, and autocommit commits that appear
\* below the snapshot after the scan.
FastScanIsSnapshot ==
    \A s \in Scanners, r \in Rows :
        LET image == Newest(chain[r], scan[s].ts)
        IN  scan[s].pc = "accepted" =>
                \/ scan[s].seen[r] = image
                \/ scan[s].seen[r] \in hidden \cup overtaken
                \/ image \in late

\* Without the exception of LookupsSeeSettled: no fresh lookup serves a row
\* from before a commit that has returned.
FreshLookupsSeeCommits ==
    \A l \in Lookups : lookup[l].pc = "done" => lookup[l].val \notin lookup[l].floor

=============================================================================
