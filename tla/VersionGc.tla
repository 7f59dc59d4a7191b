------------------------------ MODULE VersionGc ------------------------------
(***************************************************************************)
(* Watermark-based garbage collection of MVCC row versions                 *)
(* (storage/version_gc.rs) against the readers, branches and writers that  *)
(* depend on the version chains, with failures of a cycle and restarts.    *)
(*                                                                         *)
(* A row's chain is the set of timestamps of its `v:` keys and of its      *)
(* `v_idx:` keys; the row images are left out.  Wall-clock time enters     *)
(* only through `aged`, the newest logical timestamp that an anchor proves *)
(* older than the retention window: how long the window is, and how long a *)
(* thread sleeps between two of its steps, is left open.                   *)
(***************************************************************************)
EXTENDS Integers, FiniteSets, FiniteSetsExt

CONSTANTS
    NumRows,        \* the rows 1 .. NumRows, in the key order the scan follows
    Loaded,         \* the rows that exist at the start, inserted at time 1
    Holders,        \* sessions that read at a snapshot or create a branch
    Writers,        \* sessions that commit a row version
    Branches,       \* names of non-main branches
    MaxPerCycle,    \* version_gc_max_per_cycle: deletions that end a cycle
    MaxClock,       \* bound: timestamps issued
    MaxFaults       \* bound: restarts and cycles that end with an error

ASSUME NumRowsAssumption == NumRows \in Nat \ {0}
ASSUME LoadedAssumption == Loaded \subseteq 1 .. NumRows
ASSUME MaxPerCycleAssumption == MaxPerCycle \in Nat \ {0}
ASSUME BoundsAssumption == MaxClock \in Nat \ {0} /\ MaxFaults \in Nat
ASSUME NamesAssumption == Holders \cap Branches = {}

Rows == 1 .. NumRows
Times == 0 .. MaxClock
NoTs == 0           \* also created_from_snapshot = 0, which pins nothing

VARIABLES
    clock,          \* StorageEngine::timestamp
    versions,       \* row -> timestamps of its `v:` keys
    index,          \* row -> timestamps of its `v_idx:` keys
    registered,     \* persisted snapshot metadata (`snapshot:` keys)
    anchors,        \* logical timestamps of the `vgc:anchor:` keys
    aged,           \* newest anchored timestamp behind the retention cutoff
    durableMark,    \* `vgc:low_watermark` on disk
    mark,           \* SnapshotManager::gc_low_watermark
    branches,       \* branch -> created_from_snapshot, NoTs when not active
    holder,         \* session -> its read: [pc, ts]
    writer,         \* session -> its commit: [pc, ts, row]
    gc,             \* the cycle in progress (gc_lock holder)
    cursor,         \* row the next bounded cycle starts from
    faults,         \* restarts and failed cycles so far
    writtenV,       \* history: row -> every `v:` timestamp ever written
    writtenIdx,     \* history: row -> every `v_idx:` timestamp ever written
    late            \* history: holders and branches that were published as a
                    \* pin or an anchor when the watermark had passed them

store == <<versions, index, registered>>
written == <<writtenV, writtenIdx>>
collector == <<gc, cursor>>
vars == <<clock, store, anchors, aged, durableMark, mark, branches, holder,
          writer, collector, faults, written, late>>

IdleHolder == [pc |-> "idle", ts |-> NoTs]
IdleWriter == [pc |-> "idle", ts |-> NoTs, row |-> 1]
IdleGc == [pc |-> "idle", horizon |-> NoTs,
           row |-> 1, deleted |-> 0, seen |-> [r \in Rows |-> {}]]

(***************************************************************************)
(* Both watermark stores, the pins and the retained keys.                  *)
(***************************************************************************)
Pinned == {h \in Holders : holder[h].pc \in {"pinned", "reading", "txn"}}

\* min_pinned_snapshot
Pins == {holder[h].ts : h \in Pinned}

\* list_branches: the active ones, without those anchored at 0
BranchAnchors == {branches[b] : b \in Branches} \ {NoTs}

UpTo(S, t) == {s \in S : s <= t}

\* The newest member of S at or before t, NoTs if there is none.
Newest(S, t) == Max(UpTo(S, t) \cup {NoTs})

Init ==
    /\ clock = 1
    /\ versions = [r \in Rows |-> IF r \in Loaded THEN {1} ELSE {}]
    /\ index = versions
    /\ registered = IF Loaded = {} THEN {} ELSE {1}
    /\ anchors = {}
    /\ aged = NoTs
    /\ durableMark = 0
    /\ mark = 0
    /\ branches = [b \in Branches |-> NoTs]
    /\ holder = [h \in Holders |-> IdleHolder]
    /\ writer = [w \in Writers |-> IdleWriter]
    /\ gc = IdleGc
    /\ cursor = 1
    /\ faults = 0
    /\ writtenV = versions
    /\ writtenIdx = index
    /\ late = {}

(***************************************************************************)
(* Writers.                                                                *)
(***************************************************************************)
\* next_timestamp
Tick == clock < MaxClock /\ clock' = clock + 1

\* The commit timestamp is allocated before anything is written.
AllocCommit(w, r) ==
    /\ writer[w].pc = "idle"
    /\ Tick
    /\ writer' = [writer EXCEPT ![w] = [pc |-> "alloc", ts |-> clock', row |-> r]]
    /\ UNCHANGED <<store, anchors, aged, durableMark, mark, branches, holder,
                   collector, faults, written, late>>

PutVersions(r, V, I) ==
    /\ versions' = [versions EXCEPT ![r] = @ \cup V]
    /\ index' = [index EXCEPT ![r] = @ \cup I]
    /\ writtenV' = [writtenV EXCEPT ![r] = @ \cup V]
    /\ writtenIdx' = [writtenIdx EXCEPT ![r] = @ \cup I]

\* A transaction's batch: the version and its index entry.  The snapshot
\* metadata follows in a write of its own, after end_commit.
ApplyTxn(w) ==
    /\ writer[w].pc = "alloc"
    /\ PutVersions(writer[w].row, {writer[w].ts}, {writer[w].ts})
    /\ writer' = [writer EXCEPT ![w].pc = "applied"]
    /\ UNCHANGED <<clock, registered, anchors, aged, durableMark, mark,
                   branches, holder, collector, faults, late>>

\* The autocommit UPDATE funnel: the old image at ts - 1 and the new one at
\* ts, neither indexed; then the snapshot metadata.
ApplyUpdate(w) ==
    LET t == writer[w].ts
        r == writer[w].row
    IN  /\ writer[w].pc = "alloc"
        /\ versions[r] # {}
        /\ PutVersions(r, {t, t - 1}, {})
        /\ writer' = [writer EXCEPT ![w].pc = "applied"]
        /\ UNCHANGED <<clock, registered, anchors, aged, durableMark, mark,
                       branches, holder, collector, faults, late>>

\* Fast autocommit INSERT: version, index entry and metadata in one batch.
ApplyInsert(w) ==
    /\ writer[w].pc = "alloc"
    /\ versions[writer[w].row] = {}
    /\ PutVersions(writer[w].row, {writer[w].ts}, {writer[w].ts})
    /\ registered' = registered \cup {writer[w].ts}
    /\ writer' = [writer EXCEPT ![w] = IdleWriter]
    /\ UNCHANGED <<clock, anchors, aged, durableMark, mark, branches, holder,
                   collector, faults, late>>

RegisterSnapshot(w) ==
    /\ writer[w].pc = "applied"
    /\ registered' = registered \cup {writer[w].ts}
    /\ writer' = [writer EXCEPT ![w] = IdleWriter]
    /\ UNCHANGED <<clock, versions, index, anchors, aged, durableMark, mark,
                   branches, holder, collector, faults, written, late>>

(***************************************************************************)
(* Readers.                                                                *)
(***************************************************************************)
\* begin_transaction allocates the snapshot ...
BeginTxn(h) ==
    /\ holder[h].pc = "idle"
    /\ Tick
    /\ holder' = [holder EXCEPT ![h] = [pc |-> "begun", ts |-> clock']]
    /\ UNCHANGED <<store, anchors, aged, durableMark, mark, branches, writer,
                   collector, faults, written, late>>

\* ... and set_conflict_registry pins it, after the snapshot barrier and
\* without a look at the watermark.
PinTxn(h) ==
    /\ holder[h].pc = "begun"
    /\ holder' = [holder EXCEPT ![h].pc = "txn"]
    /\ late' = IF holder[h].ts < mark THEN late \cup {h} ELSE late
    /\ UNCHANGED <<clock, store, anchors, aged, durableMark, mark, branches,
                   writer, collector, faults, written>>

\* check_gc_horizon
Admissible(t) == t >= mark

\* resolve_as_of: a registered snapshot at or above the watermark; AS OF NOW
\* is the newest one, taken without the check.
ResolveAsOf(h) ==
    /\ holder[h].pc = "idle"
    /\ \E t \in registered :
        /\ Admissible(t) \/ t = Max(registered)
        /\ holder' = [holder EXCEPT ![h] = [pc |-> "resolved", ts |-> t]]
    /\ UNCHANGED <<clock, store, anchors, aged, durableMark, mark, branches,
                   writer, collector, faults, written, late>>

\* pin_historical_snapshot, first half: the pin is taken ...
PinAsOf(h) ==
    /\ holder[h].pc = "resolved"
    /\ holder' = [holder EXCEPT ![h].pc = "pinned"]
    /\ UNCHANGED <<clock, store, anchors, aged, durableMark, mark, branches,
                   writer, collector, faults, written, late>>

\* Mutant: the watermark checked by resolve_as_of is trusted.
CheckAsOfTrusting(h) ==
    /\ holder[h].pc = "pinned"
    /\ holder' = [holder EXCEPT ![h].pc = "reading"]
    /\ UNCHANGED <<clock, store, anchors, aged, durableMark, mark, branches,
                   writer, collector, faults, written, late>>

\* ... second half: and then compared with the watermark.
CheckAsOf(h) ==
    /\ holder[h].pc = "pinned"
    /\ holder' = [holder EXCEPT ![h] =
                    IF Admissible(@.ts) THEN [@ EXCEPT !.pc = "reading"]
                    ELSE IdleHolder]
    /\ UNCHANGED <<clock, store, anchors, aged, durableMark, mark, branches,
                   writer, collector, faults, written, late>>

\* The statement or the transaction ends and drops its pin.
EndRead(h) ==
    /\ holder[h].pc \in {"reading", "txn"}
    /\ holder' = [holder EXCEPT ![h] = IdleHolder]
    /\ late' = late \ {h}
    /\ UNCHANGED <<clock, store, anchors, aged, durableMark, mark, branches,
                   writer, collector, faults, written>>

(***************************************************************************)
(* Branches.                                                               *)
(***************************************************************************)
SetAnchor(b, t) ==
    /\ branches[b] = NoTs
    /\ branches' = [branches EXCEPT ![b] = t]

\* CREATE BRANCH ... AS OF: the anchor is persisted under the statement's
\* pin.  create_branch draws a timestamp of its own for created_at.
CreateBranchAsOf(h, b) ==
    /\ holder[h].pc = "reading"
    /\ Tick
    /\ SetAnchor(b, holder[h].ts)
    /\ UNCHANGED <<store, anchors, aged, durableMark, mark, holder, writer,
                   collector, faults, written, late>>

\* CREATE BRANCH ... AS OF NOW draws its anchor from the clock, unpinned ...
BeginBranchNow(h) ==
    /\ holder[h].pc = "idle"
    /\ Tick
    /\ holder' = [holder EXCEPT ![h] = [pc |-> "branching", ts |-> clock']]
    /\ UNCHANGED <<store, anchors, aged, durableMark, mark, branches, writer,
                   collector, faults, written, late>>

\* ... and persists it in create_branch.
CreateBranchNow(h, b) ==
    /\ holder[h].pc = "branching"
    /\ Tick
    /\ SetAnchor(b, holder[h].ts)
    /\ holder' = [holder EXCEPT ![h] = IdleHolder]
    /\ late' = IF holder[h].ts < mark THEN late \cup {b} ELSE late
    /\ UNCHANGED <<store, anchors, aged, durableMark, mark, writer, collector,
                   faults, written>>

DropBranch(b) ==
    /\ branches[b] # NoTs
    /\ branches' = [branches EXCEPT ![b] = NoTs]
    /\ late' = late \ {b}
    /\ UNCHANGED <<clock, store, anchors, aged, durableMark, mark, holder,
                   writer, collector, faults, written>>

(***************************************************************************)
(* The collector.                                                          *)
(***************************************************************************)
\* Wall-clock time passes: an anchor or a snapshot's registration time drops
\* behind now - version_retention (max over both kinds of mapping).
\* retention_horizon drops the anchors behind the one it chooses.
Datable == {t \in anchors \cup registered : t > aged}

Age ==
    /\ Datable # {}
    /\ aged' = Min(Datable)
    /\ anchors' = {t \in anchors : t > aged'}
    /\ UNCHANGED <<clock, store, durableMark, mark, branches, holder,
                   writer, collector, faults, written, late>>

\* record_time_anchor
RecordAnchor == anchors' = anchors \cup ({clock} \ UpTo({clock}, aged))

\* run_cycle_locked from its entry: without a timestamp provably behind the
\* cutoff there is nothing to do.
EnterCycle ==
    gc' = IF aged = NoTs THEN IdleGc
          ELSE [IdleGc EXCEPT !.pc = "clamp", !.horizon = aged]

\* run_cycle: the background thread's interval has passed.
RunCycle ==
    /\ gc.pc = "idle"
    /\ RecordAnchor
    /\ EnterCycle
    /\ UNCHANGED <<clock, store, aged, durableMark, mark, branches, holder,
                   writer, cursor, faults, written, late>>

\* VACUUM VERSIONS: a cycle from the first row.  Those it adds until a pass is
\* complete are cycles like any other.
Vacuum ==
    /\ gc.pc = "idle"
    /\ RecordAnchor
    /\ cursor' = 1
    /\ EnterCycle
    /\ UNCHANGED <<clock, store, aged, durableMark, mark, branches, holder,
                   writer, faults, written, late>>

\* The first clamp_horizon: it decides how far the watermark moves, if at all.
Clamp ==
    LET horizon == Min({gc.horizon} \cup Pins \cup BranchAnchors)
    IN  /\ gc.pc = "clamp"
        /\ gc' = [gc EXCEPT !.horizon = horizon,
                            !.pc = IF horizon > mark THEN "persist" ELSE "pins"]
        /\ UNCHANGED <<clock, store, anchors, aged, durableMark, mark,
                       branches, holder, writer, cursor, faults, written, late>>

\* Mutant: the watermark is kept in memory only.
PersistMarkNever ==
    /\ gc.pc = "persist"
    /\ gc' = [gc EXCEPT !.pc = "publish"]
    /\ UNCHANGED <<clock, store, anchors, aged, durableMark, mark, branches,
                   holder, writer, cursor, faults, written, late>>

\* The watermark goes to disk ...
PersistMark ==
    /\ gc.pc = "persist"
    /\ durableMark' = gc.horizon
    /\ gc' = [gc EXCEPT !.pc = "publish"]
    /\ UNCHANGED <<clock, store, anchors, aged, mark, branches, holder, writer,
                   cursor, faults, written, late>>

\* ... then to memory, and the pins are read a second time.
PublishMark ==
    /\ gc.pc = "publish"
    /\ mark' = Max({mark, gc.horizon})
    /\ gc' = [gc EXCEPT !.pc = "pins"]
    /\ UNCHANGED <<clock, store, anchors, aged, durableMark, branches, holder,
                   writer, cursor, faults, written, late>>

\* The second clamp_horizon, which decides what is deleted: the pins are read
\* first ...
ClampPins ==
    /\ gc.pc = "pins"
    /\ gc' = [gc EXCEPT !.pc = "branches", !.horizon = Min({@} \cup Pins)]
    /\ UNCHANGED <<clock, store, anchors, aged, durableMark, mark, branches,
                   holder, writer, cursor, faults, written, late>>

\* Mutant: the second look is at the pins only.
ClampBranchesOnce ==
    /\ gc.pc = "branches"
    /\ gc' = [gc EXCEPT !.pc = "open"]
    /\ UNCHANGED <<clock, store, anchors, aged, durableMark, mark, branches,
                   holder, writer, cursor, faults, written, late>>

\* ... and the branches after them.
ClampBranches ==
    /\ gc.pc = "branches"
    /\ gc' = [gc EXCEPT !.pc = "open", !.horizon = Min({@} \cup BranchAnchors)]
    /\ UNCHANGED <<clock, store, anchors, aged, durableMark, mark, branches,
                   holder, writer, cursor, faults, written, late>>

\* collect_below opens its iterator: a consistent view of the `v:` keys.
OpenScan ==
    /\ gc.pc = "open"
    /\ gc' = [gc EXCEPT !.pc = "scan", !.row = cursor, !.seen = versions]
    /\ UNCHANGED <<clock, store, anchors, aged, durableMark, mark, branches,
                   holder, writer, cursor, faults, written, late>>

\* process_group_fn: of the versions at or below the horizon the newest is
\* kept and, where that one has no index entry, the newest that has.
Reclaimable(r, V, horizon) ==
    LET keep == Newest(V, horizon)
        keepIndexed == Newest(V \cap index[r], horizon)
    IN  IF Cardinality(V) > 1
        THEN UpTo(V, horizon) \ {keep, keepIndexed}
        ELSE {}

\* The group boundary: a later group ends the cycle when the bound is reached
\* and is where the next cycle resumes; without one the pass is complete.
Rest(r) == {q \in Rows : q > r /\ gc.seen[q] # {}}

\* Mutant: a complete pass leaves the cursor behind the last row.
NextCursorPast(r, deleted) ==
    IF Rest(r) = {} THEN r + 1
    ELSE IF deleted >= MaxPerCycle THEN Min(Rest(r)) ELSE cursor

\* Mutant: a complete pass leaves the cursor where it was.
NextCursorStuck(r, deleted) ==
    IF Rest(r) # {} /\ deleted >= MaxPerCycle THEN Min(Rest(r)) ELSE cursor

NextCursor(r, deleted) ==
    IF Rest(r) = {} THEN 1
    ELSE IF deleted >= MaxPerCycle THEN Min(Rest(r)) ELSE cursor

\* One row group of the scan and the deletion of its dead versions.  (The code
\* holds deletions back until 1024 keys have gathered, which only delays them.)
CollectRow ==
    LET r == gc.row
        dead == Reclaimable(r, gc.seen[r], gc.horizon)
        deleted == gc.deleted + Cardinality(dead)
    IN  /\ gc.pc = "scan"
        /\ versions' = [versions EXCEPT ![r] = @ \ dead]
        /\ index' = [index EXCEPT ![r] = @ \ dead]
        /\ gc' = IF Rest(r) = {} \/ deleted >= MaxPerCycle THEN IdleGc
                 ELSE [gc EXCEPT !.row = Min(Rest(r)), !.deleted = deleted]
        /\ cursor' = NextCursor(r, deleted)
        /\ UNCHANGED <<clock, registered, anchors, aged, durableMark, mark,
                       branches, holder, writer, faults, written, late>>

Fault == faults < MaxFaults /\ faults' = faults + 1

\* Reading the branches, writing the watermark or a delete batch fails: the
\* cycle returns the error with the stored cursor as it was.
CycleFails ==
    /\ gc.pc \in {"clamp", "branches", "persist", "scan"}
    /\ Fault
    /\ gc' = IdleGc
    /\ UNCHANGED <<clock, store, anchors, aged, durableMark, mark, branches,
                   holder, writer, cursor, written, late>>

(***************************************************************************)
(* Restart: what is in memory is gone, the engine seeds its clock from the *)
(* snapshot metadata and VersionGc::new raises it to the watermark.        *)
(***************************************************************************)
SeedClock == Max(registered \cup {durableMark, 1})

Restart ==
    /\ Fault
    /\ clock' = SeedClock
    /\ mark' = durableMark
    /\ holder' = [h \in Holders |-> IdleHolder]
    /\ writer' = [w \in Writers |-> IdleWriter]
    /\ gc' = IdleGc
    /\ cursor' = 1
    /\ late' = late \ Holders
    /\ UNCHANGED <<store, anchors, aged, durableMark, branches, written>>

CollectorStep ==
    \/ Clamp \/ PersistMark \/ PublishMark \/ ClampPins \/ ClampBranches
    \/ OpenScan \/ CollectRow

Next ==
    \/ \E w \in Writers :
        \/ \E r \in Rows : AllocCommit(w, r)
        \/ ApplyTxn(w) \/ ApplyUpdate(w) \/ ApplyInsert(w) \/ RegisterSnapshot(w)
    \/ \E h \in Holders :
        \/ BeginTxn(h) \/ PinTxn(h) \/ EndRead(h)
        \/ ResolveAsOf(h) \/ PinAsOf(h) \/ CheckAsOf(h)
        \/ BeginBranchNow(h)
        \/ \E b \in Branches : CreateBranchAsOf(h, b) \/ CreateBranchNow(h, b)
    \/ \E b \in Branches : DropBranch(b)
    \/ Age \/ RunCycle \/ Vacuum \/ CollectorStep \/ CycleFails
    \/ Restart

\* The worker thread runs a cycle per interval and finishes what it starts.
Fairness == WF_vars(RunCycle) /\ WF_vars(CollectorStep)

Spec == Init /\ [][Next]_vars /\ Fairness

(***************************************************************************)
(* Properties.                                                             *)
(***************************************************************************)
\* Every variable keeps its type.
TypeOK ==
    /\ clock \in Times
    /\ {versions, index, writtenV, writtenIdx} \subseteq [Rows -> SUBSET Times]
    /\ registered \subseteq Times /\ anchors \subseteq Times
    /\ {aged, durableMark, mark} \subseteq Times
    /\ branches \in [Branches -> Times]
    /\ holder \in [Holders ->
          [pc : {"idle", "begun", "txn", "resolved", "pinned", "reading",
                 "branching"}, ts : Times]]
    /\ writer \in [Writers -> [pc : {"idle", "alloc", "applied"}, ts : Times,
                               row : Rows]]
    /\ gc \in [pc : {"idle", "clamp", "persist", "pins", "branches", "publish", "open",
                     "scan"},
               horizon : Times, row : Rows,
               deleted : Nat, seen : [Rows -> SUBSET Times]]
    /\ cursor \in Rows
    /\ faults \in 0 .. MaxFaults
    /\ late \subseteq Holders \cup Branches

\* What a read at t depends on is what it would have been without collection:
\* read_at_snapshot resolves the newest indexed version at or before t and
\* finds its value, and scan_versions_between from t on misses nothing.
ExactAt(t) ==
    \A r \in Rows :
        /\ Newest(index[r], t) = Newest(writtenIdx[r], t)
        /\ Newest(index[r], t) \in versions[r] \cup {NoTs}
        /\ {v \in writtenV[r] : v >= t} \subseteq versions[r]

\* While a transaction or an AS OF statement holds its pin, every row reads as
\* if nothing had been collected, whichever way its pin and its check fell
\* between the collector's two looks at the pins.  A transaction that pinned
\* a snapshot the watermark had already passed is excepted.
PinnedReadsExact ==
    \A h \in Holders \ late :
        holder[h].pc \in {"reading", "txn"} => ExactAt(holder[h].ts)

\* An active branch keeps the history at its anchor, from the pin of the
\* statement that created it through the branch registry, across restarts.
AnchorsExact ==
    \A b \in Branches \ late : branches[b] # NoTs => ExactAt(branches[b])

\* At every instant, so also for a process that dies there, what has been
\* deleted is invisible at and above the watermark on disk: a restart never
\* admits a read of a pruned chain.
DurableMarkCovers ==
    \A t \in Times : t >= durableMark => ExactAt(t)

\* Once nothing pins history any more, every version that is dead at the
\* retention horizon is gone, however the bounded cycles, their cursor and
\* failed cycles fall.
Garbage == {r \in Rows : Reclaimable(r, versions[r], aged) # {}}
Unpinned ==
    /\ \A h \in Holders : holder[h].pc \notin {"pinned", "reading", "txn"}
    /\ BranchAnchors = {}
Reclaims == <>[]Unpinned => []<>(Garbage = {})

\* The watermark never runs ahead of the timestamps the engine has issued: an
\* anchor maps a wall-clock time to a timestamp that is in the past.
WatermarkBehindClock == mark <= clock

=============================================================================
