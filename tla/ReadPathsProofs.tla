-------------------------- MODULE ReadPathsProofs --------------------------
(***************************************************************************)
(* Proofs about ReadPaths, for any number of rows and sessions: what the   *)
(* row cache and the fast scan serve.                                      *)
(*                                                                         *)
(* ReadInv adds to the properties                                          *)
(*   - Slots, Stored: every write has a number of its own, so that the     *)
(*     current row is none of the overwritten ones;                        *)
(*   - Announced: an announcement belongs to the commit that made it;      *)
(*   - Cached: between a writer's fence and its return, the cache holds    *)
(*     nothing that the writer overwrote, unless it was refilled;          *)
(*   - Looked: a lookup whose generation is current read nothing that a    *)
(*     replay has overwritten.                                             *)
(* ScanSide is about the scans:                                            *)
(*   - Locked: one announced commit at a time has a row, from its          *)
(*     timestamp to its batch;                                             *)
(*   - Ordered: a row that a commit left is its newest version, unless an  *)
(*     autocommit commit broke the order;                                  *)
(*   - Reported: whatever a row has been, the watermark is absent, or at   *)
(*     or above it, or lost it in a drop;                                  *)
(*   - Scanned: where a scan differs from the snapshot it shows a write in *)
(*     place or a version above the snapshot, and either is one that       *)
(*     Reported makes the second look reject.  It stays so because no      *)
(*     announced commit is at or below a snapshot that passed the barrier. *)
(***************************************************************************)
EXTENDS ReadPaths, WellFoundedInduction, TLAPS

WriterType == [pc : {"idle", "alloc", "raised", "applied", "fenced", "dropped", "put"},
               kind : {"commit", "auto", "fast", "replay"}, row : Rows \cup {None},
               val : Values, over : SUBSET Values]
LookupType == [pc : {"idle", "miss", "read", "done"}, row : Rows \cup {None},
               val : Values, gen : Nat, floor : SUBSET Values, refill : BOOLEAN]
ScanType == [pc : {"idle", "barrier", "open", "fast", "scanned", "accepted"},
             ts : Values, seen : [Rows -> Values]]

Typed ==
    /\ clock \in Values /\ mark \in Values
    /\ data \in [Rows -> Values] /\ cache \in [Rows -> Values]
    /\ chain \in [Rows -> SUBSET Values]
    /\ generation \in Nat
    /\ writer \in [Writers -> WriterType]
    /\ lookup \in [Lookups -> LookupType]
    /\ scan \in [Scanners -> ScanType]
    /\ over \in [Rows -> SUBSET Values]
    /\ buried \in [Rows -> SUBSET Values]
    /\ replayed \in [Rows -> SUBSET Values]
    /\ refilled \subseteq Rows
    /\ hidden \subseteq Values /\ overtaken \subseteq Values /\ late \subseteq Values

\* The writers that have not overwritten anything yet.
Pending(w) == writer[w].pc \in {"alloc", "raised", "dropped"}

Slots ==
    /\ \A w \in Writers : writer[w].pc # "idle" =>
         /\ writer[w].row \in Rows
         /\ 0 < writer[w].val /\ writer[w].val <= clock
         /\ writer[w].over \subseteq over[writer[w].row]
    /\ \A w \in Writers : writer[w].pc \in {"dropped", "put"} =>
         writer[w].kind \in {"fast", "replay"}
    /\ \A w, v \in Writers : w # v /\ writer[w].pc # "idle" /\ writer[v].pc # "idle" =>
         writer[w].val # writer[v].val

Stored ==
    /\ \A r \in Rows : 0 < data[r] /\ data[r] <= clock /\ data[r] \notin over[r]
    /\ \A r \in Rows : \A v \in over[r] : 0 < v /\ v <= clock
    /\ \A r \in Rows : buried[r] \subseteq over[r] /\ replayed[r] \subseteq over[r]
    /\ \A w \in Writers : Pending(w) =>
         \A r \in Rows : writer[w].val # data[r] /\ writer[w].val \notin over[r]

Announced ==
    \A t \in inflight : \E w \in Writers :
      writer[w].val = t /\ writer[w].pc \in {"alloc", "raised", "applied", "fenced"}

Cached ==
    \A r \in Rows :
      /\ cache[r] \notin replayed[r]
      /\ r \notin refilled =>
           /\ cache[r] \notin buried[r]
           /\ \A w \in Writers : writer[w].pc = "fenced" /\ writer[w].row = r =>
                cache[r] \notin writer[w].over

LookedBy(l) ==
    /\ lookup[l].gen <= generation
    /\ lookup[l].pc \in {"miss", "read"} =>
         lookup[l].row \in Rows /\ lookup[l].floor \subseteq over[lookup[l].row]
    /\ lookup[l].pc = "read" => lookup[l].val \notin lookup[l].floor
    /\ lookup[l].pc = "read" /\ lookup[l].gen = generation =>
         lookup[l].val \notin replayed[lookup[l].row]
    /\ lookup[l].pc = "done" /\ ~lookup[l].refill => lookup[l].val \notin lookup[l].floor
Looked == \A l \in Lookups : LookedBy(l)

ReadInv ==
    /\ Typed /\ Slots /\ Stored /\ Announced
    /\ Cached /\ Looked
-----------------------------------------------------------------------------
(* Greatest elements.                                                      *)

\* A non-empty set of naturals has a least element.
LEMMA LeastNat ==
  ASSUME NEW S, S \subseteq Nat, S # {}
  PROVE  \E x \in S : \A y \in S : x <= y
  <1>1. PICK x \in S : \A y \in S : ~(<<y, x>> \in OpToRel(<, Nat))
    BY NatLessThanWellFounded, WFMin, Zenon
  <1>2. \A y \in S : y < x => <<y, x>> \in OpToRel(<, Nat) BY DEF OpToRel
  <1>3. \A y \in S : ~(y < x) BY <1>1, <1>2, Zenon
  <1>4. \A y \in S : x <= y BY <1>3
  <1> QED BY <1>4

\* Max of a non-empty set of values.
LEMMA MaxValue ==
  ASSUME NEW S, S \subseteq Values, S # {}
  PROVE  Max(S) \in S /\ Max(S) \in Values /\ \A x \in S : x <= Max(S)
  <1>1. MaxClock \in Nat BY BoundsAssumption
  <1> DEFINE T == {MaxClock - x : x \in S}
  <1>2. \A x \in S : x \in Nat /\ MaxClock - x \in Nat BY <1>1 DEF Values
  <1>3. T \subseteq Nat /\ T # {} BY <1>2
  <1>4. PICK t \in T : \A y \in T : t <= y BY <1>3, LeastNat
  <1>5. PICK m \in S : t = MaxClock - m BY <1>4
  <1>6. \A x \in S : m >= x
    <2> SUFFICES ASSUME NEW x \in S PROVE m >= x
        OBVIOUS
    <2>1. t <= MaxClock - x BY <1>4
    <2> QED BY <1>1, <1>2, <1>5, <2>1
  <1> QED BY <1>6 DEF Max

\* Max of two values.
LEMMA MaxTwo ==
  ASSUME NEW a \in Values, NEW b \in Values
  PROVE  /\ Max({a, b}) \in Values /\ Max({a, b}) \in {a, b}
         /\ \A t \in Values : t <= a \/ t <= b => t <= Max({a, b})
  <1>1. {a, b} \subseteq Values /\ {a, b} # {} OBVIOUS
  <1>2. Max({a, b}) \in {a, b} /\ Max({a, b}) \in Values /\ \A x \in {a, b} : x <= Max({a, b})
    BY <1>1, MaxValue
  <1>3. \A x \in Values : x \in Nat BY DEF Values
  <1> QED BY <1>2, <1>3

-----------------------------------------------------------------------------
(* Initial state and frames.                                               *)

\* The individual types, and announcements that belong to writers, are the
\* type invariant.
LEMMA TypedIsTypeOK ==
  ASSUME Typed, Announced
  PROVE  TypeOK
  <1>1. inflight \subseteq {writer[w].val : w \in Writers} BY DEF Announced
  <1> QED BY <1>1 DEF Typed, TypeOK, WriterType, LookupType, ScanType

\* The idle records have the types of the others.
LEMMA IdleTypes ==
  /\ None \in Values /\ 1 \in Values /\ \A x \in Values : x \in Nat
  /\ IdleWriter \in WriterType /\ IdleWriter.pc = "idle"
  /\ IdleLookup \in LookupType /\ IdleLookup.pc = "idle" /\ IdleLookup.gen = 0
  /\ IdleScan \in ScanType /\ IdleScan.pc = "idle"
  <1>1. None \in Values /\ 1 \in Values /\ \A x \in Values : x \in Nat
    BY BoundsAssumption DEF Values, None
  <1>2. IdleWriter \in WriterType /\ IdleWriter.pc = "idle"
    BY <1>1 DEF IdleWriter, WriterType
  <1>3. IdleLookup \in LookupType /\ IdleLookup.pc = "idle" /\ IdleLookup.gen = 0
    BY <1>1 DEF IdleLookup, LookupType
  <1>4. IdleScan \in ScanType /\ IdleScan.pc = "idle"
    BY <1>1 DEF IdleScan, ScanType
  <1> QED BY <1>1, <1>2, <1>3, <1>4

\* A table with one version of every row and nobody at work.
LEMMA ReadInit == Init => ReadInv
  <1> SUFFICES ASSUME Init PROVE ReadInv
      OBVIOUS
  <1> USE DEF Init
  <1>1. Typed BY IdleTypes DEF Typed
  <1>2. /\ \A w \in Writers : writer[w].pc = "idle"
        /\ \A l \in Lookups : lookup[l].pc = "idle" /\ lookup[l].gen = 0
        /\ \A s \in Scanners : scan[s].pc = "idle"
    BY IdleTypes
  <1>3. Slots BY <1>2 DEF Slots
  <1>4. Stored BY <1>2 DEF Stored, Pending
  <1>5. Announced BY DEF Announced
  <1>6. Cached BY <1>2 DEF Cached
  <1>7. Looked BY <1>2 DEF Looked, LookedBy
  <1> QED BY <1>1, <1>3, <1>4, <1>5, <1>6, <1>7 DEF ReadInv

\* The clock advances within its bound.
LEMMA TickValue ==
  ASSUME Typed, Tick
  PROVE  clock' = clock + 1 /\ clock' \in Values /\ clock' > 0
  BY BoundsAssumption DEF Typed, Tick, Values

\* A step that writes nothing keeps what is known of the writers and the rows.
LEMMA WritesKept ==
  ASSUME ReadInv, clock' = clock \/ clock' = clock + 1,
         UNCHANGED <<writer, data, over, buried, replayed, inflight>>
  PROVE  Slots' /\ Stored' /\ Announced'
  <1> USE DEF ReadInv, histories, disorder
  <1>1. \A x \in Values : x <= clock => x <= clock'
    <2>1. clock \in Nat /\ \A x \in Values : x \in Nat BY IdleTypes DEF Typed
    <2> QED BY <2>1
  <1>2. /\ \A w \in Writers : writer[w].val \in Values
        /\ \A r \in Rows : data[r] \in Values /\ \A v \in over[r] : v \in Values
    BY DEF Typed, WriterType
  <1>3. Slots' BY <1>1, <1>2 DEF Slots
  <1>4. Stored'
    <2>1. \A r \in Rows : 0 < data[r] /\ data[r] <= clock' /\ data[r] \notin over[r]
      BY <1>1, <1>2 DEF Stored
    <2>2. \A r \in Rows : \A v \in over[r] : 0 < v /\ v <= clock'
      BY <1>1, <1>2 DEF Stored
    <2> QED BY <2>1, <2>2 DEF Stored, Pending
  <1>5. Announced' BY DEF Announced
  <1> QED BY <1>3, <1>4, <1>5

-----------------------------------------------------------------------------
(* Scans.                                                                  *)

\* A scan changes only its own record and the clock.
LEMMA ScanInv ==
  ASSUME ReadInv, NEW s \in Scanners, ScanStep(s)
  PROVE  ReadInv'
  <1> USE DEF ReadInv, histories, disorder
  <1>1. /\ UNCHANGED <<data, chain, inflight, mark, cache, generation, writer, lookup>>
        /\ UNCHANGED <<over, buried, replayed, refilled, hidden, overtaken, late>>
    BY DEF ScanStep, BeginTxn, PassBarrier, CheckBefore, ScanCurrent, CheckAfter, EndTxn
  <1>2. clock' \in Values /\ (clock' = clock \/ clock' = clock + 1)
    <2>1. clock' = clock \/ Tick
      BY DEF ScanStep, BeginTxn, PassBarrier, CheckBefore, ScanCurrent, CheckAfter, EndTxn
    <2> QED BY <2>1, TickValue DEF Typed
  <1>3. Slots' /\ Stored' /\ Announced' BY <1>1, <1>2, WritesKept
  <1>4. Cached' /\ Looked' BY <1>1 DEF Cached, Looked, LookedBy
  <1>5. scan[s] \in ScanType /\ scan \in [Scanners -> ScanType] /\ scan[s].ts \in Values
        /\ data \in [Rows -> Values]
    BY DEF Typed, ScanType
  <1>6. scan' \in [Scanners -> ScanType]
    <2>1. CASE BeginTxn(s) BY <1>2, <1>5, <2>1 DEF BeginTxn, ScanType
    <2>2. CASE PassBarrier(s) BY <1>5, <2>2 DEF PassBarrier, ScanType
    <2>3. CASE CheckBefore(s) BY <1>5, <2>3, IdleTypes DEF CheckBefore, ScanType
    <2>4. CASE ScanCurrent(s) BY <1>5, <2>4 DEF ScanCurrent, ScanType
    <2>5. CASE CheckAfter(s) BY <1>5, <2>5, IdleTypes DEF CheckAfter, ScanType
    <2>6. CASE EndTxn(s) BY <1>5, <2>6, IdleTypes DEF EndTxn
    <2> QED BY <2>1, <2>2, <2>3, <2>4, <2>5, <2>6 DEF ScanStep
  <1>7. Typed' BY <1>1, <1>2, <1>6 DEF Typed
  <1> QED BY <1>3, <1>4, <1>7
-----------------------------------------------------------------------------
(* Lookups and the cache.                                                  *)

\* The current row, and no row, are none of the overwritten ones.
LEMMA CurrentNotOver ==
  ASSUME ReadInv, NEW r \in Rows
  PROVE  /\ data[r] \notin over[r] /\ data[r] \notin buried[r]
         /\ data[r] \notin replayed[r]
         /\ None \notin over[r] /\ None \notin buried[r] /\ None \notin replayed[r]
  <1>1. /\ data[r] \notin over[r] /\ \A v \in over[r] : 0 < v
        /\ buried[r] \subseteq over[r] /\ replayed[r] \subseteq over[r]
    BY DEF ReadInv, Stored
  <1>2. None \notin over[r] BY <1>1 DEF None
  <1> QED BY <1>1, <1>2

\* A lookup fills the cache with what no replay has overwritten, and marks the
\* entry if it was overwritten since it was read.
LEMMA LookupInv ==
  ASSUME ReadInv, NEW l \in Lookups, LookupStep(l)
  PROVE  ReadInv'
  <1> USE DEF ReadInv, histories, disorder
  <1>1. /\ UNCHANGED <<clock, data, chain, inflight, mark, generation, writer, scan>>
        /\ UNCHANGED <<over, buried, replayed, hidden, overtaken, late>>
    BY DEF LookupStep, LookUp, ReadStorage, FillCache
  <1>2. Slots' /\ Stored' /\ Announced' BY <1>1, WritesKept
  <1>4. lookup[l] \in LookupType /\ lookup \in [Lookups -> LookupType]
    BY DEF Typed
  <1>5. LookedBy(l) BY DEF Looked
  <1>6. ASSUME NEW n \in LookupType, lookup' = [lookup EXCEPT ![l] = n],
               n.gen <= generation,
               n.pc \in {"miss", "read"} => n.row \in Rows /\ n.floor \subseteq over[n.row],
               n.pc = "read" => n.val \notin n.floor,
               n.pc = "read" /\ n.gen = generation => n.val \notin replayed[n.row],
               n.pc = "done" /\ ~n.refill => n.val \notin n.floor,
               cache' \in [Rows -> Values], refilled' \subseteq Rows, Cached'
        PROVE  ReadInv'
    <2>1. lookup' \in [Lookups -> LookupType] BY <1>4, <1>6
    <2>2. Typed' BY <1>1, <1>6, <2>1 DEF Typed
    <2>3. ASSUME NEW z \in Lookups PROVE LookedBy(z)'
      <3>1. CASE z = l
        <4>1. lookup'[z] = n BY <1>4, <1>6, <3>1
        <4> QED BY <1>1, <1>6, <4>1 DEF LookedBy
      <3>2. CASE z # l
        <4>1. lookup'[z] = lookup[z] BY <1>4, <1>6, <3>2
        <4> QED BY <1>1, <4>1 DEF Looked, LookedBy
      <3> QED BY <3>1, <3>2
    <2> QED BY <1>2, <1>6, <2>2, <2>3 DEF Looked
  <1>7. ASSUME UNCHANGED <<cache, refilled>>
        PROVE  cache' \in [Rows -> Values] /\ refilled' \subseteq Rows /\ Cached'
    BY <1>1, <1>7 DEF Typed, Cached
  <1>8. ASSUME NEW r \in Rows, LookUp(l, r) PROVE ReadInv'
    <2> DEFINE n == [pc |-> IF cache[r] # None THEN "done" ELSE "miss", row |-> r,
                     val |-> cache[r], gen |-> generation, floor |-> buried[r],
                     refill |-> r \in refilled]
    <2>1. lookup' = [lookup EXCEPT ![l] = n] /\ UNCHANGED <<cache, refilled>>
      BY <1>8 DEF LookUp
    <2>2. n \in LookupType
      BY DEF Typed, LookupType
    <2>3. /\ n.pc \in {"done", "miss"} /\ n.gen = generation /\ n.row = r
          /\ n.floor = buried[r] /\ n.val = cache[r] /\ n.refill = (r \in refilled)
      OBVIOUS
    <2>4. generation <= generation BY DEF Typed
    <2>5. buried[r] \subseteq over[r] BY DEF Stored
    <2>6. r \notin refilled => cache[r] \notin buried[r] BY DEF Cached
    <2> HIDE DEF n
    <2> QED BY <1>6, <1>7, <2>1, <2>2, <2>3, <2>4, <2>5, <2>6
  <1>9. CASE ReadStorage(l)
    <2> DEFINE n == [lookup[l] EXCEPT !.pc = "read", !.val = data[lookup[l].row]]
    <2>1. /\ lookup' = [lookup EXCEPT ![l] = n] /\ UNCHANGED <<cache, refilled>>
          /\ lookup[l].pc = "miss"
      BY <1>4, <1>9 DEF ReadStorage, LookupType
    <2>2. lookup[l].row \in Rows /\ lookup[l].floor \subseteq over[lookup[l].row]
      BY <1>5, <2>1 DEF LookedBy
    <2>3. data[lookup[l].row] \in Values BY <2>2 DEF Typed
    <2>4. /\ n \in LookupType /\ n.pc = "read" /\ n.gen = lookup[l].gen
          /\ n.row = lookup[l].row /\ n.floor = lookup[l].floor
          /\ n.val = data[lookup[l].row]
      BY <1>4, <2>3 DEF LookupType
    <2>5. /\ data[lookup[l].row] \notin over[lookup[l].row]
          /\ data[lookup[l].row] \notin replayed[lookup[l].row]
      BY <2>2, CurrentNotOver
    <2>6. lookup[l].gen <= generation BY <1>5 DEF LookedBy
    <2> HIDE DEF n
    <2> QED BY <1>6, <1>7, <2>1, <2>2, <2>4, <2>5, <2>6
  <1>10. CASE FillCache(l)
    <2> DEFINE n == [lookup[l] EXCEPT !.pc = "done"]
               r == lookup[l].row
    <2>1. lookup' = [lookup EXCEPT ![l] = n] /\ lookup[l].pc = "read"
      BY <1>10 DEF FillCache
    <2>2. /\ n \in LookupType /\ n.pc = "done" /\ n.gen = lookup[l].gen
          /\ n.floor = lookup[l].floor /\ n.val = lookup[l].val
      BY <1>4 DEF LookupType
    <2>3. /\ r \in Rows /\ lookup[l].val \notin lookup[l].floor
          /\ lookup[l].gen <= generation
          /\ lookup[l].gen = generation => lookup[l].val \notin replayed[r]
      BY <1>5, <2>1 DEF LookedBy
    <2>4. lookup[l].val \in Values BY <1>4 DEF LookupType
    <2>5. cache' \in [Rows -> Values] /\ refilled' \subseteq Rows /\ Cached'
      <3>1. CASE ~Current(l)
        <4>1. UNCHANGED <<cache, refilled>> BY <1>10, <3>1 DEF FillCache
        <4> QED BY <1>7, <4>1
      <3>2. CASE Current(l)
        <4>1. /\ cache' = [cache EXCEPT ![r] = lookup[l].val]
              /\ refilled' = IF lookup[l].val \in over[r]
                             THEN refilled \cup {r} ELSE refilled \ {r}
          BY <1>10, <3>2 DEF FillCache
        <4>2. cache' \in [Rows -> Values] /\ refilled' \subseteq Rows
          BY <2>3, <2>4, <4>1 DEF Typed
        <4>3. lookup[l].val \notin replayed[r] BY <2>3, <3>2 DEF Current
        <4>4. cache'[r] = lookup[l].val /\ \A q \in Rows : q # r => cache'[q] = cache[q]
          BY <2>3, <4>1 DEF Typed
        <4>5. r \notin refilled' =>
                /\ lookup[l].val \notin buried[r]
                /\ \A w \in Writers : writer[w].pc = "fenced" /\ writer[w].row = r =>
                     lookup[l].val \notin writer[w].over
          <5>1. r \notin refilled' => lookup[l].val \notin over[r] BY <4>1
          <5>2. buried[r] \subseteq over[r] BY <2>3 DEF Stored
          <5>3. \A w \in Writers : writer[w].pc = "fenced" /\ writer[w].row = r =>
                  writer[w].over \subseteq over[r]
            BY DEF Slots
          <5> QED BY <5>1, <5>2, <5>3
        <4>6. \A q \in Rows : q # r => (q \in refilled' <=> q \in refilled) BY <4>1
        <4>7. ASSUME NEW q \in Rows
              PROVE  /\ cache'[q] \notin replayed[q]
                     /\ q \notin refilled' =>
                          /\ cache'[q] \notin buried[q]
                          /\ \A w \in Writers : writer[w].pc = "fenced" /\ writer[w].row = q =>
                               cache'[q] \notin writer[w].over
          <5>1. CASE q = r BY <4>3, <4>4, <4>5, <5>1
          <5>2. CASE q # r BY <4>4, <4>6, <5>2 DEF Cached
          <5> QED BY <5>1, <5>2
        <4> QED BY <1>1, <4>2, <4>7 DEF Cached
      <3> QED BY <3>1, <3>2
    <2> HIDE DEF n
    <2> QED BY <1>6, <2>1, <2>2, <2>3, <2>5
  <1> QED BY <1>8, <1>9, <1>10 DEF LookupStep

\* A row leaves the cache.
LEMMA EvictKeeps ==
  ASSUME ReadInv, NEW r \in Rows, Evict(r)
  PROVE  /\ cache' \in [Rows -> Values] /\ refilled' \subseteq Rows
         /\ cache'[r] = None
         /\ \A q \in Rows : q # r =>
              cache'[q] = cache[q] /\ (q \in refilled' <=> q \in refilled)
  BY IdleTypes DEF ReadInv, Typed, Evict

\* A capacity or age eviction.
LEMMA ExpireInv ==
  ASSUME ReadInv, NEW r \in Rows, Expire(r)
  PROVE  ReadInv'
  <1> USE DEF ReadInv, histories, disorder
  <1>1. /\ UNCHANGED <<clock, data, chain, inflight, mark, generation, writer, lookup, scan>>
        /\ UNCHANGED <<over, buried, replayed, hidden, overtaken, late>>
        /\ Evict(r)
    BY DEF Expire
  <1>2. Slots' /\ Stored' /\ Announced' BY <1>1, WritesKept
  <1>4. Looked' BY <1>1 DEF Looked, LookedBy
  <1>5. /\ cache' \in [Rows -> Values] /\ refilled' \subseteq Rows /\ cache'[r] = None
        /\ \A q \in Rows : q # r =>
             cache'[q] = cache[q] /\ (q \in refilled' <=> q \in refilled)
    BY <1>1, EvictKeeps
  <1>6. Typed' BY <1>1, <1>5 DEF Typed
  <1>7. Cached'
    <2>1. /\ None \notin buried[r] /\ None \notin replayed[r] /\ None \notin over[r]
      BY CurrentNotOver
    <2>2. \A w \in Writers : writer[w].pc = "fenced" /\ writer[w].row = r =>
             writer[w].over \subseteq over[r]
      BY DEF Slots
    <2>3. ASSUME NEW q \in Rows
          PROVE  /\ cache'[q] \notin replayed[q]
                 /\ q \notin refilled' =>
                      /\ cache'[q] \notin buried[q]
                      /\ \A w \in Writers : writer[w].pc = "fenced" /\ writer[w].row = q =>
                           cache'[q] \notin writer[w].over
      <3>1. CASE q = r BY <1>5, <2>1, <2>2, <3>1
      <3>2. CASE q # r BY <1>5, <3>2 DEF Cached
      <3> QED BY <3>1, <3>2
    <2> QED BY <1>1, <2>3 DEF Cached
  <1> QED BY <1>2, <1>4, <1>6, <1>7

-----------------------------------------------------------------------------
(* The watermark and the generation.                                       *)

\* The rows that were overwritten stay so; a lookup from before a replay has an
\* older generation.
LEMMA LookedKept ==
  ASSUME ReadInv, lookup' = lookup, \A r \in Rows : over[r] \subseteq over'[r],
         \/ generation' = generation /\ replayed' = replayed
         \/ generation' = generation + 1
  PROVE  Looked'
  <1> USE DEF ReadInv, histories, disorder
  <1>1. ASSUME NEW l \in Lookups PROVE LookedBy(l)'
    <2>1. LookedBy(l) BY DEF Looked
    <2>2. lookup[l].gen \in Nat /\ generation \in Nat BY DEF Typed, LookupType
    <2>3. CASE generation' = generation /\ replayed' = replayed
      BY <2>1, <2>3 DEF LookedBy
    <2>4. CASE generation' = generation + 1
      <3>1. lookup[l].gen <= generation BY <2>1 DEF LookedBy
      <3>2. lookup[l].gen <= generation' /\ lookup[l].gen # generation'
        BY <2>2, <2>4, <3>1
      <3> QED BY <2>1, <3>2 DEF LookedBy
    <2> QED BY <2>3, <2>4
  <1> QED BY <1>1 DEF Looked

\* DDL, or a branch switch.
LEMMA BumpInv ==
  ASSUME ReadInv, BumpGeneration
  PROVE  ReadInv'
  <1> USE DEF ReadInv, histories, disorder
  <1>1. /\ UNCHANGED <<clock, data, chain, inflight, cache, writer, lookup, scan>>
        /\ UNCHANGED <<over, buried, replayed, refilled>>
        /\ generation' = generation + 1 /\ mark' = None
        /\ UNCHANGED <<hidden, overtaken, late>>
    BY DEF BumpGeneration
  <1>2. Slots' /\ Stored' /\ Announced' BY <1>1, WritesKept
  <1>3. mark' \in Values BY <1>1, IdleTypes
  <1>4. scan' = scan /\ lookup' = lookup /\ generation' = generation + 1
        /\ \A r \in Rows : over[r] \subseteq over'[r]
    BY <1>1
  <1>6. Looked' BY <1>4, LookedKept
  <1>7. Cached' BY <1>1 DEF Cached
  <1>8. generation' \in Nat BY <1>1 DEF Typed
  <1>9. Typed' BY <1>1, <1>3, <1>8 DEF Typed
  <1> QED BY <1>2, <1>6, <1>7, <1>9

-----------------------------------------------------------------------------
(* Writers.                                                                *)

\* Session w's record becomes n.
Moves(w, n) == n \in WriterType /\ writer' = [writer EXCEPT ![w] = n]

\* The other writers stay as they are.
LEMMA MovesValue ==
  ASSUME ReadInv, NEW w \in Writers, NEW n, Moves(w, n)
  PROVE  /\ writer' \in [Writers -> WriterType] /\ writer'[w] = n
         /\ \A v \in Writers : v # w => writer'[v] = writer[v]
  BY DEF ReadInv, Typed, Moves

\* A writer that is at work has a row and a number of its own.
LEMMA MoveSlots ==
  ASSUME ReadInv, NEW w \in Writers, NEW n, Moves(w, n),
         \A r \in Rows : over[r] \subseteq over'[r],
         \A x \in Values : x <= clock => x <= clock',
         n.pc # "idle" =>
           /\ n.row \in Rows /\ 0 < n.val /\ n.val <= clock'
           /\ n.over \subseteq over'[n.row]
           /\ \A v \in Writers : v # w /\ writer[v].pc # "idle" => writer[v].val # n.val,
         n.pc \in {"dropped", "put"} => n.kind \in {"fast", "replay"}
  PROVE  Slots'
  <1> USE DEF ReadInv, histories, disorder
  <1>1. /\ writer'[w] = n /\ \A v \in Writers : v # w => writer'[v] = writer[v]
    BY MovesValue
  <1>2. \A v \in Writers : writer[v].val \in Values BY DEF Typed, WriterType
  <1>3. \A v \in Writers : writer'[v].pc # "idle" =>
          /\ writer'[v].row \in Rows
          /\ 0 < writer'[v].val /\ writer'[v].val <= clock'
          /\ writer'[v].over \subseteq over'[writer'[v].row]
    <2> SUFFICES ASSUME NEW v \in Writers, writer'[v].pc # "idle"
                 PROVE  /\ writer'[v].row \in Rows
                        /\ 0 < writer'[v].val /\ writer'[v].val <= clock'
                        /\ writer'[v].over \subseteq over'[writer'[v].row]
        OBVIOUS
    <2>1. CASE v = w BY <1>1, <2>1
    <2>2. CASE v # w
      <3>1. writer'[v] = writer[v] BY <1>1, <2>2
      <3>2. /\ writer[v].row \in Rows
            /\ 0 < writer[v].val /\ writer[v].val <= clock
            /\ writer[v].over \subseteq over[writer[v].row]
        BY <3>1 DEF Slots
      <3>3. over[writer[v].row] \subseteq over'[writer[v].row] BY <3>2
      <3> QED BY <1>2, <3>1, <3>2, <3>3
    <2> QED BY <2>1, <2>2
  <1>4. \A v \in Writers : writer'[v].pc \in {"dropped", "put"} =>
          writer'[v].kind \in {"fast", "replay"}
    BY <1>1 DEF Slots
  <1>5. \A u, v \in Writers : u # v /\ writer'[u].pc # "idle" /\ writer'[v].pc # "idle" =>
          writer'[u].val # writer'[v].val
    BY <1>1 DEF Slots
  <1> QED BY <1>3, <1>4, <1>5 DEF Slots

\* A step that overwrites nothing.
LEMMA MoveStored ==
  ASSUME ReadInv, NEW w \in Writers, NEW n, Moves(w, n),
         UNCHANGED <<data, over>>,
         \A x \in Values : x <= clock => x <= clock',
         \A r \in Rows : buried'[r] \subseteq over[r] /\ replayed'[r] \subseteq over[r],
         n.pc \in {"alloc", "raised", "dropped"} =>
           \A r \in Rows : n.val # data[r] /\ n.val \notin over[r]
  PROVE  Stored'
  <1> USE DEF ReadInv, histories, disorder
  <1>1. /\ writer'[w] = n /\ \A v \in Writers : v # w => writer'[v] = writer[v]
    BY MovesValue
  <1>2. \A r \in Rows : data[r] \in Values /\ \A v \in over[r] : v \in Values
    BY DEF Typed
  <1>3. /\ \A r \in Rows : 0 < data[r] /\ data[r] <= clock' /\ data[r] \notin over[r]
        /\ \A r \in Rows : \A v \in over[r] : 0 < v /\ v <= clock'
    BY <1>2 DEF Stored
  <1>4. \A v \in Writers : writer'[v].pc \in {"alloc", "raised", "dropped"} =>
          \A r \in Rows : writer'[v].val # data[r] /\ writer'[v].val \notin over[r]
    BY <1>1 DEF Stored, Pending
  <1> QED BY <1>3, <1>4 DEF Stored, Pending

\* An announcement belongs to a writer.
LEMMA MoveAnnounced ==
  ASSUME ReadInv, NEW w \in Writers, NEW n, Moves(w, n),
         \A t \in inflight' :
           \/ n.val = t /\ n.pc \in {"alloc", "raised", "applied", "fenced"}
           \/ /\ t \in inflight
              /\ ~ /\ writer[w].val = t
                   /\ writer[w].pc \in {"alloc", "raised", "applied", "fenced"}
  PROVE  Announced'
  <1> USE DEF ReadInv, histories, disorder
  <1>1. /\ writer'[w] = n /\ \A v \in Writers : v # w => writer'[v] = writer[v]
    BY MovesValue
  <1>2. ASSUME NEW t \in inflight'
        PROVE  \E v \in Writers : /\ writer'[v].val = t
                                  /\ writer'[v].pc \in {"alloc", "raised", "applied", "fenced"}
    <2>1. CASE n.val = t /\ n.pc \in {"alloc", "raised", "applied", "fenced"}
      BY <1>1, <2>1
    <2>2. CASE /\ t \in inflight
               /\ ~ /\ writer[w].val = t
                    /\ writer[w].pc \in {"alloc", "raised", "applied", "fenced"}
      <3>1. PICK v \in Writers : /\ writer[v].val = t
                                 /\ writer[v].pc \in {"alloc", "raised", "applied", "fenced"}
        BY <2>2 DEF Announced
      <3>2. v # w BY <2>2, <3>1
      <3> QED BY <1>1, <3>1, <3>2
    <2> QED BY <1>2, <2>1, <2>2
  <1> QED BY <1>2 DEF Announced

\* A step that leaves the cache and its histories alone and fences nothing.
LEMMA MoveCached ==
  ASSUME ReadInv, NEW w \in Writers, NEW n, Moves(w, n), n.pc # "fenced",
         UNCHANGED <<cache, refilled, buried, replayed>>
  PROVE  Cached'
  <1>1. /\ writer'[w] = n /\ \A v \in Writers : v # w => writer'[v] = writer[v]
    BY MovesValue
  <1> QED BY <1>1 DEF ReadInv, Cached

\* A new write gets a number above every other.
LEMMA StartKeeps ==
  ASSUME ReadInv, Tick, NEW w \in Writers, NEW n, Moves(w, n),
         n.val = clock', n.row \in Rows, n.over = {}, n.pc \in {"alloc", "dropped"},
         n.pc = "dropped" => n.kind \in {"fast", "replay"},
         UNCHANGED <<data, over, buried, replayed>>
  PROVE  Slots' /\ Stored'
  <1> USE DEF ReadInv, histories, disorder
  <1>1. clock' = clock + 1 /\ clock' > 0 BY TickValue
  <1>2. \A x \in Values : x <= clock => x <= clock' /\ x # clock'
    <2>1. clock \in Nat /\ \A x \in Values : x \in Nat BY IdleTypes DEF Typed
    <2> QED BY <1>1, <2>1
  <1>3. 0 < clock' /\ clock' <= clock' BY <1>1, IdleTypes DEF Typed
  <1>4. /\ \A v \in Writers : writer[v].val \in Values
        /\ \A r \in Rows : data[r] \in Values /\ \A v \in over[r] : v \in Values
    BY DEF Typed, WriterType
  <1>5. \A v \in Writers : writer[v].pc # "idle" => writer[v].val # n.val
    BY <1>2, <1>4 DEF Slots
  <1>6. \A r \in Rows : n.val # data[r] /\ n.val \notin over[r]
    BY <1>2, <1>4 DEF Stored
  <1>7. \A r \in Rows : over[r] \subseteq over'[r] OBVIOUS
  <1>8. \A r \in Rows : buried'[r] \subseteq over[r] /\ replayed'[r] \subseteq over[r]
    BY DEF Stored
  <1>9. Slots' BY <1>2, <1>3, <1>5, <1>7, MoveSlots
  <1>10. Stored' BY <1>2, <1>6, <1>8, MoveStored
  <1> QED BY <1>9, <1>10

\* A transaction, or an autocommit statement, takes its commit timestamp.
LEMMA AllocInv ==
  ASSUME ReadInv, NEW w \in Writers, NEW r \in Rows, NEW kind \in {"commit", "auto"},
         AllocCommit(w, r, kind)
  PROVE  ReadInv'
  <1> USE DEF ReadInv, histories, disorder
  <1> DEFINE n == [IdleWriter EXCEPT !.pc = "alloc", !.kind = kind, !.row = r,
                                     !.val = clock']
  <1>1. /\ writer[w].pc = "idle" /\ Tick /\ writer' = [writer EXCEPT ![w] = n]
        /\ inflight' = IF kind = "commit" THEN inflight \cup {clock'} ELSE inflight
        /\ UNCHANGED <<data, chain, mark, cache, generation, lookup, scan>>
        /\ UNCHANGED <<over, buried, replayed, refilled, hidden, overtaken, late>>
    BY DEF AllocCommit
  <1>2. clock' \in Values BY <1>1, TickValue
  <1>3. /\ n \in WriterType /\ n.pc = "alloc" /\ n.row = r /\ n.val = clock' /\ n.over = {}
    BY <1>2 DEF WriterType, IdleWriter
  <1>4. Moves(w, n) BY <1>1, <1>3 DEF Moves
  <1> HIDE DEF n
  <1>5. Slots' /\ Stored'
    <2>1. UNCHANGED <<data, over, buried, replayed>> BY <1>1
    <2> QED BY <1>1, <1>3, <1>4, <2>1, StartKeeps
  <1>6. Announced' BY <1>1, <1>3, <1>4, MoveAnnounced
  <1>7. Cached'
    <2>1. UNCHANGED <<cache, refilled, buried, replayed>> BY <1>1
    <2> QED BY <1>3, <1>4, <2>1, MoveCached
  <1>8. Looked'
    <2>1. lookup' = lookup /\ generation' = generation /\ replayed' = replayed BY <1>1
    <2>2. \A q \in Rows : over[q] \subseteq over'[q] BY <1>1
    <2> QED BY <2>1, <2>2, LookedKept
  <1>10. Typed' BY <1>1, <1>2, <1>4, MovesValue DEF Typed
  <1> QED BY <1>5, <1>6, <1>7, <1>8, <1>10

\* A write in place drops the watermark first.
LEMMA DropMarkInv ==
  ASSUME ReadInv, NEW w \in Writers, NEW r \in Rows, NEW kind \in {"fast", "replay"},
         DropMark(w, r, kind)
  PROVE  ReadInv'
  <1> USE DEF ReadInv, histories, disorder
  <1> DEFINE n == [IdleWriter EXCEPT !.pc = "dropped", !.kind = kind, !.row = r,
                                     !.val = clock']
  <1>1. /\ writer[w].pc = "idle" /\ Tick /\ writer' = [writer EXCEPT ![w] = n]
        /\ mark' = None /\ UNCHANGED <<hidden, overtaken, late>>
        /\ UNCHANGED <<data, chain, inflight, cache, generation, lookup, scan>>
        /\ UNCHANGED <<over, buried, replayed, refilled>>
    BY DEF DropMark
  <1>2. clock' \in Values BY <1>1, TickValue
  <1>3. /\ n \in WriterType /\ n.pc = "dropped" /\ n.row = r /\ n.val = clock'
        /\ n.over = {} /\ n.kind = kind
    BY <1>2 DEF WriterType, IdleWriter
  <1>4. Moves(w, n) BY <1>1, <1>3 DEF Moves
  <1>5. mark' \in Values BY <1>1, IdleTypes
  <1> HIDE DEF n
  <1>6. Slots' /\ Stored'
    <2>1. UNCHANGED <<data, over, buried, replayed>> BY <1>1
    <2> QED BY <1>1, <1>3, <1>4, <2>1, StartKeeps
  <1>7. Announced' BY <1>1, <1>3, <1>4, MoveAnnounced
  <1>8. Cached'
    <2>1. UNCHANGED <<cache, refilled, buried, replayed>> BY <1>1
    <2> QED BY <1>3, <1>4, <2>1, MoveCached
  <1>9. Looked'
    <2>1. lookup' = lookup /\ generation' = generation /\ replayed' = replayed BY <1>1
    <2>2. \A q \in Rows : over[q] \subseteq over'[q] BY <1>1
    <2> QED BY <2>1, <2>2, LookedKept
  <1>11. Typed' BY <1>1, <1>2, <1>4, <1>5, MovesValue DEF Typed
  <1> QED BY <1>6, <1>7, <1>8, <1>9, <1>11

\* What a step of a writer that is already at work keeps: its number, and what
\* it has overwritten.
LEMMA GoesOn ==
  ASSUME ReadInv, NEW w \in Writers, NEW n, Moves(w, n), clock' = clock,
         UNCHANGED <<data, over>>,
         \A r \in Rows : buried'[r] \subseteq over[r] /\ replayed'[r] \subseteq over[r],
         writer[w].pc # "idle",
         n.pc # "idle" => /\ n.row = writer[w].row /\ n.val = writer[w].val
                          /\ n.over = writer[w].over,
         n.pc \in {"idle", "raised", "fenced"}, n.pc = "raised" => writer[w].pc = "alloc"
  PROVE  Slots' /\ Stored'
  <1> USE DEF ReadInv, histories, disorder
  <1>1. \A x \in Values : x <= clock => x <= clock' OBVIOUS
  <1>2. \A r \in Rows : over[r] \subseteq over'[r] OBVIOUS
  <1>3. /\ writer[w].row \in Rows /\ 0 < writer[w].val /\ writer[w].val <= clock
        /\ writer[w].over \subseteq over[writer[w].row]
        /\ \A v \in Writers : v # w /\ writer[v].pc # "idle" => writer[v].val # writer[w].val
    BY DEF Slots
  <1>4. n.pc # "idle" =>
           /\ n.row \in Rows /\ 0 < n.val /\ n.val <= clock'
           /\ n.over \subseteq over'[n.row]
           /\ \A v \in Writers : v # w /\ writer[v].pc # "idle" => writer[v].val # n.val
    BY <1>3
  <1>5. n.pc \in {"alloc", "raised", "dropped"} =>
           \A r \in Rows : n.val # data[r] /\ n.val \notin over[r]
    BY DEF Stored, Pending
  <1>6. Slots' BY <1>1, <1>2, <1>4, MoveSlots
  <1>7. Stored' BY <1>1, <1>5, MoveStored
  <1> QED BY <1>6, <1>7

\* A commit notes its timestamp.
LEMMA RaiseMarkInv ==
  ASSUME ReadInv, NEW w \in Writers, RaiseMark(w)
  PROVE  ReadInv'
  <1> USE DEF ReadInv, histories, disorder
  <1> DEFINE n == [writer[w] EXCEPT !.pc = "raised"]
  <1>1. /\ writer[w].pc = "alloc" /\ mark' = Raised(writer[w].val)
        /\ writer' = [writer EXCEPT ![w] = n]
        /\ UNCHANGED <<clock, data, chain, inflight, cache, generation, lookup, scan>>
        /\ UNCHANGED <<over, buried, replayed, refilled, overtaken, late>>
    BY DEF RaiseMark, Typed
  <1>2. writer[w] \in WriterType /\ writer[w].val \in Values BY DEF Typed, WriterType
  <1>3. /\ n \in WriterType /\ n.pc = "raised" /\ n.row = writer[w].row
        /\ n.val = writer[w].val /\ n.over = writer[w].over
    BY <1>2 DEF WriterType
  <1>4. Moves(w, n) BY <1>1, <1>3 DEF Moves
  <1> HIDE DEF n
  <1>5. /\ mark' \in Values /\ \A t \in Values : t <= mark \/ t <= writer[w].val => t <= mark'
    <2>1. mark \in Values BY DEF Typed
    <2> QED BY <1>1, <1>2, <2>1, MaxTwo DEF Raised
  <1>6. Unreported(mark') \subseteq Values /\ hidden' \subseteq Values
    <2>1. clock \in Values BY DEF Typed
    <2>2. Unreported(mark') \subseteq Values BY <2>1, BoundsAssumption DEF Unreported, Values
    <2>3. hidden \subseteq Values
          /\ hidden' = IF mark = None THEN hidden \cup Unreported(mark') ELSE hidden
      BY DEF Typed, RaiseMark
    <2> QED BY <2>2, <2>3
  <1>8. Slots' /\ Stored'
    <2>1. clock' = clock /\ UNCHANGED <<data, over>> BY <1>1
    <2>2. \A r \in Rows : buried'[r] \subseteq over[r] /\ replayed'[r] \subseteq over[r]
      BY <1>1 DEF Stored
    <2> QED BY <1>1, <1>3, <1>4, <2>1, <2>2, GoesOn
  <1>9. Announced' BY <1>1, <1>3, <1>4, MoveAnnounced
  <1>10. Cached'
    <2>1. UNCHANGED <<cache, refilled, buried, replayed>> BY <1>1
    <2> QED BY <1>3, <1>4, <2>1, MoveCached
  <1>11. Looked'
    <2>1. lookup' = lookup /\ generation' = generation /\ replayed' = replayed BY <1>1
    <2>2. \A q \in Rows : over[q] \subseteq over'[q] BY <1>1
    <2> QED BY <2>1, <2>2, LookedKept
  <1>13. Typed' BY <1>1, <1>4, <1>5, <1>6, MovesValue DEF Typed
  <1> QED BY <1>8, <1>9, <1>10, <1>11, <1>13

\* The row under the data key is replaced, and joins the overwritten ones.
LEMMA OverwriteKeeps ==
  ASSUME ReadInv, NEW w \in Writers, Pending(w), NEW pc \in {"applied", "put"},
         pc = "put" => writer[w].kind \in {"fast", "replay"},
         Overwrite(w, pc), clock' = clock, UNCHANGED <<buried, replayed>>
  PROVE  /\ data' \in [Rows -> Values] /\ over' \in [Rows -> SUBSET Values]
         /\ \A r \in Rows : over[r] \subseteq over'[r]
         /\ Slots' /\ Stored'
         /\ \E n : Moves(w, n) /\ n.pc = pc /\ n.val = writer[w].val
  <1> USE DEF ReadInv, histories, disorder
  <1> DEFINE r == writer[w].row
             gone == over[r] \cup {data[r]}
             n == [writer[w] EXCEPT !.pc = pc, !.over = gone]
  <1>1. writer[w].pc \in {"alloc", "raised", "dropped"} BY DEF Pending
  <1>2. writer[w] \in WriterType /\ writer[w].val \in Values BY DEF Typed, WriterType
  <1>3. /\ r \in Rows /\ 0 < writer[w].val /\ writer[w].val <= clock
        /\ \A v \in Writers : v # w /\ writer[v].pc # "idle" => writer[v].val # writer[w].val
    BY <1>1 DEF Slots
  <1>4. /\ \A q \in Rows : data[q] \in Values /\ over[q] \in SUBSET Values
        /\ \A q \in Rows : \A v \in over[q] : v \in Values
    BY DEF Typed
  <1>5. /\ data' = [data EXCEPT ![r] = writer[w].val]
        /\ over' = [over EXCEPT ![r] = gone]
        /\ writer' = [writer EXCEPT ![w] = n]
    BY <1>2 DEF Overwrite, WriterType
  <1>6. gone \in SUBSET Values BY <1>3, <1>4
  <1>7. /\ n \in WriterType /\ n.pc = pc /\ n.row = r /\ n.val = writer[w].val
        /\ n.over = gone /\ n.kind = writer[w].kind
    BY <1>2, <1>6 DEF WriterType
  <1>8. Moves(w, n) BY <1>5, <1>7 DEF Moves
  <1>9. data' \in [Rows -> Values] /\ over' \in [Rows -> SUBSET Values]
    BY <1>2, <1>3, <1>5, <1>6 DEF Typed
  <1>10. /\ data'[r] = writer[w].val /\ over'[r] = over[r] \cup {data[r]}
         /\ \A q \in Rows : q # r => data'[q] = data[q] /\ over'[q] = over[q]
    BY <1>3, <1>5 DEF Typed
  <1>11. \A q \in Rows : over[q] \subseteq over'[q] BY <1>10
  <1>12. Slots'
    <2>1. n.over \subseteq over'[r] BY <1>7, <1>10
    <2>2. \A x \in Values : x <= clock => x <= clock' OBVIOUS
    <2> HIDE DEF n, gone, r
    <2> QED BY <1>3, <1>7, <1>8, <1>11, <2>1, <2>2, MoveSlots
  <1>13. writer'[w] = n /\ \A v \in Writers : v # w => writer'[v] = writer[v]
    BY <1>8, MovesValue
  <1> HIDE DEF n, r
  <1>14. \A q \in Rows : writer[w].val # data[q] /\ writer[w].val \notin over[q]
    BY DEF Stored
  <1>15. ASSUME NEW q \in Rows
         PROVE  /\ 0 < data'[q] /\ data'[q] <= clock' /\ data'[q] \notin over'[q]
                /\ \A v \in over'[q] : 0 < v /\ v <= clock'
                /\ buried'[q] \subseteq over'[q] /\ replayed'[q] \subseteq over'[q]
    <2>1. /\ 0 < data[q] /\ data[q] <= clock /\ data[q] \notin over[q]
          /\ \A v \in over[q] : 0 < v /\ v <= clock
          /\ buried[q] \subseteq over[q] /\ replayed[q] \subseteq over[q]
      BY DEF Stored
    <2>2. CASE q = r BY <1>3, <1>10, <1>14, <2>1, <2>2
    <2>3. CASE q # r BY <1>10, <2>1, <2>3
    <2> QED BY <2>2, <2>3
  <1>16. ASSUME NEW v \in Writers, Pending(v)', NEW q \in Rows
         PROVE  writer'[v].val # data'[q] /\ writer'[v].val \notin over'[q]
    <2>1. v # w BY <1>7, <1>13, <1>16 DEF Pending
    <2>2. writer'[v] = writer[v] /\ Pending(v) BY <1>13, <1>16, <2>1 DEF Pending
    <2>3. writer[v].val # writer[w].val BY <1>3, <2>1, <2>2 DEF Pending
    <2>4. \A p \in Rows : writer[v].val # data[p] /\ writer[v].val \notin over[p]
      BY <2>2 DEF Stored
    <2>5. CASE q = r BY <1>10, <2>2, <2>3, <2>4, <2>5
    <2>6. CASE q # r BY <1>10, <2>2, <2>4, <2>6
    <2> QED BY <2>5, <2>6
  <1>17. Stored' BY <1>15, <1>16 DEF Stored
  <1> QED BY <1>7, <1>8, <1>9, <1>11, <1>12, <1>17

\* The batch of a commit: the row and its indexed version.
LEMMA ApplyBatchInv ==
  ASSUME ReadInv, NEW w \in Writers, ApplyBatch(w)
  PROVE  ReadInv'
  <1> USE DEF ReadInv, histories, disorder
  <1> DEFINE r == writer[w].row
  <1>1. /\ writer[w].pc = "raised" /\ Overwrite(w, "applied")
        /\ chain' = [chain EXCEPT ![r] = @ \cup {writer[w].val}]
        /\ UNCHANGED <<clock, inflight, mark, cache, generation, lookup, scan>>
        /\ UNCHANGED <<buried, replayed, refilled, hidden>>
    BY DEF ApplyBatch
  <1>2. Pending(w) /\ clock' = clock /\ UNCHANGED <<buried, replayed>>
    BY <1>1 DEF Pending
  <1>3. /\ data' \in [Rows -> Values] /\ over' \in [Rows -> SUBSET Values]
        /\ \A q \in Rows : over[q] \subseteq over'[q]
        /\ Slots' /\ Stored'
        /\ \E n : Moves(w, n) /\ n.pc = "applied" /\ n.val = writer[w].val
    BY <1>1, <1>2, OverwriteKeeps
  <1>4. PICK n : Moves(w, n) /\ n.pc = "applied" /\ n.val = writer[w].val BY <1>3
  <1>5. /\ writer'[w] = n /\ \A v \in Writers : v # w => writer'[v] = writer[v]
        /\ writer' \in [Writers -> WriterType]
    BY <1>4, MovesValue
  <1>6. r \in Rows /\ writer[w].val \in Values BY <1>1 DEF Slots, Typed, WriterType
  <1>7. /\ chain' \in [Rows -> SUBSET Values] /\ chain'[r] = chain[r] \cup {writer[w].val}
        /\ \A q \in Rows : q # r => chain'[q] = chain[q]
    BY <1>1, <1>6 DEF Typed
  <1> HIDE DEF r
  <1>12. overtaken' \subseteq Values /\ late' \subseteq Values
    <2>1. \A v \in Writers : writer[v].val \in Values BY DEF Typed, WriterType
    <2>2. Passed(w) \subseteq Values BY <2>1 DEF Passed
    <2>3. /\ overtaken' \subseteq overtaken \cup Passed(w)
          /\ late' \subseteq late \cup {writer[w].val}
      BY DEF ApplyBatch
    <2> QED BY <1>6, <2>2, <2>3 DEF Typed
  <1>8. Typed' BY <1>1, <1>3, <1>5, <1>7, <1>12 DEF Typed
  <1>9. Announced' BY <1>1, <1>4, MoveAnnounced
  <1>10. Cached'
    <2>1. UNCHANGED <<cache, refilled, buried, replayed>> BY <1>1
    <2> QED BY <1>4, <2>1, MoveCached
  <1>11. Looked'
    <2>1. lookup' = lookup /\ generation' = generation /\ replayed' = replayed BY <1>1
    <2> QED BY <1>3, <2>1, LookedKept
  <1> QED BY <1>3, <1>8, <1>9, <1>10, <1>11

\* The put of a write in place.
LEMMA PutInPlaceInv ==
  ASSUME ReadInv, NEW w \in Writers, PutInPlace(w)
  PROVE  ReadInv'
  <1> USE DEF ReadInv, histories, disorder
  <1>1. /\ writer[w].pc = "dropped" /\ Overwrite(w, "put")
        /\ UNCHANGED <<clock, chain, inflight, mark, cache, generation, lookup, scan>>
        /\ UNCHANGED <<buried, replayed, refilled, hidden, overtaken, late>>
    BY DEF PutInPlace
  <1>2. Pending(w) /\ clock' = clock /\ UNCHANGED <<buried, replayed>>
    BY <1>1 DEF Pending
  <1>3. writer[w].kind \in {"fast", "replay"} BY <1>1 DEF Slots
  <1>4. /\ data' \in [Rows -> Values] /\ over' \in [Rows -> SUBSET Values]
        /\ \A q \in Rows : over[q] \subseteq over'[q]
        /\ Slots' /\ Stored'
        /\ \E n : Moves(w, n) /\ n.pc = "put" /\ n.val = writer[w].val
    BY <1>1, <1>2, <1>3, OverwriteKeeps
  <1>5. PICK n : Moves(w, n) /\ n.pc = "put" /\ n.val = writer[w].val BY <1>4
  <1>6. Typed' BY <1>1, <1>4, <1>5, MovesValue DEF Typed
  <1>7. Announced' BY <1>1, <1>5, MoveAnnounced
  <1>8. Cached'
    <2>1. UNCHANGED <<cache, refilled, buried, replayed>> BY <1>1
    <2> QED BY <1>5, <2>1, MoveCached
  <1>9. Looked'
    <2>1. lookup' = lookup /\ generation' = generation /\ replayed' = replayed BY <1>1
    <2> QED BY <1>4, <2>1, LookedKept
  <1> QED BY <1>4, <1>6, <1>7, <1>8, <1>9

\* A write that failed before it overwrote anything.
LEMMA FailsInv ==
  ASSUME ReadInv, NEW w \in Writers, BatchFails(w) \/ PutFails(w)
  PROVE  ReadInv'
  <1> USE DEF ReadInv, histories, disorder
  <1>1. /\ writer[w].pc # "idle" /\ writer' = [writer EXCEPT ![w] = IdleWriter]
        /\ UNCHANGED <<clock, data, chain, mark, cache, generation, lookup, scan>>
        /\ UNCHANGED <<over, buried, replayed, refilled, hidden, overtaken, late>>
    BY DEF BatchFails, PutFails
  <1>2. \/ inflight' = inflight \ {writer[w].val}
        \/ inflight' = inflight /\ writer[w].pc = "dropped"
    BY DEF BatchFails, PutFails, Lift
  <1>3. Moves(w, IdleWriter) /\ IdleWriter.pc = "idle" BY <1>1, IdleTypes DEF Moves
  <1>4. Slots' /\ Stored'
    <2>1. clock' = clock /\ UNCHANGED <<data, over>> BY <1>1
    <2>2. \A r \in Rows : buried'[r] \subseteq over[r] /\ replayed'[r] \subseteq over[r]
      BY <1>1 DEF Stored
    <2> QED BY <1>1, <1>3, <2>1, <2>2, GoesOn
  <1>5. Announced' BY <1>2, <1>3, MoveAnnounced
  <1>6. Cached'
    <2>1. UNCHANGED <<cache, refilled, buried, replayed>> BY <1>1
    <2> QED BY <1>3, <2>1, MoveCached
  <1>7. Looked'
    <2>1. lookup' = lookup /\ generation' = generation /\ replayed' = replayed BY <1>1
    <2>2. \A q \in Rows : over[q] \subseteq over'[q] BY <1>1
    <2> QED BY <2>1, <2>2, LookedKept
  <1>9. Typed' BY <1>1, <1>3, MovesValue DEF Typed
  <1> QED BY <1>4, <1>5, <1>6, <1>7, <1>9

\* The fence: the row leaves the cache after its new value is in place.
LEMMA FenceInv ==
  ASSUME ReadInv, NEW w \in Writers, Fence(w)
  PROVE  ReadInv'
  <1> USE DEF ReadInv, histories, disorder
  <1> DEFINE n == [writer[w] EXCEPT !.pc = "fenced"]
             r == writer[w].row
  <1>1. /\ writer[w].pc = "applied" /\ Evict(r) /\ writer' = [writer EXCEPT ![w] = n]
        /\ UNCHANGED <<clock, data, chain, inflight, mark, generation, lookup, scan>>
        /\ UNCHANGED <<over, buried, replayed, hidden, overtaken, late>>
    BY DEF Fence, Typed
  <1>2. writer[w] \in WriterType BY DEF Typed
  <1>3. /\ n \in WriterType /\ n.pc = "fenced" /\ n.row = writer[w].row
        /\ n.val = writer[w].val /\ n.over = writer[w].over
    BY <1>2 DEF WriterType
  <1>4. Moves(w, n) BY <1>1, <1>3 DEF Moves
  <1>5. r \in Rows /\ writer[w].over \subseteq over[r] BY <1>1 DEF Slots
  <1> HIDE DEF n, r
  <1>6. Slots' /\ Stored'
    <2>1. clock' = clock /\ UNCHANGED <<data, over>> BY <1>1
    <2>2. \A q \in Rows : buried'[q] \subseteq over[q] /\ replayed'[q] \subseteq over[q]
      BY <1>1 DEF Stored
    <2> QED BY <1>1, <1>3, <1>4, <2>1, <2>2, GoesOn
  <1>7. Announced' BY <1>1, <1>3, <1>4, MoveAnnounced
  <1>8. /\ cache' \in [Rows -> Values] /\ refilled' \subseteq Rows /\ cache'[r] = None
        /\ \A q \in Rows : q # r =>
             cache'[q] = cache[q] /\ (q \in refilled' <=> q \in refilled)
    BY <1>1, <1>5, EvictKeeps
  <1>9. writer'[w] = n /\ \A v \in Writers : v # w => writer'[v] = writer[v]
    BY <1>4, MovesValue
  <1>10. Cached'
    <2>1. None \notin buried[r] /\ None \notin replayed[r] /\ None \notin over[r]
      BY <1>5, CurrentNotOver
    <2>2. \A v \in Writers : writer'[v].pc = "fenced" /\ writer'[v].row = r =>
             writer'[v].over \subseteq over[r]
      BY <1>1, <1>6 DEF Slots
    <2>3. ASSUME NEW q \in Rows
          PROVE  /\ cache'[q] \notin replayed[q]
                 /\ q \notin refilled' =>
                      /\ cache'[q] \notin buried[q]
                      /\ \A v \in Writers : writer'[v].pc = "fenced" /\ writer'[v].row = q =>
                           cache'[q] \notin writer'[v].over
      <3>1. CASE q = r BY <1>8, <2>1, <2>2, <3>1
      <3>2. CASE q # r
        <4>1. n.row # q BY <1>3, <3>2 DEF r
        <4> QED BY <1>8, <1>9, <3>2, <4>1 DEF Cached
      <3> QED BY <3>1, <3>2
    <2> QED BY <1>1, <2>3 DEF Cached
  <1>11. Looked'
    <2>1. lookup' = lookup /\ generation' = generation /\ replayed' = replayed BY <1>1
    <2>2. \A q \in Rows : over[q] \subseteq over'[q] BY <1>1
    <2> QED BY <2>1, <2>2, LookedKept
  <1>13. Typed' BY <1>1, <1>4, <1>8, MovesValue DEF Typed
  <1> QED BY <1>6, <1>7, <1>10, <1>11, <1>13

\* What a returning write buries was overwritten.
LEMMA ReturnKeeps ==
  ASSUME ReadInv, NEW w \in Writers, writer[w].pc # "idle", Return(w)
  PROVE  /\ Moves(w, IdleWriter) /\ IdleWriter.pc = "idle" /\ writer[w].row \in Rows
         /\ writer[w].over \subseteq over[writer[w].row]
         /\ buried' \in [Rows -> SUBSET Values]
         /\ buried'[writer[w].row] = buried[writer[w].row] \cup writer[w].over
         /\ \A q \in Rows : q # writer[w].row => buried'[q] = buried[q]
         /\ \A q \in Rows : buried'[q] \subseteq over[q]
  <1> USE DEF ReadInv, histories, disorder
  <1>1. writer[w].row \in Rows /\ writer[w].over \subseteq over[writer[w].row]
    BY DEF Slots
  <1>2. writer[w].over \in SUBSET Values BY DEF Typed, WriterType
  <1>3. Moves(w, IdleWriter) /\ IdleWriter.pc = "idle" BY IdleTypes DEF Moves, Return
  <1>4. buried' = [buried EXCEPT ![writer[w].row] = @ \cup writer[w].over] BY DEF Return
  <1>5. /\ buried' \in [Rows -> SUBSET Values]
        /\ buried'[writer[w].row] = buried[writer[w].row] \cup writer[w].over
        /\ \A q \in Rows : q # writer[w].row => buried'[q] = buried[q]
    BY <1>1, <1>2, <1>4 DEF Typed
  <1>6. \A q \in Rows : buried[q] \subseteq over[q] BY DEF Stored
  <1> QED BY <1>1, <1>3, <1>5, <1>6

\* The commit returns; its fence holds.
LEMMA EndCommitInv ==
  ASSUME ReadInv, NEW w \in Writers, EndCommit(w)
  PROVE  ReadInv'
  <1> USE DEF ReadInv, histories, disorder
  <1> DEFINE r == writer[w].row
  <1>1. /\ writer[w].pc = "fenced" /\ inflight' = inflight \ {writer[w].val} /\ Return(w)
        /\ UNCHANGED <<clock, data, chain, mark, cache, generation, lookup, scan>>
        /\ UNCHANGED <<over, replayed, refilled, hidden, overtaken, late>>
    BY DEF EndCommit, Lift
  <1>2. /\ Moves(w, IdleWriter) /\ IdleWriter.pc = "idle" /\ r \in Rows
        /\ buried' \in [Rows -> SUBSET Values]
        /\ buried'[r] = buried[r] \cup writer[w].over
        /\ \A q \in Rows : q # r => buried'[q] = buried[q]
        /\ \A q \in Rows : buried'[q] \subseteq over[q]
    BY <1>1, ReturnKeeps
  <1> HIDE DEF r
  <1>3. Slots' /\ Stored'
    <2>1. clock' = clock /\ UNCHANGED <<data, over>> BY <1>1
    <2>2. \A q \in Rows : buried'[q] \subseteq over[q] /\ replayed'[q] \subseteq over[q]
      BY <1>1, <1>2 DEF Stored
    <2> QED BY <1>1, <1>2, <2>1, <2>2, GoesOn
  <1>4. Announced' BY <1>1, <1>2, MoveAnnounced
  <1>5. writer'[w] = IdleWriter /\ \A v \in Writers : v # w => writer'[v] = writer[v]
    BY <1>2, MovesValue
  <1>6. Cached'
    <2>1. r \notin refilled => cache[r] \notin buried[r] /\ cache[r] \notin writer[w].over
      BY <1>1, <1>2 DEF Cached, r
    <2>2. ASSUME NEW q \in Rows
          PROVE  /\ cache[q] \notin replayed[q]
                 /\ q \notin refilled =>
                      /\ cache[q] \notin buried'[q]
                      /\ \A v \in Writers : writer'[v].pc = "fenced" /\ writer'[v].row = q =>
                           cache[q] \notin writer'[v].over
      <3>1. \A v \in Writers : writer'[v].pc = "fenced" => v # w /\ writer'[v] = writer[v]
        BY <1>2, <1>5
      <3>2. q \notin refilled => cache[q] \notin buried'[q]
        <4>1. CASE q = r BY <1>2, <2>1, <4>1
        <4>2. CASE q # r BY <1>2, <4>2 DEF Cached
        <4> QED BY <4>1, <4>2
      <3> QED BY <3>1, <3>2 DEF Cached
    <2> QED BY <1>1, <2>2 DEF Cached
  <1>7. Looked'
    <2>1. lookup' = lookup /\ generation' = generation /\ replayed' = replayed BY <1>1
    <2>2. \A q \in Rows : over[q] \subseteq over'[q] BY <1>1
    <2> QED BY <2>1, <2>2, LookedKept
  <1>9. Typed' BY <1>1, <1>2, MovesValue DEF Typed
  <1> QED BY <1>3, <1>4, <1>6, <1>7, <1>9

\* The end of a write in place: eviction, and for a replay a new generation.
LEMMA InvalidateInv ==
  ASSUME ReadInv, NEW w \in Writers, InvalidateRow(w)
  PROVE  ReadInv'
  <1> USE DEF ReadInv, histories, disorder
  <1> DEFINE r == writer[w].row
             replay == writer[w].kind = "replay"
  <1>1. /\ writer[w].pc \in {"put", "dropped"} /\ Evict(r) /\ Return(w)
        /\ generation' = IF replay THEN generation + 1 ELSE generation
        /\ replayed' = IF replay THEN [replayed EXCEPT ![r] = @ \cup writer[w].over]
                       ELSE replayed
        /\ UNCHANGED <<clock, data, chain, inflight, mark, lookup, scan>>
        /\ UNCHANGED <<over, hidden, overtaken, late>>
    BY DEF InvalidateRow
  <1>2. /\ Moves(w, IdleWriter) /\ IdleWriter.pc = "idle" /\ r \in Rows
        /\ writer[w].over \subseteq over[r]
        /\ buried' \in [Rows -> SUBSET Values]
        /\ buried'[r] = buried[r] \cup writer[w].over
        /\ \A q \in Rows : q # r => buried'[q] = buried[q]
        /\ \A q \in Rows : buried'[q] \subseteq over[q]
    BY <1>1, ReturnKeeps
  <1>3. /\ replayed' \in [Rows -> SUBSET Values]
        /\ replayed'[r] \subseteq replayed[r] \cup writer[w].over
        /\ \A q \in Rows : q # r => replayed'[q] = replayed[q]
    <2>1. writer[w].over \in SUBSET Values BY DEF Typed, WriterType
    <2> QED BY <1>1, <1>2, <2>1 DEF Typed
  <1>4. /\ cache' \in [Rows -> Values] /\ refilled' \subseteq Rows /\ cache'[r] = None
        /\ \A q \in Rows : q # r =>
             cache'[q] = cache[q] /\ (q \in refilled' <=> q \in refilled)
    BY <1>1, <1>2, EvictKeeps
  <1>5. \/ generation' = generation /\ replayed' = replayed
        \/ generation' = generation + 1
    BY <1>1
  <1>6. generation' \in Nat BY <1>5 DEF Typed
  <1> HIDE DEF r
  <1>7. Slots' /\ Stored'
    <2>1. clock' = clock /\ UNCHANGED <<data, over>> BY <1>1
    <2>2. \A q \in Rows : replayed[q] \subseteq over[q] BY DEF Stored
    <2>3. \A q \in Rows : buried'[q] \subseteq over[q] /\ replayed'[q] \subseteq over[q]
      BY <1>2, <1>3, <2>2
    <2> QED BY <1>1, <1>2, <2>1, <2>3, GoesOn
  <1>8. Announced' BY <1>1, <1>2, MoveAnnounced
  <1>9. writer'[w] = IdleWriter /\ \A v \in Writers : v # w => writer'[v] = writer[v]
    BY <1>2, MovesValue
  <1>10. Cached'
    <2>1. None \notin over[r] /\ replayed[r] \subseteq over[r]
      BY <1>2, CurrentNotOver DEF Stored
    <2>2. None \notin buried'[r] /\ None \notin replayed'[r] BY <1>2, <1>3, <2>1
    <2>3. \A v \in Writers : writer'[v].pc = "fenced" => v # w /\ writer'[v] = writer[v]
      BY <1>2, <1>9
    <2>4. \A v \in Writers : writer'[v].pc = "fenced" /\ writer'[v].row = r =>
             writer'[v].over \subseteq over[r]
      BY <2>3 DEF Slots
    <2>5. ASSUME NEW q \in Rows
          PROVE  /\ cache'[q] \notin replayed'[q]
                 /\ q \notin refilled' =>
                      /\ cache'[q] \notin buried'[q]
                      /\ \A v \in Writers : writer'[v].pc = "fenced" /\ writer'[v].row = q =>
                           cache'[q] \notin writer'[v].over
      <3>1. CASE q = r BY <1>4, <2>1, <2>2, <2>4, <3>1
      <3>2. CASE q # r BY <1>2, <1>3, <1>4, <2>3, <3>2 DEF Cached
      <3> QED BY <3>1, <3>2
    <2> QED BY <2>5 DEF Cached
  <1>11. Looked'
    <2>1. lookup' = lookup /\ \A q \in Rows : over[q] \subseteq over'[q] BY <1>1
    <2> QED BY <1>5, <2>1, LookedKept
  <1>13. Typed' BY <1>1, <1>2, <1>3, <1>4, <1>6, MovesValue DEF Typed
  <1> QED BY <1>7, <1>8, <1>10, <1>11, <1>13

-----------------------------------------------------------------------------
(* What the watermark and the order of the commits say of the scans.       *)

\* The values a row has had.
Written(r) == over[r] \cup {data[r]}

\* A transaction's commit that is announced and not applied.
Committing(w) == writer[w].kind = "commit" /\ writer[w].pc \in {"alloc", "raised"}

Locked ==
    /\ \A w \in Writers : writer[w].pc \in {"alloc", "raised"} =>
         writer[w].kind \in {"commit", "auto"}
    /\ \A w, v \in Writers : w # v /\ Committing(w) /\ Committing(v) =>
         writer[w].row # writer[v].row
    /\ \A w \in Writers : Committing(w) => writer[w].val \in inflight

Ordered ==
    /\ \A r \in Rows : data[r] \in chain[r] =>
         data[r] \in overtaken \/ \A u \in chain[r] : u <= data[r]
    /\ \A w \in Writers : Committing(w) =>
         writer[w].val \in overtaken \/ \A u \in chain[writer[w].row] : u <= writer[w].val

Reported ==
    /\ \A r \in Rows : chain[r] \subseteq Written(r)
    /\ \A r \in Rows : \A v \in Written(r) :
         v \in hidden \/ mark = None \/ (v \in chain[r] /\ v <= mark)
    /\ \A w \in Writers : writer[w].pc = "raised" =>
         writer[w].val \in hidden \/ mark = None \/ writer[w].val <= mark
    /\ \A w \in Writers : writer[w].pc = "dropped" =>
         writer[w].val \in hidden \/ mark = None

Image(s, r) == Newest(chain[r], scan[s].ts)

\* What the scan has of the row is the image, or excused by the order of the
\* commits.
Matches(s, r) ==
    \/ scan[s].seen[r] = Image(s, r)
    \/ scan[s].seen[r] \in overtaken
    \/ Image(s, r) \in late

ScannedBy(s) ==
    /\ scan[s].ts <= clock
    /\ scan[s].pc \notin {"idle", "barrier"} =>
         \A w \in Writers : Committing(w) => scan[s].ts < writer[w].val
    /\ scan[s].pc \in {"scanned", "accepted"} =>
         \A r \in Rows : scan[s].seen[r] \in Written(r)
    /\ scan[s].pc = "scanned" => \A r \in Rows :
         Matches(s, r) \/ scan[s].seen[r] \notin chain[r] \/ scan[s].ts < scan[s].seen[r]
    /\ scan[s].pc = "accepted" => \A r \in Rows :
         Matches(s, r) \/ scan[s].seen[r] \in hidden
Scanned == \A s \in Scanners : ScannedBy(s)

ScanSide == Locked /\ Ordered /\ Reported /\ Scanned

\* The version that a snapshot at t resolves.
LEMMA NewestValue ==
  ASSUME NEW S \in SUBSET Values, NEW t \in Values
  PROVE  /\ Newest(S, t) \in {v \in S : v <= t} \cup {None}
         /\ \A x \in S : x <= t => x <= Newest(S, t)
         /\ Newest(S, t) \in Values
  <1>1. None \in Values BY IdleTypes
  <1> DEFINE T == {v \in S : v <= t} \cup {None}
  <1>2. T \subseteq Values /\ T # {} BY <1>1
  <1>3. Max(T) \in T /\ Max(T) \in Values /\ \A x \in T : x <= Max(T) BY <1>2, MaxValue
  <1>4. Newest(S, t) = Max(T) BY DEF Newest
  <1> HIDE DEF T
  <1>5. \A x \in S : x <= t => x \in T BY DEF T
  <1> QED BY <1>3, <1>4, <1>5 DEF T

\* A chain whose newest version is at or before t resolves to it.
LEMMA NewestIsLast ==
  ASSUME NEW S \in SUBSET Values, NEW t \in Values, NEW m \in S, m <= t,
         \A u \in S : u <= m
  PROVE  Newest(S, t) = m
  <1>1. /\ Newest(S, t) \in {v \in S : v <= t} \cup {None}
        /\ \A x \in S : x <= t => x <= Newest(S, t)
        /\ Newest(S, t) \in Values
    BY NewestValue
  <1>2. m <= Newest(S, t) BY <1>1
  <1>3. m \in Nat /\ Newest(S, t) \in Nat /\ None = 0 BY <1>1, IdleTypes DEF None
  <1>4. Newest(S, t) <= m
    <2>1. CASE Newest(S, t) \in S BY <2>1
    <2>2. CASE Newest(S, t) = None BY <1>3, <2>2
    <2> QED BY <1>1, <2>1, <2>2
  <1> QED BY <1>2, <1>3, <1>4

\* A new version is what the snapshot resolves, or changes nothing for it.
LEMMA NewestGrows ==
  ASSUME NEW S \in SUBSET Values, NEW t \in Values, NEW u \in Values
  PROVE  \/ Newest(S \cup {u}, t) = Newest(S, t)
         \/ Newest(S \cup {u}, t) = u /\ u <= t
  <1>1. /\ Newest(S, t) \in {v \in S : v <= t} \cup {None}
        /\ \A x \in S : x <= t => x <= Newest(S, t)
        /\ Newest(S, t) \in Values
    BY NewestValue
  <1> DEFINE U == S \cup {u}
  <1>2. U \in SUBSET Values OBVIOUS
  <1>3. /\ Newest(U, t) \in {v \in U : v <= t} \cup {None}
        /\ \A x \in U : x <= t => x <= Newest(U, t)
        /\ Newest(U, t) \in Values
    BY <1>2, NewestValue
  <1>4. Newest(S, t) \in Nat /\ Newest(U, t) \in Nat /\ None = 0
    BY <1>1, <1>3, IdleTypes DEF None
  <1>5. CASE Newest(U, t) = u /\ u <= t BY <1>5
  <1>6. CASE ~(Newest(U, t) = u /\ u <= t)
    <2>1. Newest(U, t) \in {v \in S : v <= t} \cup {None} BY <1>3, <1>6
    <2>2. Newest(U, t) <= Newest(S, t) BY <1>1, <1>4, <2>1
    <2>3. Newest(S, t) <= Newest(U, t) BY <1>1, <1>3, <1>4
    <2> QED BY <1>4, <2>2, <2>3
  <1> QED BY <1>5, <1>6

\* A step that leaves the chains and the scans alone: a commit it announces is
\* above every snapshot.
LEMMA ScansStand ==
  ASSUME ReadInv, ScanSide, UNCHANGED <<scan, chain, overtaken, late>>,
         hidden \subseteq hidden', clock' = clock \/ clock' = clock + 1,
         \A r \in Rows : over[r] \cup {data[r]} \subseteq over'[r] \cup {data'[r]},
         \A w \in Writers : Committing(w)' =>
           \/ Committing(w) /\ writer'[w].val = writer[w].val
           \/ writer'[w].val = clock + 1
  PROVE  Scanned'
  <1> USE DEF ScanSide
  <1>1. ASSUME NEW s \in Scanners PROVE ScannedBy(s)'
    <2>1. ScannedBy(s) BY DEF Scanned
    <2>2. scan[s].ts \in Nat /\ clock \in Nat
      BY IdleTypes DEF ReadInv, Typed, ScanType
    <2>3. scan[s].ts <= clock /\ scan'[s] = scan[s] BY <2>1 DEF ScannedBy
    <2>4. scan'[s].ts <= clock' BY <2>2, <2>3
    <2>5. scan'[s].pc \notin {"idle", "barrier"} =>
            \A w \in Writers : Committing(w)' => scan'[s].ts < writer'[w].val
      <3> SUFFICES ASSUME scan[s].pc \notin {"idle", "barrier"},
                          NEW w \in Writers, Committing(w)'
                   PROVE  scan[s].ts < writer'[w].val
          BY <2>3
      <3>1. CASE Committing(w) /\ writer'[w].val = writer[w].val
        BY <2>1, <3>1 DEF ScannedBy
      <3>2. CASE writer'[w].val = clock + 1 BY <2>2, <2>3, <3>2
      <3> QED BY <3>1, <3>2
    <2>6. \A r \in Rows : Matches(s, r) => Matches(s, r)' BY DEF Matches, Image
    <2>7. \A r \in Rows : Written(r) \subseteq Written(r)' BY DEF Written
    <2>8. scan'[s].pc \in {"scanned", "accepted"} =>
            \A r \in Rows : scan'[s].seen[r] \in Written(r)'
      BY <2>1, <2>3, <2>7 DEF ScannedBy
    <2>9. scan'[s].pc = "scanned" => \A r \in Rows :
            \/ Matches(s, r)' \/ scan'[s].seen[r] \notin chain'[r]
            \/ scan'[s].ts < scan'[s].seen[r]
      BY <2>1, <2>3, <2>6 DEF ScannedBy
    <2>10. scan'[s].pc = "accepted" => \A r \in Rows :
             Matches(s, r)' \/ scan'[s].seen[r] \in hidden'
      BY <2>1, <2>3, <2>6 DEF ScannedBy
    <2> QED BY <2>4, <2>5, <2>8, <2>9, <2>10 DEF ScannedBy
  <1> QED BY <1>1 DEF Scanned

\* Steps that write nothing and move no writer.
LEMMA SideStands ==
  ASSUME ReadInv, ScanSide,
         UNCHANGED <<clock, data, chain, inflight, writer, scan, over, hidden, overtaken, late>>,
         mark' = mark \/ mark' = None
  PROVE  ScanSide'
  <1> USE DEF ScanSide
  <1>1. Locked' BY DEF Locked, Committing
  <1>2. Ordered' BY DEF Ordered, Committing
  <1>3. Reported'
    <2>1. CASE mark' = mark BY <2>1 DEF Reported, Written
    <2>2. CASE mark' = None BY <2>2 DEF Reported, Written
    <2> QED BY <2>1, <2>2
  <1>4. Scanned'
    <2>1. \A w \in Writers : Committing(w)' => Committing(w) /\ writer'[w].val = writer[w].val
      BY DEF Committing
    <2> QED BY <2>1, ScansStand
  <1> QED BY <1>1, <1>2, <1>3, <1>4

\* The record of a commit that is announced and not applied.
CommittingAs(n) == n.kind = "commit" /\ n.pc \in {"alloc", "raised"}

\* A writer moves on without applying anything.
LEMMA SideMoves ==
  ASSUME ReadInv, ScanSide, NEW w \in Writers, NEW n, Moves(w, n),
         UNCHANGED <<data, chain, scan, over, overtaken, late>>,
         clock' = clock \/ clock' = clock + 1,
         n.pc \in {"alloc", "raised"} => n.kind \in {"commit", "auto"},
         CommittingAs(n) =>
           /\ n.val \in inflight'
           /\ \/ Committing(w) /\ n.val = writer[w].val /\ n.row = writer[w].row
              \/ /\ n.val = clock + 1 /\ n.row \in Rows
                 /\ \A v \in Writers : ~(writer[v].row = n.row /\ writer[v].kind = "commit"),
         \A v \in Writers : v # w /\ Committing(v) => writer[v].val \in inflight'
  PROVE  Locked' /\ Ordered' /\ (hidden \subseteq hidden' => Scanned')
  <1> USE DEF ScanSide
  <1>1. writer'[w] = n /\ \A v \in Writers : v # w => writer'[v] = writer[v]
    BY MovesValue
  <1>2. /\ Committing(w)' <=> CommittingAs(n)
        /\ \A v \in Writers : v # w => (Committing(v)' <=> Committing(v))
    BY <1>1 DEF Committing, CommittingAs
  <1>3. Locked'
    <2>1. \A v \in Writers : writer'[v].pc \in {"alloc", "raised"} =>
            writer'[v].kind \in {"commit", "auto"}
      BY <1>1 DEF Locked
    <2>2. \A v \in Writers : Committing(v)' => writer'[v].val \in inflight'
      BY <1>1, <1>2
    <2>3. ASSUME NEW v \in Writers, v # w, Committing(w)', Committing(v)'
          PROVE  writer'[w].row # writer'[v].row
      <3>1. Committing(v) /\ writer'[v] = writer[v] /\ CommittingAs(n) BY <1>1, <1>2, <2>3
      <3>2. CASE Committing(w) /\ n.val = writer[w].val /\ n.row = writer[w].row
        BY <1>1, <2>3, <3>1, <3>2 DEF Locked
      <3>3. CASE \A x \in Writers : ~(writer[x].row = n.row /\ writer[x].kind = "commit")
        BY <1>1, <3>1, <3>3 DEF Committing
      <3> QED BY <3>1, <3>2, <3>3
    <2>4. \A u, v \in Writers : u # v /\ Committing(u)' /\ Committing(v)' =>
            writer'[u].row # writer'[v].row
      <3> SUFFICES ASSUME NEW u \in Writers, NEW v \in Writers, u # v,
                          Committing(u)', Committing(v)'
                   PROVE  writer'[u].row # writer'[v].row
          OBVIOUS
      <3>1. CASE u = w BY <2>3, <3>1
      <3>2. CASE v = w BY <2>3, <3>2
      <3>3. CASE u # w /\ v # w BY <1>1, <1>2, <3>3 DEF Locked
      <3> QED BY <3>1, <3>2, <3>3
    <2> QED BY <2>1, <2>2, <2>4 DEF Locked
  <1>4. Ordered'
    <2>1. ASSUME NEW v \in Writers, Committing(v)'
          PROVE  \/ writer'[v].val \in overtaken
                 \/ \A u \in chain[writer'[v].row] : u <= writer'[v].val
      <3>1. CASE v # w BY <1>1, <1>2, <2>1, <3>1 DEF Ordered
      <3>2. CASE v = w
        <4>1. CommittingAs(n) BY <1>2, <2>1, <3>2
        <4>2. CASE Committing(w) /\ n.val = writer[w].val /\ n.row = writer[w].row
          BY <1>1, <3>2, <4>2 DEF Ordered
        <4>3. CASE n.val = clock + 1 /\ n.row \in Rows
          <5>1. chain[n.row] \subseteq over[n.row] \cup {data[n.row]}
            BY <4>3 DEF Reported, Written
          <5>2. \A u \in chain[n.row] : u <= clock
            BY <4>3, <5>1 DEF ReadInv, Stored
          <5>3. clock \in Nat /\ \A u \in chain[n.row] : u \in Nat
            BY <4>3, IdleTypes DEF ReadInv, Typed
          <5>4. \A u \in chain[n.row] : u <= clock + 1 BY <5>2, <5>3
          <5> QED BY <1>1, <3>2, <4>3, <5>4
        <4> QED BY <4>1, <4>2, <4>3
      <3> QED BY <3>1, <3>2
    <2> QED BY <2>1 DEF Ordered
  <1>5. ASSUME hidden \subseteq hidden' PROVE Scanned'
    <2>1. \A v \in Writers : Committing(v)' =>
            \/ Committing(v) /\ writer'[v].val = writer[v].val
            \/ writer'[v].val = clock + 1
      BY <1>1, <1>2
    <2>2. UNCHANGED <<scan, chain, overtaken, late>>
          /\ \A r \in Rows : over[r] \cup {data[r]} \subseteq over'[r] \cup {data'[r]}
      OBVIOUS
    <2> QED BY <1>5, <2>1, <2>2, ScansStand
  <1> QED BY <1>3, <1>4, <1>5

\* Neither the watermark nor the rows change, or the watermark is dropped.
LEMMA MoveReported ==
  ASSUME ReadInv, ScanSide, NEW w \in Writers, NEW n, Moves(w, n),
         UNCHANGED <<data, chain, over, hidden>>,
         (mark' = mark /\ n.pc \notin {"raised", "dropped"}) \/ mark' = None
  PROVE  Reported'
  <1> USE DEF ScanSide
  <1>1. writer'[w] = n /\ \A v \in Writers : v # w => writer'[v] = writer[v]
    BY MovesValue
  <1>2. CASE mark' = None BY <1>2 DEF Reported, Written
  <1>3. CASE mark' = mark /\ n.pc \notin {"raised", "dropped"}
    BY <1>1, <1>3 DEF Reported, Written
  <1> QED BY <1>2, <1>3

\* A new commit is above every version and every snapshot; its row is locked.
LEMMA AllocSide ==
  ASSUME ReadInv, ScanSide, NEW w \in Writers, NEW r \in Rows,
         NEW kind \in {"commit", "auto"}, AllocCommit(w, r, kind)
  PROVE  ScanSide'
  <1> USE DEF ScanSide
  <1> DEFINE n == [IdleWriter EXCEPT !.pc = "alloc", !.kind = kind, !.row = r,
                                     !.val = clock']
  <1>1. /\ writer[w].pc = "idle" /\ Serial(r, kind) /\ Tick
        /\ writer' = [writer EXCEPT ![w] = n]
        /\ inflight' = IF kind = "commit" THEN inflight \cup {clock'} ELSE inflight
        /\ UNCHANGED <<data, chain, mark, scan, over, hidden, overtaken, late>>
    BY DEF AllocCommit, histories, disorder
  <1>2. clock' = clock + 1 /\ clock' \in Values BY <1>1, TickValue DEF ReadInv
  <1>3. /\ n \in WriterType /\ n.pc = "alloc" /\ n.row = r /\ n.val = clock'
        /\ n.kind = kind
    BY <1>2 DEF WriterType, IdleWriter
  <1>4. Moves(w, n) BY <1>1, <1>3 DEF Moves
  <1> HIDE DEF n
  <1>5. CommittingAs(n) => \A v \in Writers : ~(writer[v].row = n.row /\ writer[v].kind = "commit")
    BY <1>1, <1>3 DEF Serial, CommittingAs
  <1>6. CommittingAs(n) => n.val \in inflight' BY <1>1, <1>3 DEF CommittingAs
  <1>7. \A v \in Writers : Committing(v) => writer[v].val \in inflight'
    BY <1>1 DEF Locked
  <1>8. Locked' /\ Ordered' /\ Scanned'
    BY <1>1, <1>2, <1>3, <1>4, <1>5, <1>6, <1>7, SideMoves
  <1>9. Reported' BY <1>1, <1>3, <1>4, MoveReported
  <1> QED BY <1>8, <1>9

\* A write in place drops the watermark.
LEMMA DropMarkSide ==
  ASSUME ReadInv, ScanSide, NEW w \in Writers, NEW r \in Rows,
         NEW kind \in {"fast", "replay"}, DropMark(w, r, kind)
  PROVE  ScanSide'
  <1> USE DEF ScanSide
  <1> DEFINE n == [IdleWriter EXCEPT !.pc = "dropped", !.kind = kind, !.row = r,
                                     !.val = clock']
  <1>1. /\ Tick /\ writer' = [writer EXCEPT ![w] = n] /\ mark' = None
        /\ UNCHANGED <<data, chain, inflight, scan, over, hidden, overtaken, late>>
    BY DEF DropMark, histories, disorder
  <1>2. clock' = clock + 1 /\ clock' \in Values BY <1>1, TickValue DEF ReadInv
  <1>3. n \in WriterType /\ n.pc = "dropped" BY <1>2 DEF WriterType, IdleWriter
  <1>4. Moves(w, n) BY <1>1, <1>3 DEF Moves
  <1> HIDE DEF n
  <1>5. ~CommittingAs(n) BY <1>3 DEF CommittingAs
  <1>6. \A v \in Writers : Committing(v) => writer[v].val \in inflight'
    BY <1>1 DEF Locked
  <1>7. Locked' /\ Ordered' /\ Scanned'
    BY <1>1, <1>2, <1>3, <1>4, <1>5, <1>6, SideMoves
  <1>8. Reported' BY <1>1, <1>4, MoveReported
  <1> QED BY <1>7, <1>8

\* A watermark that comes back after a drop leaves the writes it does not
\* report to `hidden`; one that was never dropped only rises.
LEMMA RaiseMarkSide ==
  ASSUME ReadInv, ScanSide, NEW w \in Writers, RaiseMark(w)
  PROVE  ScanSide'
  <1> USE DEF ScanSide
  <1> DEFINE n == [writer[w] EXCEPT !.pc = "raised"]
  <1>1. /\ writer[w].pc = "alloc" /\ mark' = Raised(writer[w].val)
        /\ writer' = [writer EXCEPT ![w] = n]
        /\ hidden' = IF mark = None THEN hidden \cup Unreported(mark') ELSE hidden
        /\ UNCHANGED <<clock, data, chain, inflight, scan, over, overtaken, late>>
    BY DEF RaiseMark, ReadInv, Typed
  <1>2. writer[w] \in WriterType /\ writer[w].val \in Values
    BY DEF ReadInv, Typed, WriterType
  <1>3. /\ n \in WriterType /\ n.pc = "raised" /\ n.row = writer[w].row
        /\ n.val = writer[w].val /\ n.kind = writer[w].kind
    BY <1>2 DEF WriterType
  <1>4. Moves(w, n) BY <1>1, <1>3 DEF Moves
  <1> HIDE DEF n
  <1>5. CommittingAs(n) => Committing(w) BY <1>1, <1>3 DEF CommittingAs, Committing
  <1>6. \A v \in Writers : Committing(v) => writer[v].val \in inflight'
    BY <1>1 DEF Locked
  <1>7. n.kind \in {"commit", "auto"} BY <1>1, <1>3 DEF Locked
  <1>8. Locked' /\ Ordered' /\ Scanned'
    <2>1. hidden \subseteq hidden' BY <1>1
    <2> QED BY <1>1, <1>3, <1>4, <1>5, <1>6, <1>7, <2>1, SideMoves
  <1>9. mark \in Values /\ \A t \in Values : t <= mark \/ t <= writer[w].val => t <= mark'
    <2>1. mark \in Values BY DEF ReadInv, Typed
    <2> QED BY <1>1, <1>2, <2>1, MaxTwo DEF Raised
  <1>10. mark' \in Values
    <2>1. mark \in Values BY DEF ReadInv, Typed
    <2> QED BY <1>1, <1>2, <2>1, MaxTwo DEF Raised
  <1>11. \A t \in Values : t <= mark' \/ t > mark'
    <2>1. \A t \in Values : t \in Nat BY IdleTypes
    <2> QED BY <1>10, <2>1
  <1>12. writer'[w] = n /\ \A v \in Writers : v # w => writer'[v] = writer[v]
    BY <1>4, MovesValue
  <1>13. /\ \A r \in Rows : \A v \in Written(r) : v \in Values /\ v \in 1 .. clock
         /\ \A v \in Writers : writer[v].pc # "idle" =>
              writer[v].val \in Values /\ writer[v].val \in 1 .. clock
    <2>1. clock \in Nat /\ \A x \in Values : x \in Nat
      BY IdleTypes DEF ReadInv, Typed
    <2>2. \A x \in Values : 0 < x /\ x <= clock => x \in 1 .. clock BY <2>1
    <2>3. \A r \in Rows : \A v \in Written(r) : v \in Values
      BY DEF ReadInv, Typed, Written
    <2>4. \A r \in Rows : \A v \in Written(r) : 0 < v /\ v <= clock
      BY DEF ReadInv, Stored, Written
    <2>5. \A v \in Writers : writer[v].pc # "idle" =>
            writer[v].val \in Values /\ 0 < writer[v].val /\ writer[v].val <= clock
      BY DEF ReadInv, Slots, Typed, WriterType
    <2> QED BY <2>2, <2>3, <2>4, <2>5
  <1>14. ASSUME NEW r \in Rows, NEW v \in Written(r)
         PROVE  v \in hidden' \/ (v \in chain[r] /\ v <= mark')
    <2>1. CASE mark # None
      <3>1. v \in hidden \/ (v \in chain[r] /\ v <= mark) BY <1>14, <2>1 DEF Reported
      <3> QED BY <1>1, <1>9, <1>13, <1>14, <3>1
    <2>2. CASE mark = None
      <3>1. v \notin chain[r] \/ v > mark' => v \in Unreported(mark')
        BY <1>13, <1>14 DEF Unreported, Written
      <3>2. v <= mark' \/ v > mark' BY <1>11, <1>13, <1>14
      <3> QED BY <1>1, <2>2, <3>1, <3>2
    <2> QED BY <2>1, <2>2
  <1>15. ASSUME NEW v \in Writers, writer'[v].pc = "raised"
         PROVE  writer'[v].val \in hidden' \/ writer'[v].val <= mark'
    <2>1. CASE v = w
      <3>1. writer[w].val <= writer[w].val
        <4>1. writer[w].val \in Nat BY <1>2, IdleTypes
        <4> QED BY <4>1
      <3>2. writer[w].val <= mark' BY <1>2, <1>9, <3>1
      <3> QED BY <1>3, <1>12, <2>1, <3>2
    <2>2. CASE v # w
      <3>1. writer'[v] = writer[v] /\ writer[v].pc = "raised" BY <1>12, <1>15, <2>2
      <3>2. writer[v].val \in Values /\ writer[v].val \in 1 .. clock BY <1>13, <3>1
      <3>3. CASE mark # None
        <4>1. writer[v].val \in hidden \/ writer[v].val <= mark
          BY <3>1, <3>3 DEF Reported
        <4> QED BY <1>1, <1>9, <3>1, <3>2, <4>1
      <3>4. CASE mark = None
        <4>1. writer[v].val > mark' => writer[v].val \in Unreported(mark')
          BY <3>1, <3>2 DEF Unreported
        <4>2. writer[v].val <= mark' \/ writer[v].val > mark' BY <1>11, <3>2
        <4> QED BY <1>1, <3>1, <3>4, <4>1, <4>2
      <3> QED BY <3>3, <3>4
    <2> QED BY <2>1, <2>2
  <1>16. ASSUME NEW v \in Writers, writer'[v].pc = "dropped"
         PROVE  writer'[v].val \in hidden'
    <2>1. v # w BY <1>3, <1>12, <1>16
    <2>2. writer'[v] = writer[v] /\ writer[v].pc = "dropped" BY <1>12, <1>16, <2>1
    <2>3. writer[v].val \in 1 .. clock BY <1>13, <2>2
    <2>4. CASE mark # None BY <1>1, <2>2, <2>4 DEF Reported
    <2>5. CASE mark = None
      <3>1. writer[v].val \in Unreported(mark') BY <2>2, <2>3 DEF Unreported
      <3> QED BY <1>1, <2>2, <2>5, <3>1
    <2> QED BY <2>4, <2>5
  <1>17. Reported'
    <2>1. \A r \in Rows : Written(r)' = Written(r) BY <1>1 DEF Written
    <2>2. \A r \in Rows : chain'[r] \subseteq Written(r)' BY <1>1, <2>1 DEF Reported
    <2>3. \A r \in Rows : \A v \in Written(r)' :
            v \in hidden' \/ mark' = None \/ (v \in chain'[r] /\ v <= mark')
      BY <1>1, <1>14, <2>1
    <2> QED BY <1>15, <1>16, <2>2, <2>3 DEF Reported
  <1> QED BY <1>8, <1>17

\* A new value of the row, and the writer that has put it there.
LEMMA OverwriteSide ==
  ASSUME ReadInv, NEW w \in Writers, Pending(w), NEW pc \in {"applied", "put"},
         pc = "put" => writer[w].kind \in {"fast", "replay"},
         Overwrite(w, pc), clock' = clock, UNCHANGED <<buried, replayed>>
  PROVE  /\ writer[w].row \in Rows /\ writer[w].val \in Values
         /\ data'[writer[w].row] = writer[w].val
         /\ \A q \in Rows : q = writer[w].row =>
              Written(q)' = Written(q) \cup {writer[w].val}
         /\ \A q \in Rows : q # writer[w].row =>
              data'[q] = data[q] /\ Written(q)' = Written(q)
         /\ \A q \in Rows : writer[w].val \notin Written(q)
         /\ writer'[w].pc = pc /\ \A v \in Writers : v # w => writer'[v] = writer[v]
  <1> DEFINE r == writer[w].row
  <1>1. r \in Rows /\ writer[w].val \in Values
    BY DEF ReadInv, Slots, Pending, Typed, WriterType
  <1>2. /\ data' = [data EXCEPT ![r] = writer[w].val]
        /\ over' = [over EXCEPT ![r] = over[r] \cup {data[r]}]
    BY DEF Overwrite
  <1>3. /\ data'[r] = writer[w].val /\ over'[r] = over[r] \cup {data[r]}
        /\ \A q \in Rows : q # r => data'[q] = data[q] /\ over'[q] = over[q]
    BY <1>1, <1>2 DEF ReadInv, Typed
  <1>4. PICK n : Moves(w, n) /\ n.pc = pc BY OverwriteKeeps
  <1>5. writer'[w].pc = pc /\ \A v \in Writers : v # w => writer'[v] = writer[v]
    BY <1>4, MovesValue
  <1>6. \A q \in Rows : writer[w].val \notin Written(q)
    BY DEF ReadInv, Stored, Written
  <1>7. \A q \in Rows : q = r => Written(q)' = Written(q) \cup {writer[w].val}
    BY <1>3 DEF Written
  <1>8. \A q \in Rows : q # r => Written(q)' = Written(q) BY <1>3 DEF Written
  <1> QED BY <1>1, <1>3, <1>5, <1>6, <1>7, <1>8

\* The batch of a commit.  A transaction's commit holds the row lock and is
\* above every snapshot that passed the barrier; what an autocommit commit does
\* to the order is recorded.
LEMMA ApplyBatchSide ==
  ASSUME ReadInv, ScanSide, NEW w \in Writers, ApplyBatch(w)
  PROVE  ScanSide'
  <1> USE DEF ScanSide
  <1> DEFINE r == writer[w].row
             c == writer[w].val
             auto == writer[w].kind = "auto"
             below == \E s \in Scanners :
                         scan[s].pc \in {"scanned", "accepted"} /\ c <= scan[s].ts
  <1>1. /\ writer[w].pc = "raised" /\ Overwrite(w, "applied")
        /\ chain' = [chain EXCEPT ![r] = @ \cup {c}]
        /\ overtaken' = IF auto THEN overtaken \cup Passed(w) ELSE overtaken
        /\ late' = IF auto /\ below THEN late \cup {c} ELSE late
        /\ UNCHANGED <<clock, inflight, mark, scan, buried, replayed, hidden>>
    BY DEF ApplyBatch
  <1>2. /\ r \in Rows /\ c \in Values /\ data'[r] = c
        /\ \A q \in Rows : q = r => Written(q)' = Written(q) \cup {c}
        /\ \A q \in Rows : q # r => data'[q] = data[q] /\ Written(q)' = Written(q)
        /\ \A q \in Rows : c \notin Written(q)
        /\ writer'[w].pc = "applied" /\ \A v \in Writers : v # w => writer'[v] = writer[v]
    <2>1. Pending(w) /\ clock' = clock /\ UNCHANGED <<buried, replayed>>
      BY <1>1 DEF Pending
    <2> QED BY <1>1, <2>1, OverwriteSide
  <1>3. /\ chain'[r] = chain[r] \cup {c} /\ \A q \in Rows : q # r => chain'[q] = chain[q]
        /\ \A q \in Rows : chain[q] \in SUBSET Values
    BY <1>1, <1>2 DEF ReadInv, Typed
  <1>4. auto \/ (writer[w].kind = "commit" /\ Committing(w))
    BY <1>1 DEF Locked, Committing
  <1>5. overtaken \subseteq overtaken' /\ late \subseteq late' BY <1>1
  <1>6. \A x \in Values : x \in Nat BY IdleTypes
  <1>7. \A v \in Writers : Committing(v)' => v # w /\ Committing(v) /\ writer'[v] = writer[v]
    BY <1>2 DEF Committing
  <1> HIDE DEF r, c, auto, below
  <1>8. Locked'
    <2>1. \A v \in Writers : writer'[v].pc \in {"alloc", "raised"} =>
            writer'[v].kind \in {"commit", "auto"}
      BY <1>2 DEF Locked
    <2>2. \A v \in Writers : Committing(v)' => writer'[v].val \in inflight'
      BY <1>1, <1>7 DEF Locked
    <2>3. \A u, v \in Writers : u # v /\ Committing(u)' /\ Committing(v)' =>
            writer'[u].row # writer'[v].row
      BY <1>7 DEF Locked
    <2> QED BY <2>1, <2>2, <2>3 DEF Locked
  <1>9. c \in overtaken' \/ \A u \in chain[r] : u <= c
    <2>1. CASE auto
      <3>1. (\E u \in chain[r] : u > c) => c \in Passed(w) BY DEF Passed, r, c
      <3>2. \A u \in chain[r] : u > c \/ u <= c BY <1>2, <1>3, <1>6
      <3> QED BY <1>1, <2>1, <3>1, <3>2
    <2>2. CASE Committing(w) BY <1>5, <2>2 DEF Ordered, r, c
    <2> QED BY <1>4, <2>1, <2>2
  <1>10. ASSUME NEW q \in Rows, data'[q] \in chain'[q]
         PROVE  data'[q] \in overtaken' \/ \A u \in chain'[q] : u <= data'[q]
    <2>1. CASE q = r
      <3>1. c <= c BY <1>2, <1>6
      <3> QED BY <1>2, <1>3, <1>9, <2>1, <3>1
    <2>2. CASE q # r BY <1>2, <1>3, <1>5, <1>10, <2>2 DEF Ordered
    <2> QED BY <2>1, <2>2
  <1>11. ASSUME NEW v \in Writers, Committing(v)'
         PROVE  \/ writer'[v].val \in overtaken'
                \/ \A u \in chain'[writer'[v].row] : u <= writer'[v].val
    <2>1. v # w /\ Committing(v) /\ writer'[v] = writer[v] BY <1>7, <1>11
    <2>2. writer[v].row \in Rows /\ writer[v].val \in Values
      BY <2>1 DEF Committing, ReadInv, Slots, Typed, WriterType
    <2>3. writer[v].val \in overtaken \/ \A u \in chain[writer[v].row] : u <= writer[v].val
      BY <2>1 DEF Ordered
    <2>4. CASE writer[v].row # r BY <1>3, <1>5, <2>1, <2>2, <2>3, <2>4
    <2>5. CASE writer[v].row = r
      <3>1. auto BY <1>4, <2>1, <2>5 DEF Locked, r
      <3>2. writer[v].val < c => writer[v].val \in Passed(w)
        BY <2>1, <2>5 DEF Passed, Committing, r, c
      <3>3. writer[v].val < c \/ c <= writer[v].val BY <1>2, <1>6, <2>2
      <3>4. CASE writer[v].val < c BY <1>1, <2>1, <3>1, <3>2, <3>4
      <3>5. CASE c <= writer[v].val BY <1>3, <1>5, <2>1, <2>3, <2>5, <3>5
      <3> QED BY <3>3, <3>4, <3>5
    <2> QED BY <2>4, <2>5
  <1>12. Ordered' BY <1>10, <1>11 DEF Ordered
  <1>13. Reported'
    <2>1. \A q \in Rows : chain'[q] \subseteq Written(q)' BY <1>2, <1>3 DEF Reported
    <2>2. ASSUME NEW q \in Rows, NEW v \in Written(q)'
          PROVE  v \in hidden \/ mark = None \/ (v \in chain'[q] /\ v <= mark)
      <3>1. CASE v \in Written(q) BY <1>3, <3>1 DEF Reported
      <3>2. CASE v \notin Written(q)
        <4>1. q = r /\ v = c BY <1>2, <2>2, <3>2
        <4>2. c \in hidden \/ mark = None \/ c <= mark BY <1>1 DEF Reported, c
        <4> QED BY <1>3, <4>1, <4>2
      <3> QED BY <3>1, <3>2
    <2>3. \A v \in Writers : writer'[v].pc = "raised" =>
            writer'[v].val \in hidden \/ mark = None \/ writer'[v].val <= mark
      BY <1>2 DEF Reported
    <2>4. \A v \in Writers : writer'[v].pc = "dropped" =>
            writer'[v].val \in hidden \/ mark = None
      BY <1>2 DEF Reported
    <2> QED BY <1>1, <2>1, <2>2, <2>3, <2>4 DEF Reported
  <1>14. ASSUME NEW s \in Scanners PROVE ScannedBy(s)'
    <2>1. ScannedBy(s) BY DEF Scanned
    <2>2. scan[s].ts \in Values BY DEF ReadInv, Typed, ScanType
    <2>3. ASSUME scan[s].pc \in {"scanned", "accepted"}, NEW q \in Rows
          PROVE  /\ scan[s].seen[q] \in Written(q)'
                 /\ Matches(s, q) => Matches(s, q)'
                 /\ scan[s].seen[q] \notin chain[q] => scan[s].seen[q] \notin chain'[q]
      <3>1. scan[s].seen[q] \in Written(q) BY <2>1, <2>3 DEF ScannedBy
      <3>2. scan[s].seen[q] # c BY <1>2, <3>1
      <3>3. Image(s, q)' = Image(s, q) \/ Image(s, q)' \in late'
        <4>1. CASE q # r BY <1>1, <1>3, <4>1 DEF Image
        <4>2. CASE q = r
          <5>1. Image(s, q)' = Newest(chain[q] \cup {c}, scan[s].ts)
            BY <1>1, <1>3, <4>2 DEF Image
          <5>2. \/ Newest(chain[q] \cup {c}, scan[s].ts) = Newest(chain[q], scan[s].ts)
                \/ Newest(chain[q] \cup {c}, scan[s].ts) = c /\ c <= scan[s].ts
            BY <1>2, <1>3, <2>2, NewestGrows
          <5>3. CASE c <= scan[s].ts
            <6>1. ~Committing(w)
              <7>1. Committing(w) => scan[s].ts < c BY <2>1, <2>3 DEF ScannedBy, c
              <7> QED BY <1>2, <1>6, <2>2, <5>3, <7>1
            <6>2. auto /\ below BY <1>4, <2>3, <5>3, <6>1 DEF below
            <6> QED BY <1>1, <5>1, <5>2, <6>2 DEF Image
          <5> QED BY <5>1, <5>2, <5>3 DEF Image
        <4> QED BY <4>1, <4>2
      <3>4. Matches(s, q) => Matches(s, q)'
        BY <1>1, <1>5, <3>3 DEF Matches
      <3> QED BY <1>2, <1>3, <3>1, <3>2, <3>4
    <2>4. scan'[s] = scan[s] /\ clock' = clock BY <1>1
    <2>5. \A v \in Writers : Committing(v)' => Committing(v) /\ writer'[v].val = writer[v].val
      BY <1>7
    <2> QED BY <1>1, <2>1, <2>3, <2>4, <2>5 DEF ScannedBy
  <1> QED BY <1>8, <1>12, <1>13, <1>14 DEF Scanned

\* The put of a write in place: its value is in no chain, and its drop is known.
LEMMA PutInPlaceSide ==
  ASSUME ReadInv, ScanSide, NEW w \in Writers, PutInPlace(w)
  PROVE  ScanSide'
  <1> USE DEF ScanSide
  <1> DEFINE r == writer[w].row
             c == writer[w].val
  <1>1. /\ writer[w].pc = "dropped" /\ Overwrite(w, "put")
        /\ UNCHANGED <<clock, chain, inflight, mark, scan, buried, replayed>>
        /\ UNCHANGED <<hidden, overtaken, late>>
    BY DEF PutInPlace, disorder
  <1>2. /\ r \in Rows /\ c \in Values /\ data'[r] = c
        /\ \A q \in Rows : q = r => Written(q)' = Written(q) \cup {c}
        /\ \A q \in Rows : q # r => data'[q] = data[q] /\ Written(q)' = Written(q)
        /\ \A q \in Rows : c \notin Written(q)
        /\ writer'[w].pc = "put" /\ \A v \in Writers : v # w => writer'[v] = writer[v]
    <2>1. /\ Pending(w) /\ clock' = clock /\ UNCHANGED <<buried, replayed>>
          /\ writer[w].kind \in {"fast", "replay"}
      BY <1>1 DEF Pending, ReadInv, Slots
    <2> QED BY <1>1, <2>1, OverwriteSide
  <1>3. \A v \in Writers : Committing(v)' => v # w /\ Committing(v) /\ writer'[v] = writer[v]
    BY <1>2 DEF Committing
  <1> HIDE DEF r, c
  <1>4. Locked'
    <2>1. \A v \in Writers : writer'[v].pc \in {"alloc", "raised"} =>
            writer'[v].kind \in {"commit", "auto"}
      BY <1>2 DEF Locked
    <2>2. \A v \in Writers : Committing(v)' => writer'[v].val \in inflight'
      BY <1>1, <1>3 DEF Locked
    <2>3. \A u, v \in Writers : u # v /\ Committing(u)' /\ Committing(v)' =>
            writer'[u].row # writer'[v].row
      BY <1>3 DEF Locked
    <2> QED BY <2>1, <2>2, <2>3 DEF Locked
  <1>5. Ordered'
    <2>1. \A q \in Rows : chain[q] \subseteq Written(q) BY DEF Reported
    <2>2. c \notin chain[r] BY <1>2, <2>1
    <2>3. ASSUME NEW q \in Rows, data'[q] \in chain[q]
          PROVE  data'[q] \in overtaken \/ \A u \in chain[q] : u <= data'[q]
      <3>1. q # r BY <1>2, <2>2, <2>3
      <3>2. data'[q] = data[q] BY <1>2, <3>1
      <3> QED BY <2>3, <3>2 DEF Ordered
    <2>4. \A v \in Writers : Committing(v)' =>
            \/ writer'[v].val \in overtaken
            \/ \A u \in chain[writer'[v].row] : u <= writer'[v].val
      BY <1>3 DEF Ordered
    <2> QED BY <1>1, <2>3, <2>4 DEF Ordered
  <1>6. Reported'
    <2>1. \A q \in Rows : chain[q] \subseteq Written(q)' BY <1>2 DEF Reported
    <2>2. ASSUME NEW q \in Rows, NEW v \in Written(q)'
          PROVE  v \in hidden \/ mark = None \/ (v \in chain[q] /\ v <= mark)
      <3>1. CASE v \in Written(q) BY <3>1 DEF Reported
      <3>2. CASE v \notin Written(q)
        <4>1. v = c BY <1>2, <2>2, <3>2
        <4> QED BY <1>1, <4>1 DEF Reported, c
      <3> QED BY <3>1, <3>2
    <2>3. /\ \A v \in Writers : writer'[v].pc = "raised" =>
               writer'[v].val \in hidden \/ mark = None \/ writer'[v].val <= mark
          /\ \A v \in Writers : writer'[v].pc = "dropped" =>
               writer'[v].val \in hidden \/ mark = None
      BY <1>2 DEF Reported
    <2> QED BY <1>1, <2>1, <2>2, <2>3 DEF Reported
  <1>7. Scanned'
    <2>1. \A q \in Rows : Written(q) \subseteq Written(q)' BY <1>2
    <2>2. \A q \in Rows : over[q] \cup {data[q]} \subseteq over'[q] \cup {data'[q]}
      BY <2>1 DEF Written
    <2>3. \A v \in Writers : Committing(v)' => Committing(v) /\ writer'[v].val = writer[v].val
      BY <1>3
    <2> QED BY <1>1, <2>2, <2>3, ScansStand
  <1> QED BY <1>4, <1>5, <1>6, <1>7

\* A writer fences its row, fails or returns: its own announcement is all that
\* it lifts.
LEMMA EndsSide ==
  ASSUME ReadInv, ScanSide, NEW w \in Writers,
         \/ BatchFails(w) \/ PutFails(w) \/ Fence(w) \/ EndCommit(w)
         \/ InvalidateRow(w)
  PROVE  ScanSide'
  <1> USE DEF ScanSide
  <1>1. /\ writer[w].pc # "idle" /\ inflight \ {writer[w].val} \subseteq inflight'
        /\ UNCHANGED <<clock, data, chain, mark, scan, over, hidden, overtaken, late>>
    BY DEF BatchFails, PutFails, Fence, EndCommit, InvalidateRow, Lift, histories, disorder
  <1>2. PICK n : Moves(w, n) /\ n.pc \in {"idle", "fenced"}
    <2>1. CASE Fence(w)
      <3> DEFINE n == [writer[w] EXCEPT !.pc = "fenced"]
      <3>1. writer' = [writer EXCEPT ![w] = n] BY <2>1 DEF Fence, ReadInv, Typed
      <3>2. writer[w] \in WriterType BY DEF ReadInv, Typed
      <3>3. n \in WriterType /\ n.pc = "fenced" BY <3>2 DEF WriterType
      <3> QED BY <3>1, <3>3 DEF Moves
    <2>2. CASE BatchFails(w) \/ PutFails(w)
      <3>1. writer' = [writer EXCEPT ![w] = IdleWriter] BY <2>2 DEF BatchFails, PutFails
      <3> QED BY <3>1, IdleTypes DEF Moves
    <2>3. CASE EndCommit(w) \/ InvalidateRow(w)
      <3>1. Return(w) BY <2>3 DEF EndCommit, InvalidateRow
      <3> QED BY <1>1, <3>1, ReturnKeeps
    <2> QED BY <2>1, <2>2, <2>3
  <1>3. ~CommittingAs(n) /\ n.pc \notin {"alloc", "raised", "dropped"}
    BY <1>2 DEF CommittingAs
  <1>4. \A v \in Writers : v # w /\ Committing(v) => writer[v].val \in inflight'
    <2> SUFFICES ASSUME NEW v \in Writers, v # w, Committing(v)
                 PROVE  writer[v].val \in inflight'
        OBVIOUS
    <2>1. writer[v].val \in inflight BY DEF Locked
    <2>2. writer[v].val # writer[w].val BY <1>1 DEF Committing, ReadInv, Slots
    <2> QED BY <1>1, <2>1, <2>2
  <1>5. Locked' /\ Ordered' /\ Scanned' BY <1>1, <1>2, <1>3, <1>4, SideMoves
  <1>6. Reported' BY <1>1, <1>2, <1>3, MoveReported
  <1> QED BY <1>5, <1>6

\* A scan that passes the second look matches its snapshot, or shows a write
\* that the watermark lost.
LEMMA ScanStepSide ==
  ASSUME ReadInv, ScanSide, NEW s \in Scanners, ScanStep(s)
  PROVE  ScanSide'
  <1> USE DEF ScanSide
  <1>1. /\ UNCHANGED <<data, chain, inflight, mark, writer, over>>
        /\ UNCHANGED <<hidden, overtaken, late>>
    BY DEF ScanStep, BeginTxn, PassBarrier, CheckBefore, ScanCurrent, CheckAfter, EndTxn,
           histories, disorder
  <1>2. clock' = clock \/ clock' = clock + 1
    BY DEF ScanStep, BeginTxn, PassBarrier, CheckBefore, ScanCurrent, CheckAfter, EndTxn,
           Tick
  <1>3. Locked' BY <1>1 DEF Locked, Committing
  <1>4. Ordered' BY <1>1 DEF Ordered, Committing
  <1>5. Reported' BY <1>1 DEF Reported, Written
  <1>6. /\ scan \in [Scanners -> ScanType] /\ scan[s] \in ScanType /\ scan[s].ts \in Values
        /\ clock \in Nat /\ mark \in Nat /\ \A x \in Values : x \in Nat
        /\ data \in [Rows -> Values]
    BY IdleTypes DEF ReadInv, Typed, ScanType
  <1>7. ScannedBy(s) BY DEF Scanned
  <1>8. ASSUME NEW z \in Scanners, scan'[z] = scan[z] PROVE ScannedBy(z)'
    <2>1. ScannedBy(z) BY DEF Scanned
    <2>2. scan[z].ts \in Nat BY <1>6 DEF ReadInv, Typed, ScanType
    <2>3. scan[z].ts <= clock' BY <1>2, <1>6, <2>1, <2>2 DEF ScannedBy
    <2>4. \A r \in Rows : (Matches(z, r)' <=> Matches(z, r)) /\ Written(r)' = Written(r)
      BY <1>1, <1>8 DEF Matches, Image, Written
    <2>5. \A w \in Writers : Committing(w)' <=> Committing(w) BY <1>1 DEF Committing
    <2> QED BY <1>1, <1>8, <2>1, <2>3, <2>4, <2>5 DEF ScannedBy
  <1>9. ASSUME NEW n, scan' = [scan EXCEPT ![s] = n], n.ts <= clock',
               n.pc \in {"idle", "barrier", "open", "fast"},
               n.pc \notin {"idle", "barrier"} =>
                 \A w \in Writers : Committing(w) => n.ts < writer[w].val
        PROVE  ScannedBy(s)'
    <2>1. scan'[s] = n BY <1>6, <1>9
    <2>2. \A w \in Writers : (Committing(w)' <=> Committing(w)) /\ writer'[w] = writer[w]
      BY <1>1 DEF Committing
    <2> QED BY <1>9, <2>1, <2>2 DEF ScannedBy
  <1>10. scan[s].pc \notin {"idle", "barrier"} =>
           \A w \in Writers : Committing(w) => scan[s].ts < writer[w].val
    BY <1>7 DEF ScannedBy
  <1>11. scan[s].ts <= clock BY <1>7 DEF ScannedBy
  <1>12. /\ IdleScan \in ScanType /\ IdleScan.pc = "idle" /\ IdleScan.ts = 0
    BY IdleTypes DEF IdleScan, None
  <1>13. ASSUME BeginTxn(s) PROVE ScannedBy(s)'
    <2> DEFINE n == [scan[s] EXCEPT !.pc = "barrier", !.ts = clock']
    <2>1. scan' = [scan EXCEPT ![s] = n] BY <1>6, <1>13 DEF BeginTxn, ScanType
    <2>2. n.pc = "barrier" /\ n.ts = clock' BY <1>6 DEF ScanType
    <2>3. clock' <= clock' BY <1>2, <1>6
    <2> HIDE DEF n
    <2> QED BY <1>9, <2>1, <2>2, <2>3
  <1>14. ASSUME PassBarrier(s) PROVE ScannedBy(s)'
    <2> DEFINE n == [scan[s] EXCEPT !.pc = "open"]
    <2>1. /\ scan' = [scan EXCEPT ![s] = n] /\ clock' = clock
          /\ \A t \in inflight : t > scan[s].ts
      BY <1>6, <1>14 DEF PassBarrier
    <2>2. n.pc = "open" /\ n.ts = scan[s].ts BY <1>6 DEF ScanType
    <2>3. \A w \in Writers : Committing(w) => scan[s].ts < writer[w].val
      <3>1. \A w \in Writers : writer[w].val \in Nat BY <1>6 DEF ReadInv, Typed, WriterType
      <3>2. \A w \in Writers : Committing(w) => writer[w].val > scan[s].ts
        BY <2>1 DEF Locked
      <3> QED BY <1>6, <3>1, <3>2
    <2> HIDE DEF n
    <2> QED BY <1>9, <1>11, <2>1, <2>2, <2>3
  <1>15. ASSUME CheckBefore(s) PROVE ScannedBy(s)'
    <2> DEFINE n == [IdleScan EXCEPT !.pc = "fast", !.ts = scan[s].ts]
    <2>1. /\ scan' = [scan EXCEPT ![s] = n] /\ clock' = clock
          /\ scan[s].pc \notin {"idle", "barrier"}
      BY <1>15 DEF CheckBefore
    <2>2. n.pc = "fast" /\ n.ts = scan[s].ts BY <1>6, <1>12 DEF ScanType
    <2> HIDE DEF n
    <2> QED BY <1>9, <1>10, <1>11, <2>1, <2>2
  <1>16. ASSUME EndTxn(s) PROVE ScannedBy(s)'
    <2>1. scan' = [scan EXCEPT ![s] = IdleScan] /\ clock' = clock BY <1>16 DEF EndTxn
    <2>2. 0 <= clock BY <1>6
    <2> QED BY <1>9, <1>12, <2>1, <2>2
  <1>17. ASSUME ScanCurrent(s) PROVE ScannedBy(s)'
    <2> DEFINE n == [scan[s] EXCEPT !.pc = "scanned", !.seen = data]
    <2>1. /\ scan' = [scan EXCEPT ![s] = n] /\ scan[s].pc = "fast" /\ clock' = clock
      BY <1>6, <1>17 DEF ScanCurrent, ScanType
    <2>2. n.pc = "scanned" /\ n.ts = scan[s].ts /\ n.seen = data BY <1>6 DEF ScanType
    <2> HIDE DEF n
    <2>3. scan'[s] = n BY <1>6, <2>1
    <2>4. ASSUME NEW r \in Rows
          PROVE  /\ scan'[s].seen[r] \in Written(r)'
                 /\ \/ Matches(s, r)' \/ scan'[s].seen[r] \notin chain'[r]
                    \/ scan'[s].ts < scan'[s].seen[r]
      <3>1. scan'[s].seen[r] = data[r] /\ scan'[s].ts = scan[s].ts BY <2>2, <2>3
      <3>2. data[r] \in Written(r)' BY <1>1 DEF Written
      <3>3. chain[r] \in SUBSET Values /\ data[r] \in Nat BY <1>6 DEF ReadInv, Typed
      <3>4. CASE data[r] \in chain[r] /\ data[r] <= scan[s].ts
        <4>1. CASE data[r] \in overtaken BY <1>1, <3>1, <3>2, <4>1 DEF Matches
        <4>2. CASE \A u \in chain[r] : u <= data[r]
          <5>1. Newest(chain[r], scan[s].ts) = data[r]
            BY <1>6, <3>3, <3>4, <4>2, NewestIsLast
          <5>2. Image(s, r)' = data[r] BY <1>1, <3>1, <5>1 DEF Image
          <5> QED BY <3>1, <3>2, <5>2 DEF Matches
        <4> QED BY <3>4, <4>1, <4>2 DEF Ordered
      <3>5. CASE data[r] \notin chain[r] BY <1>1, <3>1, <3>2, <3>5
      <3>6. CASE ~(data[r] <= scan[s].ts)
        <4>1. scan[s].ts < data[r] BY <1>6, <3>3, <3>6
        <4> QED BY <3>1, <3>2, <4>1
      <3> QED BY <3>4, <3>5, <3>6
    <2>5. \A w \in Writers : Committing(w)' => n.ts < writer'[w].val
      BY <1>1, <1>10, <2>1, <2>2 DEF Committing
    <2> QED BY <1>11, <2>1, <2>2, <2>3, <2>4, <2>5 DEF ScannedBy
  <1>18. ASSUME CheckAfter(s) PROVE ScannedBy(s)'
    <2> DEFINE yes == [scan[s] EXCEPT !.pc = "accepted"]
               no == [IdleScan EXCEPT !.pc = "open", !.ts = scan[s].ts]
    <2>1. /\ scan[s].pc = "scanned" /\ clock' = clock
          /\ scan' = [scan EXCEPT ![s] = IF Unchanged(scan[s].ts) THEN yes ELSE no]
      BY <1>18 DEF CheckAfter
    <2>2. CASE ~Unchanged(scan[s].ts)
      <3>1. no.pc = "open" /\ no.ts = scan[s].ts BY <1>6, <1>12 DEF ScanType
      <3> HIDE DEF yes, no
      <3>2. scan' = [scan EXCEPT ![s] = no] BY <2>1, <2>2
      <3> QED BY <1>9, <1>10, <1>11, <2>1, <3>1, <3>2
    <2>3. CASE Unchanged(scan[s].ts)
      <3>1. mark # None /\ mark <= scan[s].ts BY <2>3 DEF Unchanged
      <3>2. yes.pc = "accepted" /\ yes.ts = scan[s].ts /\ yes.seen = scan[s].seen
        BY <1>6 DEF ScanType
      <3> HIDE DEF yes, no
      <3>3. scan'[s] = yes BY <1>6, <2>1, <2>3
      <3>4. ASSUME NEW r \in Rows
            PROVE  /\ scan[s].seen[r] \in Written(r)
                   /\ Matches(s, r) \/ scan[s].seen[r] \in hidden
        <4>1. /\ scan[s].seen[r] \in Written(r)
              /\ \/ Matches(s, r) \/ scan[s].seen[r] \notin chain[r]
                 \/ scan[s].ts < scan[s].seen[r]
          BY <1>7, <2>1 DEF ScannedBy
        <4>2. \/ scan[s].seen[r] \in hidden
              \/ scan[s].seen[r] \in chain[r] /\ scan[s].seen[r] <= mark
          BY <3>1, <4>1 DEF Reported
        <4>3. scan[s].seen[r] \in Nat BY <1>6 DEF ScanType
        <4>4. scan[s].seen[r] <= mark => ~(scan[s].ts < scan[s].seen[r])
          BY <1>6, <3>1, <4>3
        <4> QED BY <4>1, <4>2, <4>4
      <3>5. \A r \in Rows : /\ Written(r)' = Written(r)
                            /\ Matches(s, r) => Matches(s, r)'
        BY <1>1, <3>2, <3>3 DEF Written, Matches, Image
      <3>6. \A w \in Writers : Committing(w)' => yes.ts < writer'[w].val
        BY <1>1, <1>10, <2>1, <3>2 DEF Committing
      <3> QED BY <1>1, <1>11, <2>1, <3>2, <3>3, <3>4, <3>5, <3>6 DEF ScannedBy
    <2> QED BY <2>2, <2>3
  <1>19. ScannedBy(s)'
    BY <1>13, <1>14, <1>15, <1>16, <1>17, <1>18 DEF ScanStep
  <1>20. \A z \in Scanners : z # s => scan'[z] = scan[z]
    BY <1>6 DEF ScanStep, BeginTxn, PassBarrier, CheckBefore, ScanCurrent, CheckAfter, EndTxn
  <1>21. Scanned' BY <1>8, <1>19, <1>20 DEF Scanned
  <1> QED BY <1>3, <1>4, <1>5, <1>21

-----------------------------------------------------------------------------
(* The specification.                                                      *)

\* Every step of every session keeps the invariant.
LEMMA ReadStep == ReadInv /\ [Next]_vars => ReadInv'
  <1> SUFFICES ASSUME ReadInv, [Next]_vars PROVE ReadInv'
      OBVIOUS
  <1>1. CASE UNCHANGED vars
    <2>1. /\ UNCHANGED <<clock, data, chain, inflight, mark, cache, generation>>
          /\ UNCHANGED <<writer, lookup, scan, over, buried, replayed>>
          /\ UNCHANGED <<refilled, hidden, overtaken, late>>
      BY <1>1 DEF vars, histories, disorder
    <2>2. Slots' /\ Stored' /\ Announced' BY <2>1, WritesKept
    <2>4. Typed' BY <2>1 DEF ReadInv, Typed
    <2>5. Cached' /\ Looked' BY <2>1 DEF ReadInv, Cached, Looked, LookedBy
    <2> QED BY <2>2, <2>4, <2>5 DEF ReadInv
  <1>2. ASSUME NEW w \in Writers, WriterStep(w) PROVE ReadInv'
    <2>1. ASSUME NEW r \in Rows, NEW kind \in {"commit", "auto"}, AllocCommit(w, r, kind)
          PROVE  ReadInv'
      BY <2>1, AllocInv
    <2>2. ASSUME NEW r \in Rows, NEW kind \in {"fast", "replay"}, DropMark(w, r, kind)
          PROVE  ReadInv'
      BY <2>2, DropMarkInv
    <2> QED BY <1>2, <2>1, <2>2, RaiseMarkInv, ApplyBatchInv, FailsInv, FenceInv,
               EndCommitInv, PutInPlaceInv, InvalidateInv DEF WriterStep
  <1> QED BY <1>1, <1>2, LookupInv, ScanInv, ExpireInv, BumpInv DEF Next

\* ReadInv holds throughout: the steps of all sessions, in any order.
THEOREM ReadInvariance == Spec => []ReadInv
  <1> QED BY ReadInit, ReadStep, PTL DEF Spec

\* Every variable keeps its type, and an announcement belongs to a writer.
THEOREM ReadTypeCorrect == Spec => []TypeOK
  <1>1. ReadInv => TypeOK BY TypedIsTypeOK DEF ReadInv
  <1> QED BY <1>1, ReadInvariance, PTL

\* The fence comes before end_commit: a lookup that starts after a write
\* returned serves nothing the write overwrote, unless a lookup that had read
\* storage before filled the entry.
THEOREM SettledServed == Spec => []LookupsSeeSettled
  <1>1. ReadInv => LookupsSeeSettled
    BY DEF ReadInv, Looked, LookedBy, LookupsSeeSettled
  <1> QED BY <1>1, ReadInvariance, PTL

\* A live replay advances the generation before it evicts: no fill from before
\* brings the overwritten row back.
THEOREM ReplayFinal == Spec => []ReplayedNeverResurrected
  <1>1. ReadInv => ReplayedNeverResurrected
    BY DEF ReadInv, Cached, ReplayedNeverResurrected
  <1> QED BY <1>1, ReadInvariance, PTL

\* One version of every row, at the watermark, and nobody at work.
LEMMA SideInit == Init => ScanSide
  <1> SUFFICES ASSUME Init PROVE ScanSide
      OBVIOUS
  <1>1. /\ \A w \in Writers : writer[w].pc = "idle"
        /\ \A s \in Scanners : scan[s].pc = "idle" /\ scan[s].ts = 0
        /\ clock = 1 /\ mark = 1
        /\ \A r \in Rows : data[r] = 1 /\ chain[r] = {1} /\ over[r] = {}
    BY IdleTypes DEF Init, IdleScan, None
  <1>2. Locked BY <1>1 DEF Locked, Committing
  <1>3. Ordered BY <1>1 DEF Ordered, Committing
  <1>4. Reported BY <1>1 DEF Reported, Written
  <1>5. Scanned BY <1>1 DEF Scanned, ScannedBy
  <1> QED BY <1>2, <1>3, <1>4, <1>5 DEF ScanSide

\* Every step keeps what is known of the watermark, the order and the scans.
LEMMA SideStep == ReadInv /\ ScanSide /\ [Next]_vars => ScanSide'
  <1> SUFFICES ASSUME ReadInv, ScanSide, [Next]_vars PROVE ScanSide'
      OBVIOUS
  <1>1. CASE UNCHANGED vars
    <2>1. /\ UNCHANGED <<clock, data, chain, inflight, writer, scan, over, hidden, overtaken, late>>
          /\ mark' = mark
      BY <1>1 DEF vars, histories, disorder
    <2> QED BY <2>1, SideStands
  <1>2. ASSUME \/ \E l \in Lookups : LookupStep(l)
               \/ \E r \in Rows : Expire(r)
               \/ BumpGeneration
        PROVE  ScanSide'
    <2>1. /\ UNCHANGED <<clock, data, chain, inflight, writer, scan, over, hidden, overtaken, late>>
          /\ mark' = mark \/ mark' = None
      BY <1>2 DEF LookupStep, LookUp, ReadStorage, FillCache, Expire, BumpGeneration,
                  histories, disorder
    <2> QED BY <2>1, SideStands
  <1>3. ASSUME NEW w \in Writers, WriterStep(w) PROVE ScanSide'
    <2>1. ASSUME NEW r \in Rows, NEW kind \in {"commit", "auto"}, AllocCommit(w, r, kind)
          PROVE  ScanSide'
      BY <2>1, AllocSide
    <2>2. ASSUME NEW r \in Rows, NEW kind \in {"fast", "replay"}, DropMark(w, r, kind)
          PROVE  ScanSide'
      BY <2>2, DropMarkSide
    <2> QED BY <1>3, <2>1, <2>2, RaiseMarkSide, ApplyBatchSide, PutInPlaceSide, EndsSide
               DEF WriterStep
  <1> QED BY <1>1, <1>2, <1>3, ScanStepSide DEF Next

\* An accepted fast scan is, row for row and for as long as it is kept, what
\* the snapshot resolves, whatever commits, in-place writes, replays, failures
\* and DDL surround it: no write above the snapshot shows, no commit at or
\* below it is missing.  Excepted are rows whose write the watermark lost in a
\* drop, rows where an autocommit commit broke the order of timestamps, and
\* autocommit commits that appear below the snapshot later.
THEOREM FastScansExact == Spec => []FastScanIsSnapshot
  <1>1. ReadInv /\ ScanSide => FastScanIsSnapshot
    <2> SUFFICES ASSUME ScanSide, NEW s \in Scanners, NEW r \in Rows,
                        scan[s].pc = "accepted"
                 PROVE  \/ scan[s].seen[r] = Newest(chain[r], scan[s].ts)
                        \/ scan[s].seen[r] \in hidden \cup overtaken
                        \/ Newest(chain[r], scan[s].ts) \in late
        BY DEF FastScanIsSnapshot
    <2>1. Matches(s, r) \/ scan[s].seen[r] \in hidden
      BY DEF ScanSide, Scanned, ScannedBy
    <2> QED BY <2>1 DEF Matches, Image
  <1>2. Spec => [](ReadInv /\ ScanSide)
    BY ReadInit, ReadStep, SideInit, SideStep, PTL DEF Spec
  <1> QED BY <1>1, <1>2, PTL

=============================================================================
