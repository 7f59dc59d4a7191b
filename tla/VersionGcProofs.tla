-------------------------- MODULE VersionGcProofs --------------------------
(***************************************************************************)
(* Proofs about VersionGc, for any number of rows, sessions and branches:  *)
(* garbage collection takes nothing that a pin, a branch or a restart      *)
(* still needs.                                                            *)
(*                                                                         *)
(* Whole is the set of timestamps at which every row still reads as if     *)
(* nothing had been collected.  Writers only enlarge it, and a collected   *)
(* row keeps in it what is at or above the horizon of the cycle.  So the   *)
(* proof is about which horizons a cycle can reach: GcInv adds             *)
(*   - Marks: when memory and disk agree on the watermark, and that the    *)
(*     horizon is at or below it from the second look at the pins on;      *)
(*   - Guarded: the pins and anchors that the second look saw, or that     *)
(*     were admitted against the watermark since, are above the horizon;   *)
(*   - Covers: everything at or above the watermark is whole, which is     *)
(*     what makes an admitted reader's snapshot whole;                     *)
(*   - Late: only a transaction can be late, and no branch is created      *)
(*     under a transaction's pin.                                          *)
(***************************************************************************)
EXTENDS VersionGc, FiniteSetTheorems, WellFoundedInduction, TLAPS

Chains == [Rows -> SUBSET Times]
HolderType == [pc : {"idle", "begun", "txn", "resolved", "pinned", "reading", "branching"},
               ts : Times]
WriterType == [pc : {"idle", "alloc", "applied"}, ts : Times, row : Rows]
GcType == [pc : {"idle", "clamp", "persist", "pins", "branches", "publish", "open", "scan"},
           horizon : Times, row : Rows, deleted : Nat, seen : Chains]

Typed ==
    /\ clock \in Times
    /\ versions \in Chains /\ index \in Chains
    /\ writtenV \in Chains /\ writtenIdx \in Chains
    /\ registered \subseteq Times /\ anchors \subseteq Times
    /\ aged \in Times /\ durableMark \in Times /\ mark \in Times
    /\ branches \in [Branches -> Times]
    /\ holder \in [Holders -> HolderType]
    /\ writer \in [Writers -> WriterType]
    /\ gc \in GcType
    /\ cursor \in Rows
    /\ faults \in 0 .. MaxFaults
    /\ late \subseteq Holders \cup Branches

\* The timestamps at which nothing is missing.
Whole == {t \in Times : ExactAt(t)}

Reading(h) == holder[h].pc \in {"reading", "txn"}

Marks ==
    /\ gc.pc = "publish" => durableMark = gc.horizon /\ mark < gc.horizon
    /\ gc.pc # "publish" => durableMark = mark
    /\ gc.pc = "persist" => mark < gc.horizon
    /\ gc.pc \in {"pins", "branches", "open", "scan"} => gc.horizon <= mark

Guarded ==
    /\ gc.pc \in {"branches", "open", "scan"} =>
         \A h \in Holders \ late : Reading(h) => gc.horizon <= holder[h].ts
    /\ gc.pc \in {"open", "scan"} =>
         \A b \in Branches \ late : branches[b] # NoTs => gc.horizon <= branches[b]

Late == \A h \in Holders : h \in late => holder[h].pc = "txn"

Covers == \A t \in Times : mark <= t => t \in Whole

PinsWhole == \A h \in Holders \ late : Reading(h) => holder[h].ts \in Whole

AnchorsWhole == \A b \in Branches \ late : branches[b] # NoTs => branches[b] \in Whole

Drawn == \A w \in Writers : writer[w].pc # "idle" => writer[w].ts > 0

GcInv == Typed /\ Marks /\ Guarded /\ Late /\ Covers /\ PinsWhole /\ AnchorsWhole /\ Drawn

-----------------------------------------------------------------------------
(* Least and greatest elements.                                            *)

\* A non-empty set of naturals has a least element.
LEMMA LeastNat ==
  ASSUME NEW S, S \subseteq Nat, S # {}
  PROVE  \E x \in S : \A y \in S : x <= y
  <1>1. PICK x \in S : \A y \in S : ~(<<y, x>> \in OpToRel(<, Nat))
    BY NatLessThanWellFounded, WFMin, Zenon
  <1>2. \A y \in S : y < x => <<y, x>> \in OpToRel(<, Nat) BY DEF OpToRel
  <1>3. \A y \in S : ~(y < x) BY <1>1, <1>2, Zenon
  <1>4. \A y \in S : x <= y BY <1>3
  <1> QED BY <1>4

\* Min of a non-empty set of naturals.
LEMMA MinNat ==
  ASSUME NEW S, S \subseteq Nat, S # {}
  PROVE  Min(S) \in S /\ \A x \in S : Min(S) <= x
  BY LeastNat DEF Min

\* Max of a non-empty set of timestamps.
LEMMA MaxTime ==
  ASSUME NEW S, S \subseteq Times, S # {}
  PROVE  Max(S) \in S /\ \A x \in S : x <= Max(S)
  <1>1. MaxClock \in Nat BY BoundsAssumption
  <1> DEFINE T == {MaxClock - x : x \in S}
  <1>2. \A x \in S : x \in Nat /\ MaxClock - x \in Nat BY <1>1 DEF Times
  <1>3. T \subseteq Nat /\ T # {} BY <1>2
  <1>4. PICK t \in T : \A y \in T : t <= y BY <1>3, LeastNat
  <1>5. PICK m \in S : t = MaxClock - m BY <1>4
  <1>6. \A x \in S : m >= x
    <2> SUFFICES ASSUME NEW x \in S PROVE m >= x
        OBVIOUS
    <2>1. t <= MaxClock - x BY <1>4
    <2> QED BY <1>1, <1>2, <1>5, <2>1
  <1> QED BY <1>6 DEF Max

\* Newest is the greatest member at or before t, or NoTs.
LEMMA NewestIs ==
  ASSUME NEW S \in SUBSET Times, NEW t \in Times
  PROVE  /\ Newest(S, t) \in Times
         /\ Newest(S, t) = NoTs \/ (Newest(S, t) \in S /\ Newest(S, t) <= t)
         /\ \A x \in S : x <= t => x <= Newest(S, t)
  <1>1. NoTs \in Times BY BoundsAssumption DEF NoTs, Times
  <1>2. UpTo(S, t) \cup {NoTs} \subseteq Times BY <1>1 DEF UpTo
  <1>3. /\ Newest(S, t) \in UpTo(S, t) \cup {NoTs}
        /\ \A x \in UpTo(S, t) \cup {NoTs} : x <= Newest(S, t)
    BY <1>2, MaxTime DEF Newest
  <1> QED BY <1>1, <1>2, <1>3 DEF UpTo

\* What is at or before t, above all the rest and in the set, is the newest.
LEMMA NewestUnique ==
  ASSUME NEW S \in SUBSET Times, NEW t \in Times, NEW n \in Times,
         n = NoTs \/ (n \in S /\ n <= t),
         \A x \in S : x <= t => x <= n
  PROVE  Newest(S, t) = n
  <1>1. /\ Newest(S, t) \in Times
        /\ Newest(S, t) = NoTs \/ (Newest(S, t) \in S /\ Newest(S, t) <= t)
        /\ \A x \in S : x <= t => x <= Newest(S, t)
    BY NewestIs
  <1>2. Newest(S, t) <= n BY <1>1, BoundsAssumption DEF Times, NoTs
  <1>3. n <= Newest(S, t) BY <1>1, BoundsAssumption DEF Times, NoTs
  <1> QED BY <1>1, <1>2, <1>3, BoundsAssumption DEF Times

\* Adding the same timestamps to two sets with the same newest member keeps it
\* the same.
LEMMA NewestAdd ==
  ASSUME NEW S \in SUBSET Times, NEW T \in SUBSET Times, NEW A \in SUBSET Times,
         NEW t \in Times, Newest(S, t) = Newest(T, t)
  PROVE  /\ Newest(S \cup A, t) = Newest(T \cup A, t)
         /\ Newest(S \cup A, t) \in A \cup {Newest(S, t)}
  <1> DEFINE n == Newest(S, t)
             a == Newest(A, t)
             m == IF n <= a THEN a ELSE n
  <1>1. /\ n \in Times /\ (n = NoTs \/ (n \in S /\ n <= t)) /\ \A x \in S : x <= t => x <= n
        /\ (n = NoTs \/ (n \in T /\ n <= t)) /\ \A x \in T : x <= t => x <= n
    BY NewestIs
  <1>2. a \in Times /\ (a = NoTs \/ (a \in A /\ a <= t)) /\ \A x \in A : x <= t => x <= a
    BY NewestIs
  <1> HIDE DEF n, a
  <1>3. \A x \in Times : x \in Nat BY DEF Times
  <1>4. m \in Times /\ n <= m /\ a <= m /\ m \in {a, n} BY <1>1, <1>2, <1>3
  <1> HIDE DEF m
  <1>5. \A x \in S \cup A : x <= t => x <= m
    <2> SUFFICES ASSUME NEW x \in S \cup A, x <= t PROVE x <= m
        OBVIOUS
    <2>1. x \in Times /\ (x <= n \/ x <= a) BY <1>1, <1>2
    <2> QED BY <1>1, <1>2, <1>3, <1>4, <2>1
  <1>6. \A x \in T \cup A : x <= t => x <= m
    <2> SUFFICES ASSUME NEW x \in T \cup A, x <= t PROVE x <= m
        OBVIOUS
    <2>1. x \in Times /\ (x <= n \/ x <= a) BY <1>1, <1>2
    <2> QED BY <1>1, <1>2, <1>3, <1>4, <2>1
  <1>7. m = NoTs \/ (m \in S \cup A /\ m <= t) BY <1>1, <1>2, <1>4
  <1>8. m = NoTs \/ (m \in T \cup A /\ m <= t) BY <1>1, <1>2, <1>4
  <1>9. Newest(S \cup A, t) = m
    <2>1. S \cup A \in SUBSET Times OBVIOUS
    <2> QED BY <1>4, <1>5, <1>7, <2>1, NewestUnique
  <1>10. Newest(T \cup A, t) = m
    <2>1. T \cup A \in SUBSET Times OBVIOUS
    <2> QED BY <1>4, <1>6, <1>8, <2>1, NewestUnique
  <1>11. m \in A \cup {n}
    <2>1. CASE m = n BY <2>1
    <2>2. CASE m = a /\ a \in A BY <2>2
    <2>3. CASE m = a /\ a = NoTs
      BY <1>1, <1>3, <1>4, <2>3 DEF NoTs
    <2> QED BY <1>2, <1>4, <2>1, <2>2, <2>3
  <1> QED BY <1>9, <1>10, <1>11 DEF n
-----------------------------------------------------------------------------
(* What a step does to the whole timestamps.                               *)

\* The individual types are the type invariant.
LEMMA TypedIsTypeOK == Typed <=> TypeOK
  <1>1. Typed => TypeOK
    BY DEF Typed, TypeOK, Chains, HolderType, WriterType, GcType
  <1>2. TypeOK => Typed
    BY DEF Typed, TypeOK, Chains, HolderType, WriterType, GcType
  <1> QED BY <1>1, <1>2

\* A step that leaves the chains alone changes nothing.
LEMMA WholeSame ==
  ASSUME UNCHANGED <<versions, index, writtenV, writtenIdx>>
  PROVE  Whole' = Whole
  BY DEF Whole, ExactAt

\* Versions written at any time, indexed or not, hide nothing.
LEMMA PutKeeps ==
  ASSUME Typed, NEW r \in Rows, NEW V \in SUBSET Times, NEW I \in SUBSET Times, I \subseteq V,
         PutVersions(r, V, I)
  PROVE  /\ versions' \in Chains /\ index' \in Chains
         /\ writtenV' \in Chains /\ writtenIdx' \in Chains
         /\ Whole \subseteq Whole'
  <1>1. /\ versions' = [versions EXCEPT ![r] = versions[r] \cup V]
        /\ index' = [index EXCEPT ![r] = index[r] \cup I]
        /\ writtenV' = [writtenV EXCEPT ![r] = writtenV[r] \cup V]
        /\ writtenIdx' = [writtenIdx EXCEPT ![r] = writtenIdx[r] \cup I]
    BY DEF PutVersions
  <1>2. /\ versions \in Chains /\ index \in Chains
        /\ writtenV \in Chains /\ writtenIdx \in Chains
    BY DEF Typed
  <1>3. /\ versions' \in Chains /\ index' \in Chains
        /\ writtenV' \in Chains /\ writtenIdx' \in Chains
    BY <1>1, <1>2 DEF Chains
  <1>4. ASSUME NEW t \in Times, ExactAt(t), NEW q \in Rows
        PROVE  /\ Newest(index'[q], t) = Newest(writtenIdx'[q], t)
               /\ Newest(index'[q], t) \in versions'[q] \cup {NoTs}
               /\ {v \in writtenV'[q] : v >= t} \subseteq versions'[q]
    <2>1. /\ Newest(index[q], t) = Newest(writtenIdx[q], t)
          /\ Newest(index[q], t) \in versions[q] \cup {NoTs}
          /\ {v \in writtenV[q] : v >= t} \subseteq versions[q]
      BY <1>4 DEF ExactAt
    <2>2. CASE q # r
      <3>1. /\ versions'[q] = versions[q] /\ index'[q] = index[q]
            /\ writtenV'[q] = writtenV[q] /\ writtenIdx'[q] = writtenIdx[q]
        BY <1>1, <1>2, <2>2 DEF Chains
      <3> QED BY <2>1, <3>1
    <2>3. CASE q = r
      <3>1. /\ versions'[q] = versions[q] \cup V /\ index'[q] = index[q] \cup I
            /\ writtenV'[q] = writtenV[q] \cup V /\ writtenIdx'[q] = writtenIdx[q] \cup I
            /\ index[q] \in SUBSET Times /\ writtenIdx[q] \in SUBSET Times
        BY <1>1, <1>2, <2>3 DEF Chains
      <3>2. /\ Newest(index[q] \cup I, t) = Newest(writtenIdx[q] \cup I, t)
            /\ Newest(index[q] \cup I, t) \in I \cup {Newest(index[q], t)}
        <4>1. Newest(index[q], t) = Newest(writtenIdx[q], t) BY <2>1
        <4> QED BY <3>1, <4>1, NewestAdd
      <3> QED BY <2>1, <3>1, <3>2
    <2> QED BY <2>2, <2>3
  <1>5. Whole \subseteq Whole' BY <1>4 DEF Whole, ExactAt
  <1> QED BY <1>3, <1>5

\* A collected row keeps everything at or above the horizon of the cycle: of
\* the versions up to it the newest survives, and so does the newest indexed.
LEMMA CollectKeeps ==
  ASSUME Typed, CollectRow
  PROVE  /\ versions' \in Chains /\ index' \in Chains
         /\ \A t \in Whole : gc.horizon <= t => t \in Whole'
  <1> DEFINE r == gc.row
             V == gc.seen[r]
             H == gc.horizon
             dead == Reclaimable(r, V, H)
  <1>1. /\ versions' = [versions EXCEPT ![r] = versions[r] \ dead]
        /\ index' = [index EXCEPT ![r] = index[r] \ dead]
        /\ UNCHANGED <<writtenV, writtenIdx>>
    BY DEF CollectRow, written
  <1>2. /\ r \in Rows /\ H \in Times /\ V \in SUBSET Times
        /\ versions \in Chains /\ index \in Chains
        /\ writtenV \in Chains /\ writtenIdx \in Chains
    BY DEF Typed, GcType, Chains
  <1>3. versions' \in Chains /\ index' \in Chains BY <1>1, <1>2 DEF Chains
  <1>4. dead \subseteq {v \in V : v <= H} \ {Newest(V, H), Newest(V \cap index[r], H)}
    BY DEF Reclaimable, UpTo
  <1> HIDE DEF r, V, H, dead
  <1>5. \A x \in Times : x \in Nat BY DEF Times
  <1>6. ASSUME NEW t \in Times, ExactAt(t), H <= t, NEW q \in Rows
        PROVE  /\ Newest(index'[q], t) = Newest(writtenIdx'[q], t)
               /\ Newest(index'[q], t) \in versions'[q] \cup {NoTs}
               /\ {v \in writtenV'[q] : v >= t} \subseteq versions'[q]
    <2>1. /\ Newest(index[q], t) = Newest(writtenIdx[q], t)
          /\ Newest(index[q], t) \in versions[q] \cup {NoTs}
          /\ {v \in writtenV[q] : v >= t} \subseteq versions[q]
      BY <1>6 DEF ExactAt
    <2>2. CASE q # r
      <3>1. versions'[q] = versions[q] /\ index'[q] = index[q]
        BY <1>1, <1>2, <2>2 DEF Chains
      <3> QED BY <1>1, <2>1, <3>1
    <2>3. CASE q = r
      <3>1. /\ versions'[q] = versions[q] \ dead /\ index'[q] = index[q] \ dead
            /\ index[q] \in SUBSET Times /\ index[q] \ dead \in SUBSET Times
            /\ V \cap index[q] \in SUBSET Times /\ writtenV[q] \in SUBSET Times
        BY <1>1, <1>2, <2>3 DEF Chains
      <3> DEFINE n == Newest(index[q], t)
                 k == Newest(V \cap index[q], H)
      <3>2. /\ n \in Times /\ (n = NoTs \/ (n \in index[q] /\ n <= t))
            /\ \A x \in index[q] : x <= t => x <= n
        BY <3>1, NewestIs
      <3>3. /\ k \in Times /\ (k = NoTs \/ (k \in V \cap index[q] /\ k <= H))
            /\ \A x \in V \cap index[q] : x <= H => x <= k
        BY <1>2, <3>1, NewestIs
      <3>4. k \notin dead BY <1>4, <2>3
      <3> HIDE DEF n, k
      <3>5. n \notin dead \/ n = NoTs
        <4> SUFFICES ASSUME n \in dead, n # NoTs PROVE FALSE
            OBVIOUS
        <4>1. n \in V /\ n <= H /\ n \in index[q] BY <1>4, <3>2
        <4>2. n <= k BY <3>3, <4>1
        <4>3. k \in Nat /\ n \in Nat /\ n > 0 /\ H \in Nat /\ t \in Nat
          BY <1>2, <1>5, <1>6, <3>2, <3>3 DEF NoTs
        <4>4. k # NoTs BY <4>2, <4>3 DEF NoTs
        <4>5. k \in index[q] /\ k <= t BY <1>6, <3>3, <4>3, <4>4
        <4>6. k <= n BY <3>2, <4>5
        <4>7. k = n BY <4>2, <4>3, <4>6
        <4> QED BY <3>4, <4>7
      <3>6. Newest(index[q] \ dead, t) = n
        <4>1. n = NoTs \/ (n \in index[q] \ dead /\ n <= t) BY <3>2, <3>5
        <4>2. \A x \in index[q] \ dead : x <= t => x <= n BY <3>2
        <4> QED BY <3>1, <3>2, <4>1, <4>2, NewestUnique
      <3>7. n \in (versions[q] \ dead) \cup {NoTs} BY <2>1, <3>5 DEF n
      <3>8. ASSUME NEW v \in writtenV[q], v >= t PROVE v \notin dead
        <4> SUFFICES ASSUME v \in dead PROVE FALSE
            OBVIOUS
        <4>1. v \in V /\ v <= H /\ v # Newest(V, H) BY <1>4
        <4>2. /\ Newest(V, H) \in Times
              /\ Newest(V, H) = NoTs \/ (Newest(V, H) \in V /\ Newest(V, H) <= H)
              /\ \A x \in V : x <= H => x <= Newest(V, H)
          BY <1>2, NewestIs
        <4>3. v \in Nat /\ t \in Nat /\ H \in Nat /\ Newest(V, H) \in Nat
          BY <1>2, <1>5, <1>6, <3>1, <4>2
        <4>4. v = H BY <1>6, <3>8, <4>1, <4>3
        <4>5. H <= Newest(V, H) /\ Newest(V, H) <= H
          BY <4>1, <4>2, <4>3, <4>4 DEF NoTs
        <4> QED BY <4>1, <4>3, <4>4, <4>5
      <3> QED BY <1>1, <2>1, <3>1, <3>6, <3>7, <3>8 DEF n
    <2> QED BY <2>2, <2>3
  <1>7. \A t \in Whole : H <= t => t \in Whole' BY <1>6 DEF Whole, ExactAt
  <1> QED BY <1>3, <1>7 DEF H
-----------------------------------------------------------------------------
(* Initial state, writers and readers.                                     *)

\* Before anything is collected every timestamp is whole.
LEMMA GcInit == Init => GcInv
  <1> SUFFICES ASSUME Init PROVE GcInv
      OBVIOUS
  <1> USE DEF Init
  <1>1. 0 \in Times /\ 1 \in Times /\ 1 \in Rows /\ NoTs \in Times
    BY BoundsAssumption, NumRowsAssumption DEF Times, Rows, NoTs
  <1>2. versions \in Chains BY <1>1 DEF Chains
  <1>3. IdleHolder \in HolderType /\ IdleWriter \in WriterType /\ IdleGc \in GcType
    BY <1>1 DEF IdleHolder, HolderType, IdleWriter, WriterType, IdleGc, GcType, Chains
  <1>4. Typed
    BY <1>1, <1>2, <1>3, BoundsAssumption DEF Typed
  <1>5. Whole = Times
    <2> SUFFICES ASSUME NEW t \in Times PROVE ExactAt(t)
        BY DEF Whole
    <2>1. ASSUME NEW r \in Rows
          PROVE  Newest(index[r], t) \in versions[r] \cup {NoTs}
      <3>1. index[r] \in SUBSET Times /\ index[r] = versions[r] BY <1>2 DEF Chains
      <3> QED BY <3>1, NewestIs
    <2> QED BY <2>1 DEF ExactAt
  <1>6. /\ gc.pc = "idle" /\ \A h \in Holders : holder[h].pc = "idle"
        /\ \A w \in Writers : writer[w].pc = "idle"
    BY DEF IdleGc, IdleHolder, IdleWriter
  <1>7. Marks /\ Guarded /\ Late BY <1>6 DEF Marks, Guarded, Late
  <1>8. Covers /\ PinsWhole /\ AnchorsWhole /\ Drawn
    BY <1>5, <1>6 DEF Covers, PinsWhole, AnchorsWhole, Drawn, Reading
  <1> QED BY <1>4, <1>7, <1>8 DEF GcInv

\* A step that leaves the collector, the pins and the anchors alone, and hides
\* nothing, keeps the invariant.
LEMMA WriterFrame ==
  ASSUME GcInv, Typed', Drawn', Whole \subseteq Whole',
         UNCHANGED <<durableMark, mark, branches, holder, gc, late>>
  PROVE  GcInv'
  <1> USE DEF GcInv
  <1>1. Marks' /\ Guarded' /\ Late' BY DEF Marks, Guarded, Late, Reading
  <1>2. Covers' /\ PinsWhole' /\ AnchorsWhole' BY DEF Covers, PinsWhole, AnchorsWhole, Reading
  <1> QED BY <1>1, <1>2

\* A fresh timestamp is a timestamp above 0.
LEMMA TickTime ==
  ASSUME Typed, Tick
  PROVE  clock' \in Times /\ clock' > 0
  <1>1. clock \in 0 .. MaxClock /\ MaxClock \in Nat BY BoundsAssumption DEF Typed, Times
  <1> QED BY <1>1 DEF Tick, Times

\* Commits keep the invariant, whenever their batch is written and their
\* snapshot registered.
LEMMA WriterInv ==
  ASSUME GcInv, NEW w \in Writers,
         \/ \E r \in Rows : AllocCommit(w, r)
         \/ ApplyTxn(w) \/ ApplyUpdate(w) \/ ApplyInsert(w) \/ RegisterSnapshot(w)
  PROVE  GcInv'
  <1>1. /\ Typed /\ Drawn /\ writer \in [Writers -> WriterType] /\ writer[w] \in WriterType
        /\ IdleWriter \in WriterType
    BY NumRowsAssumption, BoundsAssumption
       DEF GcInv, Typed, IdleWriter, WriterType, Rows, Times, NoTs
  <1>2. writer[w].ts \in Times /\ writer[w].row \in Rows BY <1>1 DEF WriterType
  <1>3. UNCHANGED <<durableMark, mark, branches, holder, gc, late, anchors, aged, cursor, faults>>
    BY DEF AllocCommit, ApplyTxn, ApplyUpdate, ApplyInsert, RegisterSnapshot, collector
  <1>4. CASE \E r \in Rows : AllocCommit(w, r)
    <2>1. PICK r \in Rows : AllocCommit(w, r) BY <1>4
    <2>2. /\ Tick
          /\ writer' = [writer EXCEPT ![w] = [pc |-> "alloc", ts |-> clock', row |-> r]]
          /\ UNCHANGED <<versions, index, registered, writtenV, writtenIdx>>
      BY <2>1 DEF AllocCommit, store, written
    <2>3. clock' \in Times /\ clock' > 0 BY <1>1, <2>2, TickTime
    <2>4. writer' \in [Writers -> WriterType] BY <1>1, <2>2, <2>3 DEF WriterType
    <2>5. Typed' BY <1>1, <1>3, <2>2, <2>3, <2>4 DEF Typed
    <2>6. Drawn' BY <1>1, <2>2, <2>3 DEF Drawn
    <2>7. Whole \subseteq Whole' BY <2>2, WholeSame
    <2> QED BY <1>3, <2>5, <2>6, <2>7, WriterFrame
  <1>5. CASE RegisterSnapshot(w)
    <2>1. /\ registered' = registered \cup {writer[w].ts}
          /\ writer' = [writer EXCEPT ![w] = IdleWriter]
          /\ UNCHANGED <<clock, versions, index, writtenV, writtenIdx>>
      BY <1>5 DEF RegisterSnapshot, written
    <2>2. writer' \in [Writers -> WriterType] BY <1>1, <2>1
    <2>3. Typed' BY <1>1, <1>2, <1>3, <2>1, <2>2 DEF Typed
    <2>4. Drawn' BY <1>1, <2>1 DEF Drawn, IdleWriter
    <2>5. Whole \subseteq Whole' BY <2>1, WholeSame
    <2> QED BY <1>3, <2>3, <2>4, <2>5, WriterFrame
  <1>6. CASE ApplyTxn(w) \/ ApplyUpdate(w) \/ ApplyInsert(w)
    <2>1. writer[w].pc = "alloc" BY <1>6 DEF ApplyTxn, ApplyUpdate, ApplyInsert
    <2>2. /\ writer[w].ts - 1 \in Times
          /\ {writer[w].ts} \in SUBSET Times
          /\ {writer[w].ts, writer[w].ts - 1} \in SUBSET Times
      BY <1>1, <1>2, <2>1, BoundsAssumption DEF Drawn, Times
    <2>3. \E V \in SUBSET Times, I \in SUBSET Times :
             I \subseteq V /\ PutVersions(writer[w].row, V, I)
      <3>1. CASE ApplyTxn(w) \/ ApplyInsert(w)
        BY <2>2, <3>1 DEF ApplyTxn, ApplyInsert
      <3>2. CASE ApplyUpdate(w)
        BY <2>2, <3>2 DEF ApplyUpdate
      <3> QED BY <1>6, <3>1, <3>2
    <2>4. /\ versions' \in Chains /\ index' \in Chains
          /\ writtenV' \in Chains /\ writtenIdx' \in Chains
          /\ Whole \subseteq Whole'
      BY <1>1, <1>2, <2>3, PutKeeps
    <2>5. /\ clock' = clock
          /\ registered' = registered \/ registered' = registered \cup {writer[w].ts}
          /\ \/ writer' = [writer EXCEPT ![w].pc = "applied"]
             \/ writer' = [writer EXCEPT ![w] = IdleWriter]
      BY <1>6 DEF ApplyTxn, ApplyUpdate, ApplyInsert
    <2>6. writer' \in [Writers -> WriterType] BY <1>1, <2>5 DEF WriterType
    <2>7. registered' \subseteq Times BY <1>1, <1>2, <2>5 DEF Typed
    <2>8. Typed' BY <1>1, <1>3, <2>4, <2>5, <2>6, <2>7 DEF Typed
    <2>9. Drawn'
      <3> SUFFICES ASSUME NEW v \in Writers, writer'[v].pc # "idle" PROVE writer'[v].ts > 0
          BY DEF Drawn
      <3>1. CASE v = w
        BY <1>1, <2>1, <2>5, <3>1 DEF Drawn, IdleWriter, WriterType
      <3>2. CASE v # w BY <1>1, <2>5, <3>2 DEF Drawn
      <3> QED BY <3>1, <3>2
    <2> QED BY <1>3, <2>4, <2>8, <2>9, WriterFrame
  <1> QED BY <1>4, <1>5, <1>6

\* A session that starts to read does so late, or at or above the watermark.
LEMMA HolderMoves ==
  ASSUME GcInv, NEW h \in Holders, NEW n \in HolderType,
         holder' = [holder EXCEPT ![h] = n], clock' \in Times,
         UNCHANGED <<versions, index, registered, writtenV, writtenIdx, anchors, aged>>,
         UNCHANGED <<durableMark, mark, branches, writer, gc, cursor, faults>>,
         late' \in {late, late \cup {h}, late \ {h}},
         h \in late' => n.pc = "txn",
         h \notin late' /\ n.pc \in {"reading", "txn"} => mark <= n.ts
  PROVE  GcInv'
  <1> USE DEF GcInv
  <1>1. /\ holder \in [Holders -> HolderType] /\ h \notin Branches
        /\ \A x \in Holders \cup Branches : x # h => (x \in late' <=> x \in late)
        /\ late \subseteq Holders \cup Branches
    BY NamesAssumption DEF Typed
  <1>2. holder'[h] = n /\ \A g \in Holders : g # h => holder'[g] = holder[g] BY <1>1
  <1>3. Typed'
    <2>1. holder' \in [Holders -> HolderType] BY <1>1
    <2>2. late' \subseteq Holders \cup Branches BY <1>1
    <2> QED BY <2>1, <2>2 DEF Typed
  <1>4. Whole' = Whole BY WholeSame
  <1>5. n.ts \in Times /\ mark \in Times /\ gc.horizon \in Times
    BY DEF HolderType, Typed, GcType
  <1>6. Marks' BY DEF Marks
  <1>7. Guarded'
    <2>1. ASSUME gc.pc \in {"branches", "open", "scan"}, NEW g \in Holders, g \notin late',
                 holder'[g].pc \in {"reading", "txn"}
          PROVE  gc.horizon <= holder'[g].ts
      <3>1. CASE g = h
        <4>1. mark <= n.ts BY <1>2, <2>1, <3>1
        <4>2. gc.horizon <= mark BY <2>1 DEF Marks
        <4> QED BY <1>2, <1>5, <3>1, <4>1, <4>2 DEF Times
      <3>2. CASE g # h BY <1>1, <1>2, <2>1, <3>2 DEF Guarded, Reading
      <3> QED BY <3>1, <3>2
    <2>2. \A b \in Branches : b \notin late' <=> b \notin late BY <1>1
    <2> QED BY <2>1, <2>2 DEF Guarded, Reading
  <1>8. Late' BY <1>1, <1>2 DEF Late
  <1>9. Covers' BY <1>4 DEF Covers
  <1>10. PinsWhole'
    <2> SUFFICES ASSUME NEW g \in Holders, g \notin late', holder'[g].pc \in {"reading", "txn"}
                 PROVE  holder'[g].ts \in Whole'
        BY DEF PinsWhole, Reading
    <2>1. CASE g = h BY <1>2, <1>4, <1>5, <2>1 DEF Covers
    <2>2. CASE g # h BY <1>1, <1>2, <1>4, <2>2 DEF PinsWhole, Reading
    <2> QED BY <2>1, <2>2
  <1>11. AnchorsWhole' BY <1>1, <1>4 DEF AnchorsWhole
  <1>12. Drawn' BY DEF Drawn
  <1> QED BY <1>3, <1>6, <1>7, <1>8, <1>9, <1>10, <1>11, <1>12

\* A session's steps that concern no branch keep the invariant.
LEMMA HolderInv ==
  ASSUME GcInv, NEW h \in Holders,
         \/ BeginTxn(h) \/ PinTxn(h) \/ EndRead(h) \/ ResolveAsOf(h) \/ PinAsOf(h)
         \/ CheckAsOf(h) \/ BeginBranchNow(h)
  PROVE  GcInv'
  <1> USE DEF GcInv
  <1>1. /\ Typed /\ Late /\ holder[h] \in HolderType /\ clock \in Times /\ mark \in Times
        /\ registered \subseteq Times /\ IdleHolder \in HolderType
    BY BoundsAssumption DEF Typed, IdleHolder, HolderType, Times, NoTs
  <1>2. /\ UNCHANGED <<versions, index, registered, writtenV, writtenIdx, anchors, aged>>
        /\ UNCHANGED <<durableMark, mark, branches, writer, gc, cursor, faults>>
    BY DEF BeginTxn, PinTxn, EndRead, ResolveAsOf, PinAsOf, CheckAsOf, BeginBranchNow,
       store, collector, written
  <1>3. clock' \in Times
    <2>1. clock' = clock \/ Tick
      BY DEF BeginTxn, PinTxn, EndRead, ResolveAsOf, PinAsOf, CheckAsOf, BeginBranchNow
    <2> QED BY <1>1, <2>1, TickTime
  <1>4. CASE BeginTxn(h) \/ BeginBranchNow(h)
    <2>1. /\ holder[h].pc = "idle" /\ late' = late
          /\ \/ holder' = [holder EXCEPT ![h] = [pc |-> "begun", ts |-> clock']]
             \/ holder' = [holder EXCEPT ![h] = [pc |-> "branching", ts |-> clock']]
      BY <1>4 DEF BeginTxn, BeginBranchNow
    <2>2. /\ [pc |-> "begun", ts |-> clock'] \in HolderType
          /\ [pc |-> "branching", ts |-> clock'] \in HolderType
      BY <1>3 DEF HolderType
    <2>3. h \notin late BY <1>1, <2>1 DEF Late
    <2> QED BY <1>2, <1>3, <2>1, <2>2, <2>3, HolderMoves
  <1>5. CASE PinTxn(h)
    <2>1. /\ holder[h].pc = "begun" /\ holder' = [holder EXCEPT ![h].pc = "txn"]
          /\ late' = IF holder[h].ts < mark THEN late \cup {h} ELSE late
      BY <1>5 DEF PinTxn
    <2> DEFINE n == [holder[h] EXCEPT !.pc = "txn"]
    <2>2. n \in HolderType /\ n.pc = "txn" /\ n.ts = holder[h].ts BY <1>1 DEF HolderType
    <2>3. holder' = [holder EXCEPT ![h] = n] BY <2>1
    <2>4. holder[h].ts \in Times BY <1>1 DEF HolderType
    <2>5. h \notin late' => mark <= n.ts BY <1>1, <2>1, <2>2, <2>4 DEF Times
    <2> HIDE DEF n
    <2> QED BY <1>2, <1>3, <2>1, <2>2, <2>3, <2>5, HolderMoves
  <1>6. CASE EndRead(h)
    <2>1. holder' = [holder EXCEPT ![h] = IdleHolder] /\ late' = late \ {h}
      BY <1>6 DEF EndRead
    <2> QED BY <1>1, <1>2, <1>3, <2>1, HolderMoves DEF IdleHolder
  <1>7. CASE ResolveAsOf(h)
    <2>1. PICK t \in registered : holder' = [holder EXCEPT ![h] = [pc |-> "resolved", ts |-> t]]
      BY <1>7 DEF ResolveAsOf
    <2>2. holder[h].pc = "idle" /\ late' = late BY <1>7 DEF ResolveAsOf
    <2>3. [pc |-> "resolved", ts |-> t] \in HolderType BY <1>1 DEF HolderType
    <2>4. h \notin late BY <1>1, <2>2 DEF Late
    <2> QED BY <1>2, <1>3, <2>1, <2>2, <2>3, <2>4, HolderMoves
  <1>8. CASE PinAsOf(h)
    <2>1. /\ holder[h].pc = "resolved" /\ late' = late
          /\ holder' = [holder EXCEPT ![h].pc = "pinned"]
      BY <1>8 DEF PinAsOf
    <2> DEFINE n == [holder[h] EXCEPT !.pc = "pinned"]
    <2>2. n \in HolderType /\ n.pc = "pinned" BY <1>1 DEF HolderType
    <2>3. holder' = [holder EXCEPT ![h] = n] BY <2>1
    <2>4. h \notin late BY <1>1, <2>1 DEF Late
    <2> HIDE DEF n
    <2> QED BY <1>2, <1>3, <2>1, <2>2, <2>3, <2>4, HolderMoves
  <1>9. CASE CheckAsOf(h)
    <2> DEFINE n == IF holder[h].ts >= mark THEN [holder[h] EXCEPT !.pc = "reading"]
                    ELSE IdleHolder
    <2>1. /\ holder[h].pc = "pinned" /\ late' = late
          /\ holder' = [holder EXCEPT ![h] = n]
      BY <1>9 DEF CheckAsOf, Admissible
    <2>2. /\ n \in HolderType
          /\ (n.pc = "reading" /\ n.ts = holder[h].ts /\ holder[h].ts >= mark) \/ n.pc = "idle"
      BY <1>1 DEF HolderType, IdleHolder
    <2>3. holder[h].ts \in Times BY <1>1 DEF HolderType
    <2>4. h \notin late BY <1>1, <2>1 DEF Late
    <2> HIDE DEF n
    <2>5. n.pc \in {"reading", "txn"} => mark <= n.ts BY <1>1, <2>2, <2>3 DEF Times
    <2> QED BY <1>2, <1>3, <2>1, <2>2, <2>4, <2>5, HolderMoves
  <1> QED BY <1>4, <1>5, <1>6, <1>7, <1>8, <1>9
-----------------------------------------------------------------------------
(* Branches.                                                               *)

\* An anchor is set, under a pin or freshly drawn, or removed.
LEMMA BranchMoves ==
  ASSUME GcInv, NEW b \in Branches, NEW t \in Times, clock' \in Times,
         branches' = [branches EXCEPT ![b] = t],
         holder' \in [Holders -> HolderType],
         \A h \in Holders : holder'[h] = holder[h] \/ (holder'[h].pc = "idle" /\ h \notin late),
         UNCHANGED <<versions, index, registered, writtenV, writtenIdx, anchors, aged>>,
         UNCHANGED <<durableMark, mark, writer, gc, cursor, faults>>,
         late' \in {late, late \cup {b}, late \ {b}},
         b \notin late' /\ t # NoTs =>
           /\ t \in Whole
           /\ gc.pc \in {"open", "scan"} => gc.horizon <= t
  PROVE  GcInv'
  <1> USE DEF GcInv
  <1>1. /\ branches \in [Branches -> Times] /\ b \notin Holders
        /\ \A x \in Holders \cup Branches : x # b => (x \in late' <=> x \in late)
        /\ late \subseteq Holders \cup Branches
        /\ \A h \in Holders : h \in late' <=> h \in late
    BY NamesAssumption DEF Typed
  <1>2. branches'[b] = t /\ \A c \in Branches : c # b => branches'[c] = branches[c] BY <1>1
  <1>3. Typed'
    <2>1. branches' \in [Branches -> Times] BY <1>1
    <2>2. late' \subseteq Holders \cup Branches BY <1>1
    <2> QED BY <2>1, <2>2 DEF Typed
  <1>4. Whole' = Whole BY WholeSame
  <1>5. Marks' BY DEF Marks
  <1>6. Guarded'
    <2>1. \A h \in Holders \ late' : holder'[h].pc \in {"reading", "txn"} =>
            holder'[h] = holder[h] /\ h \notin late
      BY <1>1
    <2>2. \A c \in Branches \ late' : c # b => c \notin late BY <1>1
    <2> QED BY <1>1, <1>2, <2>1, <2>2 DEF Guarded, Reading
  <1>7. Late' BY <1>1 DEF Late
  <1>8. Covers' BY <1>4 DEF Covers
  <1>9. PinsWhole' BY <1>1, <1>4 DEF PinsWhole, Reading
  <1>10. AnchorsWhole' BY <1>1, <1>2, <1>4 DEF AnchorsWhole
  <1>11. Drawn' BY DEF Drawn
  <1> QED BY <1>3, <1>5, <1>6, <1>7, <1>8, <1>9, <1>10, <1>11

\* Creating a branch, under a statement's pin or at the current time, and
\* dropping it.
LEMMA BranchInv ==
  ASSUME GcInv, NEW b \in Branches,
         \/ \E h \in Holders : CreateBranchAsOf(h, b) \/ CreateBranchNow(h, b)
         \/ DropBranch(b)
  PROVE  GcInv'
  <1> USE DEF GcInv
  <1>1. /\ Typed /\ Late /\ holder \in [Holders -> HolderType] /\ clock \in Times
        /\ mark \in Times /\ gc.horizon \in Times
        /\ IdleHolder \in HolderType /\ NoTs \in Times
    BY BoundsAssumption DEF Typed, IdleHolder, HolderType, Times, NoTs, GcType
  <1>2. CASE DropBranch(b)
    <2>1. /\ branches' = [branches EXCEPT ![b] = NoTs] /\ late' = late \ {b}
          /\ UNCHANGED <<versions, index, registered, writtenV, writtenIdx, anchors, aged>>
          /\ UNCHANGED <<durableMark, mark, writer, gc, cursor, faults, holder, clock>>
      BY <1>2 DEF DropBranch, store, collector, written
    <2> QED BY <1>1, <2>1, BranchMoves
  <1>3. ASSUME NEW h \in Holders, CreateBranchAsOf(h, b) PROVE GcInv'
    <2>1. /\ holder[h].pc = "reading" /\ Tick /\ branches' = [branches EXCEPT ![b] = holder[h].ts]
          /\ late' = late
          /\ UNCHANGED <<versions, index, registered, writtenV, writtenIdx, anchors, aged>>
          /\ UNCHANGED <<durableMark, mark, writer, gc, cursor, faults, holder>>
      BY <1>3 DEF CreateBranchAsOf, SetAnchor, store, collector, written
    <2>2. clock' \in Times BY <1>1, <2>1, TickTime
    <2>3. holder[h].ts \in Times BY <1>1 DEF HolderType
    <2>4. h \in Holders \ late /\ Reading(h) BY <1>1, <2>1 DEF Late, Reading
    <2>5. holder[h].ts \in Whole BY <2>4 DEF PinsWhole
    <2>6. gc.pc \in {"open", "scan"} => gc.horizon <= holder[h].ts BY <2>4 DEF Guarded
    <2> QED BY <1>1, <2>1, <2>2, <2>3, <2>5, <2>6, BranchMoves
  <1>4. ASSUME NEW h \in Holders, CreateBranchNow(h, b) PROVE GcInv'
    <2>1. /\ holder[h].pc = "branching" /\ Tick
          /\ branches' = [branches EXCEPT ![b] = holder[h].ts]
          /\ holder' = [holder EXCEPT ![h] = IdleHolder]
          /\ late' = IF holder[h].ts < mark THEN late \cup {b} ELSE late
          /\ UNCHANGED <<versions, index, registered, writtenV, writtenIdx, anchors, aged>>
          /\ UNCHANGED <<durableMark, mark, writer, gc, cursor, faults>>
      BY <1>4 DEF CreateBranchNow, SetAnchor, store, collector, written
    <2>2. clock' \in Times BY <1>1, <2>1, TickTime
    <2>3. holder[h].ts \in Times BY <1>1 DEF HolderType
    <2>4. /\ holder' \in [Holders -> HolderType] /\ h \notin late
          /\ \A g \in Holders : holder'[g] = holder[g] \/ (holder'[g].pc = "idle" /\ g \notin late)
      BY <1>1, <2>1 DEF Late, IdleHolder
    <2>5. b \notin late' => mark <= holder[h].ts BY <1>1, <2>1, <2>3 DEF Times
    <2>6. gc.pc \in {"open", "scan"} /\ mark <= holder[h].ts => gc.horizon <= holder[h].ts
      BY <1>1, <2>3 DEF Marks, Times
    <2>7. mark <= holder[h].ts => holder[h].ts \in Whole BY <2>3 DEF Covers
    <2> QED BY <2>1, <2>2, <2>3, <2>4, <2>5, <2>6, <2>7, BranchMoves
  <1> QED BY <1>2, <1>3, <1>4

-----------------------------------------------------------------------------
(* The collector.                                                          *)

\* A step of the collector, or of time, that keeps the watermark and the
\* horizon in order.
LEMMA CollectorFrame ==
  ASSUME GcInv, Typed', Marks', Guarded', Covers',
         \A t \in Whole : t \in Whole' \/ (gc.pc = "scan" /\ t < gc.horizon),
         UNCHANGED <<holder, branches, late, writer>>
  PROVE  GcInv'
  <1> USE DEF GcInv
  <1>1. Late' /\ Drawn' BY DEF Late, Drawn
  <1>2. /\ \A h \in Holders : holder[h].ts \in Nat
        /\ \A b \in Branches : branches[b] \in Nat
        /\ gc.horizon \in Nat
    BY DEF Typed, HolderType, GcType, Times
  <1>3. PinsWhole'
    <2> SUFFICES ASSUME NEW h \in Holders \ late, Reading(h)
                 PROVE  holder[h].ts \in Whole'
        BY DEF PinsWhole, Reading
    <2>1. gc.pc = "scan" => gc.horizon <= holder[h].ts BY DEF Guarded
    <2>2. holder[h].ts \in Whole BY DEF PinsWhole
    <2> QED BY <1>2, <2>1, <2>2
  <1>4. AnchorsWhole'
    <2> SUFFICES ASSUME NEW b \in Branches \ late, branches[b] # NoTs
                 PROVE  branches[b] \in Whole'
        BY DEF AnchorsWhole
    <2>1. gc.pc = "scan" => gc.horizon <= branches[b] BY DEF Guarded
    <2>2. branches[b] \in Whole BY DEF AnchorsWhole
    <2> QED BY <1>2, <2>1, <2>2
  <1> QED BY <1>1, <1>3, <1>4

\* The cycle that is not running, or just starting, with no horizon that
\* anything could be below.
LEMMA CycleTypes ==
  ASSUME Typed
  PROVE  /\ IdleGc \in GcType /\ IdleGc.pc = "idle" /\ NoTs \in Times /\ 1 \in Rows
         /\ gc.horizon \in Times /\ gc.row \in Rows /\ gc.deleted \in Nat /\ gc.seen \in Chains
         /\ mark \in Times /\ Pins \subseteq Times /\ BranchAnchors \subseteq Times
         /\ \A x \in Times : x \in Nat
  <1>1. NoTs \in Times /\ 1 \in Rows
    BY BoundsAssumption, NumRowsAssumption DEF NoTs, Times, Rows
  <1>2. IdleGc \in GcType /\ IdleGc.pc = "idle" BY <1>1 DEF IdleGc, GcType, Chains
  <1>3. Pins \subseteq Times BY DEF Pins, Pinned, Typed, HolderType
  <1>4. BranchAnchors \subseteq Times BY DEF BranchAnchors, Typed
  <1> QED BY <1>1, <1>2, <1>3, <1>4 DEF Typed, GcType, Times

\* Time passes, a cycle starts, or a cycle fails.
LEMMA CycleEndsInv ==
  ASSUME GcInv, Age \/ RunCycle \/ Vacuum \/ CycleFails
  PROVE  GcInv'
  <1> USE DEF GcInv
  <1>1. /\ UNCHANGED <<versions, index, registered, writtenV, writtenIdx, clock>>
        /\ UNCHANGED <<durableMark, mark, holder, branches, late, writer>>
    BY DEF Age, RunCycle, Vacuum, CycleFails, store, written
  <1>2. Whole' = Whole BY <1>1, WholeSame
  <1>3. Covers' BY <1>1, <1>2 DEF Covers
  <1>4. clock \in Times /\ aged \in Times /\ registered \subseteq Times /\ anchors \subseteq Times
    BY DEF Typed
  <1>5. CASE Age
    <2>1. /\ Datable # {} /\ aged' = Min(Datable)
          /\ anchors' = {t \in anchors : t > aged'} /\ UNCHANGED <<gc, cursor, faults>>
      BY <1>5 DEF Age, collector
    <2>2. Datable \subseteq Times /\ Datable \subseteq Nat BY <1>4, CycleTypes DEF Datable
    <2>3. aged' \in Times BY <2>1, <2>2, MinNat
    <2>4. Typed' BY <1>1, <2>1, <2>3 DEF Typed
    <2>5. Marks' /\ Guarded' BY <1>1, <2>1 DEF Marks, Guarded, Reading
    <2> QED BY <1>1, <1>2, <1>3, <2>4, <2>5, CollectorFrame
  <1>6. CASE RunCycle \/ Vacuum
    <2>1. /\ gc.pc = "idle" /\ anchors' = anchors \cup ({clock} \ UpTo({clock}, aged))
          /\ gc' = IF aged = NoTs THEN IdleGc ELSE [IdleGc EXCEPT !.pc = "clamp", !.horizon = aged]
          /\ cursor' \in {cursor, 1} /\ UNCHANGED <<aged, faults>>
      BY <1>6 DEF RunCycle, Vacuum, RecordAnchor, EnterCycle
    <2>2. gc' \in GcType /\ gc'.pc \in {"idle", "clamp"}
      BY <1>4, <2>1, CycleTypes DEF GcType
    <2>3. anchors' \subseteq Times BY <1>4, <2>1
    <2>4. cursor' \in Rows BY <2>1, CycleTypes DEF Typed
    <2>5. Typed' BY <1>1, <2>1, <2>2, <2>3, <2>4 DEF Typed
    <2>6. Marks' /\ Guarded' BY <1>1, <2>1, <2>2 DEF Marks, Guarded
    <2> QED BY <1>1, <1>2, <1>3, <2>5, <2>6, CollectorFrame
  <1>7. CASE CycleFails
    <2>1. /\ gc.pc # "publish" /\ gc' = IdleGc /\ faults < MaxFaults /\ faults' = faults + 1
          /\ UNCHANGED <<anchors, aged, cursor>>
      BY <1>7 DEF CycleFails, Fault
    <2>2. faults' \in 0 .. MaxFaults BY <2>1, BoundsAssumption DEF Typed
    <2>3. Typed' BY <1>1, <2>1, <2>2, CycleTypes DEF Typed
    <2>4. Marks' /\ Guarded' BY <1>1, <2>1, CycleTypes DEF Marks, Guarded
    <2> QED BY <1>1, <1>2, <1>3, <2>3, <2>4, CollectorFrame
  <1> QED BY <1>5, <1>6, <1>7

\* The steps of a cycle up to the scan: the watermark is raised on disk, then
\* in memory, and both looks at the pins only lower the horizon.
LEMMA ClampInv ==
  ASSUME GcInv, \/ Clamp \/ PersistMark \/ PublishMark \/ ClampPins \/ ClampBranches \/ OpenScan
  PROVE  GcInv'
  <1> USE DEF GcInv
  <1>1. /\ UNCHANGED <<versions, index, registered, writtenV, writtenIdx, clock>>
        /\ UNCHANGED <<holder, branches, late, writer, anchors, aged, cursor, faults>>
    BY DEF Clamp, PersistMark, PublishMark, ClampPins, ClampBranches, OpenScan, store, written
  <1>2. Whole' = Whole BY <1>1, WholeSame
  <1>3. gc \in GcType /\ mark \in Times /\ durableMark \in Times /\ gc.horizon \in Times
    BY DEF Typed, GcType
  <1>4. CASE Clamp
    <2> DEFINE S == {gc.horizon} \cup Pins \cup BranchAnchors
               H == Min(S)
    <2>1. /\ gc.pc = "clamp" /\ UNCHANGED <<mark, durableMark>>
          /\ gc' = [gc EXCEPT !.horizon = H, !.pc = IF H > mark THEN "persist" ELSE "pins"]
      BY <1>4 DEF Clamp
    <2>2. S \subseteq Times /\ S \subseteq Nat /\ S # {} BY CycleTypes
    <2>3. H \in S BY <2>2, MinNat
    <2>4. H \in Times /\ H \in Nat /\ mark \in Nat BY <1>3, <2>2, <2>3, CycleTypes
    <2> HIDE DEF H, S
    <2>5. gc' \in GcType /\ gc'.horizon = H /\ gc'.pc = IF H > mark THEN "persist" ELSE "pins"
      BY <1>3, <2>1, <2>4 DEF GcType
    <2>6. Typed' BY <1>1, <2>1, <2>5 DEF Typed
    <2>7. Marks' BY <2>1, <2>4, <2>5 DEF Marks
    <2>8. Guarded' BY <2>5 DEF Guarded
    <2>9. Covers' BY <1>2, <2>1 DEF Covers
    <2> QED BY <1>1, <1>2, <2>6, <2>7, <2>8, <2>9, CollectorFrame
  <1>5. CASE PersistMark
    <2>1. /\ gc.pc = "persist" /\ durableMark' = gc.horizon /\ mark' = mark
          /\ gc' = [gc EXCEPT !.pc = "publish"]
      BY <1>5 DEF PersistMark
    <2>2. gc' \in GcType /\ gc'.horizon = gc.horizon /\ gc'.pc = "publish"
      BY <1>3, <2>1 DEF GcType
    <2>3. Typed' BY <1>1, <1>3, <2>1, <2>2 DEF Typed
    <2>4. Marks' /\ Guarded' BY <2>1, <2>2 DEF Marks, Guarded
    <2>5. Covers' BY <1>2, <2>1 DEF Covers
    <2> QED BY <1>1, <1>2, <2>3, <2>4, <2>5, CollectorFrame
  <1>6. CASE PublishMark
    <2>1. /\ gc.pc = "publish" /\ mark' = Max({mark, gc.horizon}) /\ durableMark' = durableMark
          /\ gc' = [gc EXCEPT !.pc = "pins"]
      BY <1>6 DEF PublishMark
    <2>2. gc' \in GcType /\ gc'.horizon = gc.horizon /\ gc'.pc = "pins"
      BY <1>3, <2>1 DEF GcType
    <2>3. mark < gc.horizon /\ durableMark = gc.horizon /\ mark \in Nat /\ gc.horizon \in Nat
      BY <1>3, <2>1, CycleTypes DEF Marks
    <2>4. mark' = gc.horizon
      <3>1. {mark, gc.horizon} \subseteq Times /\ {mark, gc.horizon} # {} BY <1>3
      <3>2. /\ Max({mark, gc.horizon}) \in {mark, gc.horizon}
            /\ \A x \in {mark, gc.horizon} : x <= Max({mark, gc.horizon})
        BY <3>1, MaxTime
      <3> QED BY <2>1, <2>3, <3>2
    <2>5. Typed' BY <1>1, <1>3, <2>1, <2>2, <2>4 DEF Typed
    <2>6. gc.horizon <= gc.horizon BY <2>3
    <2>7. Marks' /\ Guarded' BY <2>1, <2>2, <2>3, <2>4, <2>6 DEF Marks, Guarded
    <2>8. Covers'
      <3>1. \A t \in Times : gc.horizon <= t => mark <= t BY <2>3, CycleTypes
      <3> QED BY <1>2, <2>4, <3>1 DEF Covers
    <2> QED BY <1>1, <1>2, <2>5, <2>7, <2>8, CollectorFrame
  <1>7. CASE ClampPins
    <2> DEFINE S == {gc.horizon} \cup Pins
               H == Min(S)
    <2>1. /\ gc.pc = "pins" /\ UNCHANGED <<mark, durableMark>>
          /\ gc' = [gc EXCEPT !.pc = "branches", !.horizon = H]
      BY <1>7 DEF ClampPins
    <2>2. S \subseteq Times /\ S \subseteq Nat /\ S # {} BY CycleTypes
    <2>3. H \in S /\ \A x \in S : H <= x BY <2>2, MinNat
    <2>4. H \in Times /\ H \in Nat /\ mark \in Nat /\ gc.horizon \in Nat
      BY <1>3, <2>2, <2>3, CycleTypes
    <2>5. H <= gc.horizon BY <2>3
    <2>6. \A h \in Holders : Reading(h) => H <= holder[h].ts
      <3> SUFFICES ASSUME NEW h \in Holders, Reading(h) PROVE holder[h].ts \in S
          BY <2>3
      <3> QED BY DEF Reading, Pins, Pinned
    <2> HIDE DEF H, S
    <2>7. gc' \in GcType /\ gc'.horizon = H /\ gc'.pc = "branches"
      BY <1>3, <2>1, <2>4 DEF GcType
    <2>8. Typed' BY <1>1, <2>1, <2>7 DEF Typed
    <2>9. H <= mark BY <2>1, <2>4, <2>5 DEF Marks
    <2>10. Marks' BY <2>1, <2>7, <2>9 DEF Marks
    <2>11. Guarded' BY <1>1, <2>6, <2>7 DEF Guarded, Reading
    <2>12. Covers' BY <1>2, <2>1 DEF Covers
    <2> QED BY <1>1, <1>2, <2>8, <2>10, <2>11, <2>12, CollectorFrame
  <1>8. CASE ClampBranches
    <2> DEFINE S == {gc.horizon} \cup BranchAnchors
               H == Min(S)
    <2>1. /\ gc.pc = "branches" /\ UNCHANGED <<mark, durableMark>>
          /\ gc' = [gc EXCEPT !.pc = "open", !.horizon = H]
      BY <1>8 DEF ClampBranches
    <2>2. S \subseteq Times /\ S \subseteq Nat /\ S # {} BY CycleTypes
    <2>3. H \in S /\ \A x \in S : H <= x BY <2>2, MinNat
    <2>4. H \in Times /\ H \in Nat /\ mark \in Nat /\ gc.horizon \in Nat
      BY <1>3, <2>2, <2>3, CycleTypes
    <2>5. H <= gc.horizon BY <2>3
    <2>6. \A b \in Branches : branches[b] # NoTs => H <= branches[b]
      BY <2>3 DEF BranchAnchors
    <2>7. \A h \in Holders \ late : Reading(h) => H <= holder[h].ts
      <3> SUFFICES ASSUME NEW h \in Holders \ late, Reading(h) PROVE H <= holder[h].ts
          OBVIOUS
      <3>1. gc.horizon <= holder[h].ts BY <2>1 DEF Guarded
      <3>2. holder[h].ts \in Nat BY CycleTypes DEF Typed, HolderType
      <3> QED BY <2>4, <2>5, <3>1, <3>2
    <2> HIDE DEF H, S
    <2>8. gc' \in GcType /\ gc'.horizon = H /\ gc'.pc = "open"
      BY <1>3, <2>1, <2>4 DEF GcType
    <2>9. Typed' BY <1>1, <2>1, <2>8 DEF Typed
    <2>10. H <= mark BY <2>1, <2>4, <2>5 DEF Marks
    <2>11. Marks' BY <2>1, <2>8, <2>10 DEF Marks
    <2>12. Guarded' BY <1>1, <2>6, <2>7, <2>8 DEF Guarded, Reading
    <2>13. Covers' BY <1>2, <2>1 DEF Covers
    <2> QED BY <1>1, <1>2, <2>9, <2>11, <2>12, <2>13, CollectorFrame
  <1>9. CASE OpenScan
    <2>1. /\ gc.pc = "open" /\ UNCHANGED <<mark, durableMark>>
          /\ gc' = [gc EXCEPT !.pc = "scan", !.row = cursor, !.seen = versions]
      BY <1>9 DEF OpenScan
    <2>2. gc' \in GcType /\ gc'.horizon = gc.horizon /\ gc'.pc = "scan"
      BY <1>3, <2>1 DEF GcType, Typed
    <2>3. Typed' BY <1>1, <2>1, <2>2 DEF Typed
    <2>4. Marks' /\ Guarded' BY <1>1, <2>1, <2>2 DEF Marks, Guarded, Reading
    <2>5. Covers' BY <1>2, <2>1 DEF Covers
    <2> QED BY <1>1, <1>2, <2>3, <2>4, <2>5, CollectorFrame
  <1> QED BY <1>4, <1>5, <1>6, <1>7, <1>8, <1>9

\* A row is collected: what is lost is below the horizon of the cycle.
LEMMA CollectInv ==
  ASSUME GcInv, CollectRow
  PROVE  GcInv'
  <1> USE DEF GcInv
  <1> DEFINE r == gc.row
             dead == Reclaimable(r, gc.seen[r], gc.horizon)
             deleted == gc.deleted + Cardinality(dead)
  <1>1. /\ gc.pc = "scan"
        /\ gc' = IF Rest(r) = {} \/ deleted >= MaxPerCycle THEN IdleGc
                 ELSE [gc EXCEPT !.row = Min(Rest(r)), !.deleted = deleted]
        /\ cursor' = NextCursor(r, deleted)
        /\ UNCHANGED <<registered, writtenV, writtenIdx, clock, mark, durableMark>>
        /\ UNCHANGED <<holder, branches, late, writer, anchors, aged, faults>>
    BY DEF CollectRow, written
  <1>2. /\ versions' \in Chains /\ index' \in Chains
        /\ \A t \in Whole : gc.horizon <= t => t \in Whole'
    BY CollectKeeps
  <1>3. deleted \in Nat
    <2>1. dead \subseteq Times
      <3>1. gc.seen[r] \subseteq Times BY CycleTypes DEF Chains
      <3> QED BY <3>1 DEF Reclaimable, UpTo
    <2>2. IsFiniteSet(Times) BY BoundsAssumption, FS_Interval DEF Times
    <2>3. IsFiniteSet(dead) BY <2>1, <2>2, FS_Subset
    <2>4. Cardinality(dead) \in Nat BY <2>3, FS_CardinalityType
    <2> QED BY <2>4, CycleTypes
  <1>4. Rest(r) \subseteq Rows /\ Rest(r) \subseteq Nat BY DEF Rest, Rows
  <1>5. Rest(r) # {} => Min(Rest(r)) \in Rows BY <1>4, MinNat
  <1>6. cursor' \in Rows BY <1>1, <1>5, CycleTypes DEF NextCursor, Typed
  <1>7. /\ gc' \in GcType
        /\ gc'.pc = "idle" \/ (gc'.pc = "scan" /\ gc'.horizon = gc.horizon)
    <2>1. gc \in GcType BY DEF Typed
    <2> HIDE DEF deleted, r
    <2> QED BY <1>1, <1>3, <1>5, <2>1, CycleTypes DEF GcType
  <1>8. Typed' BY <1>1, <1>2, <1>6, <1>7 DEF Typed
  <1>9. gc.horizon \in Nat /\ mark \in Nat /\ gc.horizon <= mark /\ durableMark = mark
    BY <1>1, CycleTypes DEF Marks
  <1>10. \A t \in Times : t \in Nat BY CycleTypes
  <1>11. Marks'
    <2>1. CASE gc'.pc = "idle" BY <1>1, <1>9, <2>1 DEF Marks
    <2>2. CASE gc'.pc = "scan" /\ gc'.horizon = gc.horizon BY <1>1, <1>9, <2>2 DEF Marks
    <2> QED BY <1>7, <2>1, <2>2
  <1>12. Guarded'
    <2>1. CASE gc'.pc = "idle" BY <2>1 DEF Guarded
    <2>2. CASE gc'.pc = "scan" /\ gc'.horizon = gc.horizon
      BY <1>1, <2>2 DEF Guarded, Reading
    <2> QED BY <1>7, <2>1, <2>2
  <1>13. Covers'
    <2> SUFFICES ASSUME NEW t \in Times, mark <= t PROVE t \in Whole'
        BY <1>1 DEF Covers
    <2>1. gc.horizon <= t BY <1>9, <1>10
    <2> QED BY <1>2, <2>1 DEF Covers
  <1>14. \A t \in Whole : t \in Whole' \/ (gc.pc = "scan" /\ t < gc.horizon)
    <2>1. \A t \in Whole : t \in Nat BY <1>10 DEF Whole
    <2> QED BY <1>1, <1>2, <1>9, <2>1
  <1> QED BY <1>1, <1>8, <1>11, <1>12, <1>13, <1>14, CollectorFrame

\* A restart comes back with the watermark on disk, which covers everything
\* that was deleted.
LEMMA RestartInv ==
  ASSUME GcInv, Restart
  PROVE  GcInv'
  <1> USE DEF GcInv
  <1>1. /\ faults < MaxFaults /\ faults' = faults + 1
        /\ clock' = Max(registered \cup {durableMark, 1}) /\ mark' = durableMark
        /\ holder' = [h \in Holders |-> IdleHolder] /\ writer' = [w \in Writers |-> IdleWriter]
        /\ gc' = IdleGc /\ cursor' = 1 /\ late' = late \ Holders
        /\ UNCHANGED <<versions, index, registered, writtenV, writtenIdx, anchors, aged>>
        /\ UNCHANGED <<durableMark, branches>>
    BY DEF Restart, Fault, SeedClock, store, written
  <1>2. Whole' = Whole BY <1>1, WholeSame
  <1>3. durableMark \in Times /\ mark \in Times /\ mark <= durableMark
    <2>1. durableMark \in Nat /\ mark \in Nat BY CycleTypes DEF Typed
    <2> QED BY <2>1 DEF Marks, Typed
  <1>4. clock' \in Times
    <2>1. 1 \in Times BY BoundsAssumption DEF Times
    <2>2. registered \cup {durableMark, 1} \subseteq Times BY <1>3, <2>1 DEF Typed
    <2> QED BY <1>1, <2>2, MaxTime
  <1>5. faults' \in 0 .. MaxFaults BY <1>1, BoundsAssumption DEF Typed
  <1>6. IdleHolder \in HolderType /\ IdleWriter \in WriterType
    BY CycleTypes DEF IdleHolder, HolderType, IdleWriter, WriterType
  <1>7. /\ holder' \in [Holders -> HolderType] /\ writer' \in [Writers -> WriterType]
        /\ gc' \in GcType /\ cursor' \in Rows
    BY <1>1, <1>6, CycleTypes
  <1>8. Typed' BY <1>1, <1>4, <1>5, <1>7 DEF Typed
  <1>9. gc'.pc = "idle" BY <1>1, CycleTypes
  <1>10. Marks' /\ Guarded' BY <1>1, <1>9 DEF Marks, Guarded
  <1>11. Late' /\ PinsWhole' BY <1>1 DEF Late, PinsWhole, Reading, IdleHolder
  <1>12. Covers'
    <2>1. \A t \in Times : durableMark <= t => mark <= t
      <3>1. durableMark \in Nat /\ mark \in Nat /\ \A t \in Times : t \in Nat
        BY CycleTypes DEF Typed
      <3> QED BY <1>3, <3>1
    <2> QED BY <1>1, <1>2, <2>1 DEF Covers
  <1>13. AnchorsWhole' BY <1>1, <1>2, NamesAssumption DEF AnchorsWhole
  <1>14. Drawn' BY <1>1 DEF Drawn, IdleWriter
  <1> QED BY <1>8, <1>10, <1>11, <1>12, <1>13, <1>14

-----------------------------------------------------------------------------
(* What follows for every behaviour.                                       *)

\* Every step keeps the invariant.
LEMMA GcStep == GcInv /\ [Next]_vars => GcInv'
  <1> SUFFICES ASSUME GcInv, [Next]_vars PROVE GcInv'
      OBVIOUS
  <1>1. CASE Next
    BY <1>1, WriterInv, HolderInv, BranchInv, CycleEndsInv, ClampInv, CollectInv, RestartInv
       DEF Next, CollectorStep
  <1>2. CASE UNCHANGED vars
    <2>1. /\ UNCHANGED <<versions, index, registered, writtenV, writtenIdx, clock, anchors, aged>>
          /\ UNCHANGED <<durableMark, mark, branches, holder, writer, gc, cursor, faults, late>>
      BY <1>2 DEF vars, store, written, collector
    <2>2. Whole' = Whole BY <2>1, WholeSame
    <2>3. Typed' /\ Drawn' BY <2>1 DEF GcInv, Typed, Drawn
    <2> QED BY <2>1, <2>2, <2>3, WriterFrame
  <1> QED BY <1>1, <1>2

\* The properties that the run checks follow from the invariant.
LEMMA GcConsequences ==
  ASSUME GcInv
  PROVE  TypeOK /\ PinnedReadsExact /\ AnchorsExact /\ DurableMarkCovers
  <1> USE DEF GcInv
  <1>1. TypeOK BY TypedIsTypeOK
  <1>2. PinnedReadsExact BY DEF PinsWhole, PinnedReadsExact, Reading, Whole
  <1>3. AnchorsExact BY DEF AnchorsWhole, AnchorsExact, Whole
  <1>4. DurableMarkCovers
    <2> SUFFICES ASSUME NEW t \in Times, t >= durableMark PROVE ExactAt(t)
        BY DEF DurableMarkCovers
    <2>1. durableMark \in Nat /\ mark \in Nat /\ t \in Nat BY CycleTypes DEF Typed
    <2>2. mark <= t BY <2>1 DEF Marks
    <2> QED BY <2>2 DEF Covers, Whole
  <1> QED BY <1>1, <1>2, <1>3, <1>4

\* The inductive invariant of garbage collection holds in every reachable state.
THEOREM GcInvariance == Spec => []GcInv
  BY GcInit, GcStep, PTL DEF Spec

\* Chains, watermarks, pins and the cycle in progress keep their types.
THEOREM GcTypeCorrect == Spec => []TypeOK
  BY GcInvariance, GcConsequences, PTL

\* run_cycle takes nothing a pinned reader needs, wherever the reader's pin and
\* its check of the watermark fall between the collector's two looks.
THEOREM PinnedReadsKept == Spec => []PinnedReadsExact
  BY GcInvariance, GcConsequences, PTL

\* run_cycle takes nothing that an active branch needs at its anchor, through
\* failed cycles and restarts.
THEOREM AnchorsKept == Spec => []AnchorsExact
  BY GcInvariance, GcConsequences, PTL

\* The watermark on disk covers every deletion at the moment it happens, so a
\* process that dies anywhere in a cycle never admits a read of a pruned chain.
THEOREM DeletionsCovered == Spec => []DurableMarkCovers
  BY GcInvariance, GcConsequences, PTL
=============================================================================
