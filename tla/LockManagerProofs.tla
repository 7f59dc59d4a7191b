------------------------- MODULE LockManagerProofs -------------------------
(***************************************************************************)
(* Proofs about LockManager, for any transactions, rows and requests: what *)
(* a guard is worth, that nothing is left behind, and that a deadlock that *)
(* the graph reports is one.                                               *)
(*                                                                         *)
(* LockInv adds to the properties                                          *)
(*   - Phases: what a transaction has in each of its states;               *)
(*   - Shaped: an entry's mode fits its holders, and a write mode has one; *)
(*   - Backed: a transaction never has more acquisitions than guards, and  *)
(*     as many unless it was swept or the entry was removed in use;        *)
(*   - Marked: the row of a write guard is in write mode;                  *)
(*   - Queued: a queued transaction still waits for that row, or is about  *)
(*     to sweep it;                                                        *)
(*   - Kept: an entry is in use or somebody is about to remove it;         *)
(*   - Edges: an edge of the wait-for graph is real as long as the         *)
(*     transaction it points to has neither ended nor been swept.          *)
(***************************************************************************)
EXTENDS LockManager, FiniteSetTheorems, SequenceTheorems, WellFoundedInduction, TLAPS

\* The places of row k in a list of guards.
On(s, k) == {i \in DOMAIN s : s[i].key = k}
Count(s, k) == Cardinality(On(s, k))

PCs == Waiting \cup {"open", "sweep", "failed", "drop", "done"}

Typed ==
    /\ DOMAIN locks \subseteq Keys
    /\ locks = [k \in DOMAIN locks |-> locks[k]]
    /\ \A k \in Keys : Entry(k) \in LockState
    /\ waitGraph \in [Txns -> SUBSET Txns]
    /\ guards \in [Txns -> Seq(Guard)]
    /\ pc \in [Txns -> PCs]
    /\ want \in [Txns -> Guard \cup {None}]
    /\ sweep \in [Txns -> SUBSET Keys]
    /\ reap \in [Txns -> Keys \cup {None}]
    /\ raced \subseteq Keys
    /\ swept \subseteq Txns

Phase(t) ==
    /\ Len(guards[t]) <= MaxGuards
    /\ pc[t] \in Waiting => want[t] \in Guard /\ Len(guards[t]) < MaxGuards
    /\ pc[t] \notin Waiting => waitGraph[t] = {}
    /\ pc[t] \in {"sweep", "failed"} => t \in swept
    /\ pc[t] = "done" => guards[t] = <<>>
    /\ reap[t] # None => pc[t] \in {"sweep", "drop"}
Phases == \A t \in Txns : Phase(t)

Shape(s) ==
    /\ Holders(s) = {} <=> s.mode = "Free"
    /\ s.mode = "Write" => \A t, u \in Holders(s) : t = u
Shaped == \A k \in Keys : Shape(Entry(k))

Backed ==
    \A t \in Txns, k \in Keys :
      /\ Entry(k).count[t] <= Count(guards[t], k)
      /\ t \notin swept /\ k \notin raced =>
           Entry(k).count[t] = Count(guards[t], k)

Marked ==
    \A t \in Txns \ swept, k \in Keys \ raced : \A i \in DOMAIN guards[t] :
      guards[t][i] = [key |-> k, mode |-> "Write"] => Entry(k).mode = "Write"

Queued ==
    \A t \in Txns, k \in Keys : t \in Entry(k).waiters =>
      \/ pc[t] \in Waiting /\ want[t].key = k
      \/ pc[t] = "sweep" /\ k \in sweep[t]

Kept == \A k \in DOMAIN locks : Unused(Entry(k)) => \E t \in Txns : reap[t] = k

\* v holds the row u waits for, and keeps u from it.
Blocks(u, v) ==
    /\ u # v /\ Entry(want[u].key).count[v] > 0
    /\ want[u].mode = "Read" => Entry(want[u].key).mode = "Write"
Edges ==
    \A u, v \in Txns :
      pc[u] \in Waiting /\ v \in waitGraph[u] /\ v \in Using \ swept
        /\ want[u].key \notin raced => Blocks(u, v)

LockInv == Typed /\ Phases /\ Shaped /\ Backed /\ Marked /\ Queued /\ Kept /\ Edges
(***************************************************************************)
(* Lists of guards                                                         *)
(***************************************************************************)
\* The guards on a row are finitely many, no more than the list has, and
\* there are some exactly when the list has one for the row.
LEMMA CountOf ==
    ASSUME NEW s \in Seq(Guard), NEW k
    PROVE  /\ IsFiniteSet(On(s, k)) /\ Count(s, k) \in Nat
           /\ Count(s, k) <= Len(s)
           /\ Count(s, k) = 0 <=> On(s, k) = {}
<1> DEFINE N == 1 .. Len(s)
<1>1. Len(s) \in Nat /\ On(s, k) \in SUBSET N
  BY LenProperties DEF On
<1>2. IsFiniteSet(N) /\ Cardinality(N) = Len(s)
  <2>1. 1 \in Int /\ Len(s) \in Int
    BY <1>1
  <2>2. /\ IsFiniteSet(N)
        /\ Cardinality(N) = IF 1 > Len(s) THEN 0 ELSE Len(s) - 1 + 1
    BY ONLY <2>1, FS_Interval, Zenon
  <2> HIDE DEF N
  <2> QED BY <1>1, <2>2
<1> HIDE DEF N
<1>3. IsFiniteSet(On(s, k)) /\ Cardinality(On(s, k)) <= Cardinality(N)
  BY <1>1, <1>2, FS_Subset
<1>4. Cardinality(On(s, k)) \in Nat
  BY <1>3, FS_CardinalityType
<1> QED BY <1>2, <1>3, <1>4, FS_EmptySet DEF Count

\* A new guard counts for its own row.
LEMMA CountAppend ==
    ASSUME NEW s \in Seq(Guard), NEW g \in Guard, NEW k
    PROVE  Count(Append(s, g), k) = Count(s, k) + (IF g.key = k THEN 1 ELSE 0)
<1>1. /\ Append(s, g) \in Seq(Guard) /\ Len(s) \in Nat
      /\ DOMAIN Append(s, g) = 1 .. Len(s) + 1 /\ DOMAIN s = 1 .. Len(s)
      /\ \A i \in 1 .. Len(s) : Append(s, g)[i] = s[i]
      /\ Append(s, g)[Len(s) + 1] = g
  BY AppendProperties, LenProperties
<1>2. IsFiniteSet(On(s, k)) /\ Cardinality(On(s, k)) \in Nat
  BY CountOf, FS_CardinalityType
<1>3. CASE g.key = k
  <2>1. On(Append(s, g), k) = On(s, k) \cup {Len(s) + 1}
    BY <1>1, <1>3 DEF On
  <2>2. Len(s) + 1 \notin On(s, k)
    BY <1>1 DEF On
  <2> QED BY <1>2, <1>3, <2>1, <2>2, FS_AddElement DEF Count
<1>4. CASE g.key # k
  <2>1. On(Append(s, g), k) = On(s, k)
    BY <1>1, <1>4 DEF On
  <2> QED BY <1>2, <1>4, <2>1 DEF Count
<1> QED BY <1>3, <1>4

\* Dropping the oldest guard takes one off its own row.
LEMMA CountTail ==
    ASSUME NEW s \in Seq(Guard), s # <<>>, NEW k
    PROVE  /\ Head(s) \in Guard /\ Tail(s) \in Seq(Guard) /\ Len(Tail(s)) = Len(s) - 1
           /\ Count(s, k) = Count(Tail(s), k) + (IF Head(s).key = k THEN 1 ELSE 0)
<1>1. /\ Head(s) \in Guard /\ Tail(s) \in Seq(Guard)
      /\ Len(s) \in Nat /\ Len(s) > 0 /\ Len(Tail(s)) = Len(s) - 1
      /\ Head(s) = s[1]
      /\ DOMAIN s = 1 .. Len(s) /\ DOMAIN Tail(s) = 1 .. Len(s) - 1
      /\ \A i \in 1 .. Len(s) - 1 : Tail(s)[i] = s[i + 1]
  BY HeadTailProperties, LenProperties, EmptySeq
<1> DEFINE T == On(Tail(s), k)
           R == On(s, k) \ {1}
           f == [i \in T |-> i + 1]
<1>2. T \subseteq 1 .. Len(s) - 1 /\ R \subseteq 2 .. Len(s)
  BY <1>1 DEF On
<1>3. \A i \in 1 .. Len(s) - 1 : i \in T <=> i + 1 \in R
  BY <1>1 DEF On
<1>4. f \in Bijection(T, R)
  <2>1. f \in [T -> R]
    BY <1>2, <1>3
  <2>2. \A x, y \in T : f[x] = f[y] => x = y
    BY <1>1, <1>2
  <2>3. \A y \in R : \E x \in T : f[x] = y
    <3> SUFFICES ASSUME NEW y \in R PROVE \E x \in T : f[x] = y
      OBVIOUS
    <3>1. y - 1 \in 1 .. Len(s) - 1 /\ (y - 1) + 1 = y
      BY <1>1, <1>2
    <3>2. y - 1 \in T
      BY <1>3, <3>1
    <3> QED BY <3>1, <3>2
  <2> QED BY <2>1, <2>2, <2>3 DEF Bijection, Injection, Surjection, IsInjective
<1>5. IsFiniteSet(T) /\ Cardinality(T) = Count(Tail(s), k) /\ Cardinality(T) \in Nat
  BY <1>1, CountOf DEF Count
<1>6. IsFiniteSet(R) /\ Cardinality(R) = Cardinality(T)
  BY <1>4, <1>5, FS_Bijection DEF ExistsBijection
<1>7. On(s, k) = IF Head(s).key = k THEN R \cup {1} ELSE R
  BY <1>1 DEF On
<1> HIDE DEF T, R, f
<1>8. 1 \notin R
  BY DEF R
<1>9. Cardinality(On(s, k)) = Cardinality(R) + (IF Head(s).key = k THEN 1 ELSE 0)
  <2>1. Cardinality(R \cup {1}) = Cardinality(R) + 1
    BY <1>6, <1>8, FS_AddElement
  <2> QED BY <1>5, <1>6, <1>7, <2>1
<1> QED BY <1>1, <1>5, <1>6, <1>9 DEF Count
(***************************************************************************)
(* LockState: what each operation makes of an entry                        *)
(***************************************************************************)
\* The fields of an entry, and of the entry nobody has touched.
LEMMA Fields ==
    ASSUME NEW s \in LockState
    PROVE  /\ s = [count |-> s.count, mode |-> s.mode, waiters |-> s.waiters]
           /\ s.count \in [Txns -> 0 .. MaxGuards]
           /\ s.mode \in Modes \cup {"Free"}
           /\ s.waiters \subseteq Txns
           /\ \A t \in Txns : s.count[t] \in Nat /\ s.count[t] <= MaxGuards
BY LockAssumption DEF LockState

\* A fresh entry is well-formed and unused.
LEMMA Fresh ==
    /\ NewState \in LockState /\ Shape(NewState) /\ Unused(NewState)
    /\ NewState.waiters = {} /\ NewState.mode = "Free"
    /\ \A t \in Txns : NewState.count[t] = 0
<1>1. [t \in Txns |-> 0] \in [Txns -> 0 .. MaxGuards]
  BY LockAssumption
<1>2. {} \in SUBSET Txns
  OBVIOUS
<1>3. NewState \in LockState
  BY <1>1, <1>2 DEF NewState, LockState
<1>4. /\ NewState.waiters = {} /\ NewState.mode = "Free"
      /\ \A t \in Txns : NewState.count[t] = 0
  BY DEF NewState
<1>5. Holders(NewState) = {}
  BY <1>4 DEF Holders
<1> QED BY <1>3, <1>4, <1>5 DEF Shape, Unused

\* try_acquire_lock: one acquisition more, the stronger mode, out of the
\* queue; and a write mode still has a single holder.
LEMMA AfterGrant ==
    ASSUME NEW s \in LockState, NEW t \in Txns, NEW m \in Modes,
           s.count[t] < MaxGuards, Shape(s), CanAcquire(s, t, m),
           NEW n, n = RemoveWaiter(AddHolder(s, t, m), t)
    PROVE  /\ n \in LockState /\ Shape(n)
           /\ \A u \in Txns : n.count[u] = s.count[u] + (IF u = t THEN 1 ELSE 0)
           /\ n.mode = (IF s.mode = "Write" THEN "Write" ELSE m)
           /\ n.waiters = s.waiters \ {t}
<1>1. /\ n.count = [s.count EXCEPT ![t] = @ + 1]
      /\ n.mode = (IF s.mode = "Write" THEN "Write" ELSE m)
      /\ n.waiters = s.waiters \ {t}
      /\ n = [count |-> n.count, mode |-> n.mode, waiters |-> n.waiters]
  BY DEF AddHolder, RemoveWaiter, LockState
<1>2. /\ \A u \in Txns : n.count[u] = s.count[u] + (IF u = t THEN 1 ELSE 0)
      /\ n.count \in [Txns -> 0 .. MaxGuards]
  BY <1>1, Fields, LockAssumption
<1>3. n.mode \in Modes /\ n.waiters \in SUBSET Txns
  BY <1>1, Fields DEF Modes
<1>4. n \in LockState
  BY <1>1, <1>2, <1>3 DEF LockState
<1>5. Holders(n) = Holders(s) \cup {t}
  BY <1>2, Fields DEF Holders
<1>6. Shape(n)
  BY <1>1, <1>3, <1>5 DEF Shape, CanAcquire, Modes
<1> QED BY <1>1, <1>2, <1>4, <1>6

\* add_waiter: one more in the queue.
LEMMA AfterQueue ==
    ASSUME NEW s \in LockState, NEW t \in Txns, Shape(s),
           NEW n, n = AddWaiter(s, t)
    PROVE  /\ n \in LockState /\ Shape(n)
           /\ n.count = s.count /\ n.mode = s.mode
           /\ n.waiters = s.waiters \cup {t}
<1>1. /\ n.count = s.count /\ n.mode = s.mode
      /\ n.waiters = s.waiters \cup {t}
      /\ n = [count |-> n.count, mode |-> n.mode, waiters |-> n.waiters]
  BY DEF AddWaiter, LockState
<1>2. n.waiters \in SUBSET Txns
  BY <1>1, Fields
<1>3. n \in LockState
  BY <1>1, <1>2, Fields DEF LockState
<1> QED BY <1>1, <1>3 DEF Shape, Holders

\* remove_holder: no acquisition is left, and the mode is free once nobody
\* else holds the row.
LEMMA AfterRemove ==
    ASSUME NEW s \in LockState, NEW t \in Txns, Shape(s),
           NEW n, n = RemoveHolder(s, t)
    PROVE  /\ n \in LockState /\ Shape(n)
           /\ \A u \in Txns : n.count[u] = IF u = t THEN 0 ELSE s.count[u]
           /\ n.mode = (IF Holders(s) \subseteq {t} THEN "Free" ELSE s.mode)
           /\ n.waiters = s.waiters
<1>1. /\ n.count = [s.count EXCEPT ![t] = 0]
      /\ n.mode = (IF Holders(s) \subseteq {t} THEN "Free" ELSE s.mode)
      /\ n.waiters = s.waiters
      /\ n = [count |-> n.count, mode |-> n.mode, waiters |-> n.waiters]
  BY DEF RemoveHolder, LockState
<1>2. /\ \A u \in Txns : n.count[u] = IF u = t THEN 0 ELSE s.count[u]
      /\ n.count \in [Txns -> 0 .. MaxGuards]
  BY <1>1, Fields, LockAssumption
<1>3. n.mode \in Modes \cup {"Free"} /\ n.waiters \in SUBSET Txns
  BY <1>1, Fields
<1>4. n \in LockState
  BY <1>1, <1>2, <1>3 DEF LockState
<1>5. Holders(n) = Holders(s) \ {t}
  BY <1>2, Fields DEF Holders
<1>6. Shape(n)
  BY <1>1, <1>5 DEF Shape
<1> QED BY <1>1, <1>2, <1>4, <1>6

\* cleanup_transaction on one entry: neither holder nor queued.
LEMMA AfterSweep ==
    ASSUME NEW s \in LockState, NEW t \in Txns, Shape(s),
           NEW n, n = RemoveWaiter(RemoveHolder(s, t), t)
    PROVE  /\ n \in LockState /\ Shape(n)
           /\ \A u \in Txns : n.count[u] = IF u = t THEN 0 ELSE s.count[u]
           /\ n.mode = (IF Holders(s) \subseteq {t} THEN "Free" ELSE s.mode)
           /\ n.waiters = s.waiters \ {t}
<1> DEFINE r == RemoveHolder(s, t)
<1>1. /\ r \in LockState /\ Shape(r)
      /\ \A u \in Txns : r.count[u] = IF u = t THEN 0 ELSE s.count[u]
      /\ r.mode = (IF Holders(s) \subseteq {t} THEN "Free" ELSE s.mode)
      /\ r.waiters = s.waiters
  BY AfterRemove
<1>2. n = RemoveWaiter(r, t)
  OBVIOUS
<1> HIDE DEF r
<1>3. /\ n.count = r.count /\ n.mode = r.mode
      /\ n.waiters = r.waiters \ {t}
      /\ n = [count |-> n.count, mode |-> n.mode, waiters |-> n.waiters]
  BY <1>1, <1>2, Fields DEF RemoveWaiter
<1>4. n.waiters \in SUBSET Txns
  BY <1>1, <1>3, Fields
<1>5. n \in LockState
  BY <1>1, <1>3, <1>4, Fields DEF LockState
<1>6. Shape(n)
  BY <1>1, <1>3 DEF Shape, Holders
<1> QED BY <1>1, <1>3, <1>5, <1>6

\* release_once: one acquisition less, if there is one.
LEMMA AfterRelease ==
    ASSUME NEW s \in LockState, NEW t \in Txns, Shape(s),
           NEW n, n = ReleaseOnce(s, t)
    PROVE  /\ n \in LockState /\ Shape(n)
           /\ \A u \in Txns : u # t => n.count[u] = s.count[u]
           /\ n.count[t] = IF s.count[t] > 0 THEN s.count[t] - 1 ELSE 0
           /\ n.mode = (IF Holders(s) \subseteq {t} /\ s.count[t] <= 1
                        THEN "Free" ELSE s.mode)
           /\ n.waiters = s.waiters
<1>1. s.count[t] \in Nat
  BY Fields
<1>2. CASE s.count[t] > 1
  <2>1. /\ n.count = [s.count EXCEPT ![t] = @ - 1]
        /\ n.mode = s.mode /\ n.waiters = s.waiters
        /\ n = [count |-> n.count, mode |-> n.mode, waiters |-> n.waiters]
    BY <1>2, Fields DEF ReleaseOnce
  <2>2. /\ \A u \in Txns : u # t => n.count[u] = s.count[u]
        /\ n.count[t] = s.count[t] - 1
        /\ n.count \in [Txns -> 0 .. MaxGuards]
    BY <1>2, <2>1, Fields, LockAssumption
  <2>3. n \in LockState
    BY <2>1, <2>2, Fields DEF LockState
  <2>4. Holders(n) = Holders(s)
    BY <1>1, <1>2, <2>2, Fields DEF Holders
  <2>5. Shape(n)
    BY <2>1, <2>4 DEF Shape
  <2> QED BY <1>1, <1>2, <2>1, <2>2, <2>3, <2>5
<1>3. CASE ~(s.count[t] > 1)
  <2>1. n = RemoveHolder(s, t)
    BY <1>3 DEF ReleaseOnce
  <2>2. s.count[t] <= 1 /\ (s.count[t] > 0 => s.count[t] - 1 = 0)
    BY <1>1, <1>3
  <2> QED BY <2>1, <2>2, AfterRemove
<1> QED BY <1>2, <1>3
(***************************************************************************)
(* The lock table                                                          *)
(***************************************************************************)
\* Writing one entry leaves the others.
LEMMA AfterStore ==
    ASSUME Typed, NEW k \in Keys, NEW n, locks' = Store(k, n)
    PROVE  /\ DOMAIN locks' = DOMAIN locks \cup {k}
           /\ locks' = [j \in DOMAIN locks' |-> locks'[j]]
           /\ \A j \in Keys : Entry(j)' = IF j = k THEN n ELSE Entry(j)
BY DEF Store, Entry, Typed

\* Removing one entry leaves the others; the row has a fresh one.
LEMMA AfterRestrict ==
    ASSUME Typed, NEW k \in Keys, locks' = Restrict(locks, DOMAIN locks \ {k})
    PROVE  /\ DOMAIN locks' = DOMAIN locks \ {k}
           /\ locks' = [j \in DOMAIN locks' |-> locks'[j]]
           /\ \A j \in Keys : Entry(j)' = IF j = k THEN NewState ELSE Entry(j)
BY DEF Restrict, Entry, Typed

\* A row without an entry has a fresh one.
LEMMA Absent ==
    ASSUME NEW k, k \notin DOMAIN locks
    PROVE  Entry(k) = NewState
BY DEF Entry

\* Without a write to the table every entry stays.
LEMMA SameTable ==
    ASSUME UNCHANGED locks
    PROVE  /\ DOMAIN locks' = DOMAIN locks
           /\ \A j \in Keys : Entry(j)' = Entry(j)
BY DEF Entry

(***************************************************************************)
(* Every step preserves the invariant                                      *)
(***************************************************************************)
\* A transaction blocks another for as long as it stays a holder and a
\* write mode stays a write mode.
LEMMA StillBlocks ==
    ASSUME NEW u \in Txns, NEW v \in Txns, Blocks(u, v),
           want[u].key \in Keys, want'[u] = want[u],
           \A j \in Keys : j = want[u].key =>
             Entry(j)'.count[v] > 0 /\ (Entry(j).mode = "Write" => Entry(j)'.mode = "Write")
    PROVE  Blocks(u, v)'
BY DEF Blocks

\* A step that only moves a transaction on.
LEMMA MoveStep ==
    ASSUME LockInv, NEW t \in Txns, NEW q \in PCs,
           pc' = [pc EXCEPT ![t] = q],
           UNCHANGED <<locks, waitGraph, guards, want, sweep, reap, raced, swept>>,
           q = "done" => guards[t] = <<>>,
           q \in {"sweep", "failed"} => t \in swept,
           reap[t] # None => q \in {"sweep", "drop"},
           q \in Waiting => pc[t] \in Waiting,
           q \notin Waiting => waitGraph[t] = {},
           q = "open" => pc[t] = "open" \/ t \in swept,
           pc[t] \in Waiting => q \in Waiting,
           pc[t] = "sweep" => sweep[t] = {}
    PROVE  LockInv'
<1>1. /\ DOMAIN locks' = DOMAIN locks
      /\ \A j \in Keys : Entry(j)' = Entry(j)
  BY SameTable
<1>2. /\ waitGraph' = waitGraph /\ guards' = guards /\ want' = want /\ sweep' = sweep
      /\ reap' = reap /\ raced' = raced /\ swept' = swept /\ locks' = locks
  OBVIOUS
<1>3. /\ pc \in [Txns -> PCs] /\ pc' \in [Txns -> PCs] /\ pc'[t] = q
      /\ \A u \in Txns : u # t => pc'[u] = pc[u]
  BY DEF LockInv, Typed
<1>4. Typed'
  BY <1>1, <1>2, <1>3 DEF LockInv, Typed
<1>5. Phases'
  BY <1>2, <1>3 DEF LockInv, Phases, Phase
<1>6. Shaped'
  BY <1>1 DEF LockInv, Shaped
<1>7. Backed'
  BY <1>1, <1>2 DEF LockInv, Backed
<1>8. Marked'
  BY <1>1, <1>2 DEF LockInv, Marked
<1>9. Queued'
  BY <1>1, <1>2, <1>3 DEF LockInv, Queued
<1>10. Kept'
  <2>1. DOMAIN locks \subseteq Keys
    BY DEF LockInv, Typed
  <2> QED BY <1>1, <1>2, <2>1 DEF LockInv, Kept
<1>11. Edges'
  <2> SUFFICES ASSUME NEW u \in Txns, NEW v \in Txns,
                      pc'[u] \in Waiting, v \in waitGraph'[u], v \in Using', v \notin swept',
                      want'[u].key \notin raced'
               PROVE  Blocks(u, v)'
    BY DEF Edges
  <2>1. pc[u] \in Waiting /\ v \in waitGraph[u] /\ want[u].key \notin raced /\ v \notin swept
    BY <1>2, <1>3
  <2>2. v \in Using
    BY <1>2, <1>3 DEF Using
  <2>3. Blocks(u, v)
    BY <2>1, <2>2 DEF LockInv, Edges
  <2>4. want[u].key \in Keys
    BY <2>1 DEF LockInv, Phases, Phase, Guard
  <2> QED BY <1>1, <1>2, <2>3, <2>4 DEF Blocks
<1> QED BY <1>4, <1>5, <1>6, <1>7, <1>8, <1>9, <1>10, <1>11 DEF LockInv

\* put or get asks for a row.
LEMMA RequestStep ==
    ASSUME LockInv, NEW t \in Txns, NEW g \in Guard, Request(t, g)
    PROVE  LockInv'
<1> USE DEF Request
<1>1. /\ DOMAIN locks' = DOMAIN locks
      /\ \A j \in Keys : Entry(j)' = Entry(j)
  BY SameTable
<1>2. /\ waitGraph' = waitGraph /\ guards' = guards /\ sweep' = sweep
      /\ reap' = reap /\ raced' = raced /\ swept' = swept /\ locks' = locks
      /\ pc[t] = "open" /\ Len(guards[t]) < MaxGuards
  OBVIOUS
<1>3. /\ pc \in [Txns -> PCs] /\ pc' \in [Txns -> PCs] /\ pc'[t] = "try"
      /\ \A u \in Txns : u # t => pc'[u] = pc[u]
      /\ want' \in [Txns -> Guard \cup {None}] /\ want'[t] = g
      /\ \A u \in Txns : u # t => want'[u] = want[u]
  BY DEF LockInv, Typed, PCs, Waiting
<1> HIDE DEF Request
<1>4. Typed'
  BY <1>1, <1>2, <1>3 DEF LockInv, Typed
<1>5. Phases'
  BY <1>2, <1>3 DEF LockInv, Phases, Phase, Waiting
<1>6. Shaped'
  BY <1>1 DEF LockInv, Shaped
<1>7. Backed'
  BY <1>1, <1>2 DEF LockInv, Backed
<1>8. Marked'
  BY <1>1, <1>2 DEF LockInv, Marked
<1>9. Queued'
  BY <1>1, <1>2, <1>3 DEF LockInv, Queued, Waiting
<1>10. Kept'
  <2>1. DOMAIN locks \subseteq Keys
    BY DEF LockInv, Typed
  <2> QED BY <1>1, <1>2, <2>1 DEF LockInv, Kept
<1>11. Edges'
  <2> SUFFICES ASSUME NEW u \in Txns, NEW v \in Txns,
                      pc'[u] \in Waiting, v \in waitGraph'[u], v \in Using', v \notin swept',
                      want'[u].key \notin raced'
               PROVE  Blocks(u, v)'
    BY DEF Edges
  <2>1. u # t
    BY <1>2 DEF LockInv, Phases, Phase, Waiting
  <2>2. pc[u] \in Waiting /\ v \in waitGraph[u] /\ want[u].key \notin raced /\ v \notin swept
    BY <1>2, <1>3, <2>1
  <2>3. v \in Using
    BY <1>2, <1>3 DEF Using
  <2>4. Blocks(u, v)
    BY <2>2, <2>3 DEF LockInv, Edges
  <2>5. want[u].key \in Keys
    BY <2>2 DEF LockInv, Phases, Phase, Guard
  <2> QED BY <1>1, <1>3, <2>1, <2>4, <2>5 DEF Blocks
<1> QED BY <1>4, <1>5, <1>6, <1>7, <1>8, <1>9, <1>10, <1>11 DEF LockInv
\* cleanup_transaction starts: it will visit every entry there is, so also
\* the one its transaction is queued at.
LEMMA CleanupStartStep ==
    ASSUME LockInv, NEW t \in Txns, CleanupStart(t)
    PROVE  LockInv'
<1> USE DEF CleanupStart
<1>1. /\ DOMAIN locks' = DOMAIN locks
      /\ \A j \in Keys : Entry(j)' = Entry(j)
  BY SameTable
<1>2. /\ guards' = guards /\ reap' = reap /\ raced' = raced /\ locks' = locks
      /\ swept' = swept \cup {t} /\ pc[t] = "victim"
  OBVIOUS
<1>3. /\ pc \in [Txns -> PCs] /\ pc' \in [Txns -> PCs] /\ pc'[t] = "sweep"
      /\ \A u \in Txns : u # t => pc'[u] = pc[u]
      /\ want' \in [Txns -> Guard \cup {None}]
      /\ \A u \in Txns : u # t => want'[u] = want[u]
  BY DEF LockInv, Typed, PCs, Waiting
<1>4. /\ waitGraph' \in [Txns -> SUBSET Txns] /\ waitGraph'[t] = {}
      /\ \A u \in Txns : u # t => waitGraph'[u] = waitGraph[u]
  <2>1. {} \in SUBSET Txns
    OBVIOUS
  <2> QED BY <2>1 DEF LockInv, Typed
<1>5. /\ sweep' \in [Txns -> SUBSET Keys] /\ sweep'[t] = DOMAIN locks
      /\ \A u \in Txns : u # t => sweep'[u] = sweep[u]
  <2>1. DOMAIN locks \in SUBSET Keys
    BY DEF LockInv, Typed
  <2> QED BY <2>1 DEF LockInv, Typed
<1> HIDE DEF CleanupStart
<1>6. Typed'
  BY <1>1, <1>2, <1>3, <1>4, <1>5 DEF LockInv, Typed
<1>7. Phases'
  BY <1>2, <1>3, <1>4 DEF LockInv, Phases, Phase, Waiting
<1>8. Shaped'
  BY <1>1 DEF LockInv, Shaped
<1>9. Backed'
  BY <1>1, <1>2 DEF LockInv, Backed
<1>10. Marked'
  BY <1>1, <1>2 DEF LockInv, Marked
<1>11. Queued'
  <2>1. \A k \in Keys : Entry(k).waiters # {} => k \in DOMAIN locks
    BY Absent, Fresh
  <2> QED BY <1>1, <1>3, <1>5, <2>1 DEF LockInv, Queued
<1>12. Kept'
  <2>1. DOMAIN locks \subseteq Keys
    BY DEF LockInv, Typed
  <2> QED BY <1>1, <1>2, <2>1 DEF LockInv, Kept
<1>13. Edges'
  <2> SUFFICES ASSUME NEW u \in Txns, NEW v \in Txns,
                      pc'[u] \in Waiting, v \in waitGraph'[u], v \in Using', v \notin swept',
                      want'[u].key \notin raced'
               PROVE  Blocks(u, v)'
    BY DEF Edges
  <2>1. u # t /\ v # t
    BY <1>2, <1>4
  <2>2. pc[u] \in Waiting /\ v \in waitGraph[u] /\ want[u].key \notin raced /\ v \notin swept
    BY <1>2, <1>3, <1>4, <2>1
  <2>3. v \in Using
    BY <1>3, <2>1 DEF Using
  <2>4. Blocks(u, v)
    BY <2>2, <2>3 DEF LockInv, Edges
  <2>5. want[u].key \in Keys
    BY <2>2 DEF LockInv, Phases, Phase, Guard
  <2> QED BY <1>1, <1>3, <2>1, <2>4, <2>5 DEF Blocks
<1> QED BY <1>6, <1>7, <1>8, <1>9, <1>10, <1>11, <1>12, <1>13 DEF LockInv

\* try_acquire_lock grants.  A write guard of another transaction makes that
\* transaction the single holder, so nobody else can be granted the row.
LEMMA GrantStep ==
    ASSUME LockInv, NEW t \in Txns, Grant(t)
    PROVE  LockInv'
<1> DEFINE k == want[t].key
           m == want[t].mode
           s == Entry(k)
           n == RemoveWaiter(AddHolder(s, t, m), t)
<1>1. /\ pc[t] = "try" /\ want[t] \in Guard /\ k \in Keys /\ m \in Modes
      /\ Len(guards[t]) < MaxGuards
      /\ s \in LockState /\ Shape(s) /\ CanAcquire(s, t, m)
  BY DEF LockInv, Phases, Phase, Typed, Shaped, Waiting, Guard, Grant
<1>2. guards[t] \in Seq(Guard) /\ Len(guards[t]) \in Nat
  BY LenProperties DEF LockInv, Typed
<1>3. s.count[t] < MaxGuards
  <2>1. s.count[t] \in Nat /\ s.count[t] <= Count(guards[t], k)
    BY <1>1, Fields DEF LockInv, Backed
  <2>2. Count(guards[t], k) \in Nat /\ Count(guards[t], k) <= Len(guards[t])
    BY <1>2, CountOf
  <2> QED BY <1>1, <1>2, <2>1, <2>2, LockAssumption
<1>4. /\ n \in LockState /\ Shape(n)
      /\ \A u \in Txns : n.count[u] = s.count[u] + (IF u = t THEN 1 ELSE 0)
      /\ n.mode = (IF s.mode = "Write" THEN "Write" ELSE m)
      /\ n.waiters = s.waiters \ {t}
  BY <1>1, <1>3, AfterGrant
<1>5. /\ DOMAIN locks' = DOMAIN locks \cup {k}
      /\ locks' = [j \in DOMAIN locks' |-> locks'[j]]
      /\ \A j \in Keys : Entry(j)' = IF j = k THEN n ELSE Entry(j)
  <2>1. locks' = Store(k, n)
    BY DEF Grant
  <2>2. Typed
    BY DEF LockInv
  <2> HIDE DEF n
  <2> QED BY <1>1, <2>1, <2>2, AfterStore
<1>6. /\ sweep' = sweep /\ reap' = reap /\ raced' = raced /\ swept' = swept
  BY DEF Grant
<1>7. /\ pc \in [Txns -> PCs] /\ pc' \in [Txns -> PCs] /\ pc'[t] = "open"
      /\ \A u \in Txns : u # t => pc'[u] = pc[u]
      /\ want' \in [Txns -> Guard \cup {None}]
      /\ \A u \in Txns : u # t => want'[u] = want[u]
  BY DEF LockInv, Typed, PCs, Waiting, Grant
<1>8. /\ waitGraph' \in [Txns -> SUBSET Txns] /\ waitGraph'[t] = {}
      /\ \A u \in Txns : u # t => waitGraph'[u] = waitGraph[u]
  <2>1. {} \in SUBSET Txns
    OBVIOUS
  <2> QED BY <2>1 DEF LockInv, Typed, Grant
<1>9. /\ guards' \in [Txns -> Seq(Guard)]
      /\ guards'[t] = Append(guards[t], want[t])
      /\ \A u \in Txns : u # t => guards'[u] = guards[u]
  <2>1. Append(guards[t], want[t]) \in Seq(Guard)
    BY <1>1, <1>2, AppendProperties
  <2> QED BY <2>1 DEF LockInv, Typed, Grant
<1>10. /\ Len(guards'[t]) = Len(guards[t]) + 1
       /\ \A j \in Keys : Count(guards'[t], j) = Count(guards[t], j) + (IF j = k THEN 1 ELSE 0)
  <2>1. \A j \in Keys : Count(guards'[t], j) = Count(guards[t], j) + (IF want[t].key = j THEN 1 ELSE 0)
    BY <1>1, <1>2, <1>9, CountAppend
  <2>2. Len(guards'[t]) = Len(guards[t]) + 1
    BY <1>1, <1>2, <1>9, AppendProperties
  <2> QED BY <2>1, <2>2
<1>11. /\ DOMAIN guards[t] = 1 .. Len(guards[t])
       /\ DOMAIN guards'[t] = 1 .. Len(guards[t]) + 1
       /\ \A i \in DOMAIN guards[t] : guards'[t][i] = guards[t][i]
       /\ guards'[t][Len(guards[t]) + 1] = want[t]
  BY <1>1, <1>2, <1>9, AppendProperties, LenProperties
<1>12. \A u \in Txns, j \in Keys : Count(guards[u], j) \in Nat /\ Entry(j).count[u] \in Nat
  BY CountOf, Fields DEF LockInv, Typed
<1>13. /\ \A u \in Txns : s.count[u] \in Nat /\ n.count[u] \in Nat
       /\ Holders(n) = Holders(s) \cup {t}
  BY <1>1, <1>4, Fields DEF Holders
<1>14. want[t] = [key |-> k, mode |-> m]
  BY <1>1 DEF Guard
<1>15. k = want[t].key /\ s = Entry(k) /\ m = want[t].mode
  OBVIOUS
<1> HIDE DEF k, m, s, n
<1>16. Typed'
  <2>1. \A j \in Keys : Entry(j)' \in LockState
    BY <1>4, <1>5 DEF LockInv, Typed
  <2> QED BY <1>1, <1>5, <1>6, <1>7, <1>8, <1>9, <2>1 DEF LockInv, Typed
<1>17. Phases'
  <2> SUFFICES ASSUME NEW u \in Txns PROVE Phase(u)'
    BY DEF Phases
  <2>1. CASE u = t
    <3>1. Len(guards'[t]) <= MaxGuards
      BY <1>1, <1>2, <1>10, LockAssumption
    <3>2. reap[t] = None
      BY <1>1 DEF LockInv, Phases, Phase
    <3> QED BY <1>6, <1>7, <1>8, <2>1, <3>1, <3>2 DEF Phase, Waiting
  <2>2. CASE u # t
    BY <1>6, <1>7, <1>8, <1>9, <2>2 DEF LockInv, Phases, Phase
  <2> QED BY <2>1, <2>2
<1>18. Shaped'
  BY <1>4, <1>5 DEF LockInv, Shaped
<1>19. Backed'
  <2> SUFFICES ASSUME NEW u \in Txns, NEW j \in Keys
               PROVE  /\ Entry(j)'.count[u] <= Count(guards'[u], j)
                      /\ u \notin swept /\ j \notin raced =>
                           Entry(j)'.count[u] = Count(guards'[u], j)
    BY <1>6 DEF Backed
  <2>1. /\ Entry(j).count[u] <= Count(guards[u], j)
        /\ u \notin swept /\ j \notin raced => Entry(j).count[u] = Count(guards[u], j)
    BY DEF LockInv, Backed
  <2>2. Count(guards'[u], j) = Count(guards[u], j) + (IF u = t /\ j = k THEN 1 ELSE 0)
    <3>1. CASE u = t
      BY <1>10, <3>1
    <3>2. CASE u # t
      BY <1>9, <1>12, <3>2
    <3> QED BY <3>1, <3>2
  <2>3. Entry(j)'.count[u] = Entry(j).count[u] + (IF u = t /\ j = k THEN 1 ELSE 0)
    BY <1>4, <1>5, <1>12, <1>15
  <2> QED BY <1>12, <2>1, <2>2, <2>3
<1>20. Marked'
  <2> SUFFICES ASSUME NEW u \in Txns, u \notin swept, NEW j \in Keys, j \notin raced,
                      NEW i \in DOMAIN guards'[u],
                      guards'[u][i] = [key |-> j, mode |-> "Write"]
               PROVE  Entry(j)'.mode = "Write"
    BY <1>6 DEF Marked
  <2>1. CASE u = t /\ i = Len(guards[t]) + 1
    <3>1. j = k /\ m = "Write"
      BY <1>11, <1>14, <2>1
    <3> QED BY <1>4, <1>5, <3>1
  <2>2. CASE ~(u = t /\ i = Len(guards[t]) + 1)
    <3>1. i \in DOMAIN guards[u] /\ guards[u][i] = [key |-> j, mode |-> "Write"]
      BY <1>2, <1>9, <1>11, <2>2
    <3>2. Entry(j).mode = "Write"
      BY <3>1 DEF LockInv, Marked
    <3> QED BY <1>4, <1>5, <1>15, <3>2
  <2> QED BY <2>1, <2>2
<1>21. Queued'
  <2>1. pc[t] # "sweep" /\ pc[t] \in Waiting
    BY <1>1 DEF Waiting
  <2> QED BY <1>4, <1>5, <1>6, <1>7, <1>15, <2>1 DEF LockInv, Queued
<1>22. Kept'
  <2>1. Holders(n) # {}
    BY <1>13
  <2>2. DOMAIN locks \subseteq Keys
    BY DEF LockInv, Typed
  <2> QED BY <1>1, <1>5, <1>6, <2>1, <2>2 DEF LockInv, Kept, Unused
<1>23. Edges'
  <2> SUFFICES ASSUME NEW u \in Txns, NEW v \in Txns,
                      pc'[u] \in Waiting, v \in waitGraph'[u], v \in Using', v \notin swept',
                      want'[u].key \notin raced'
               PROVE  Blocks(u, v)'
    BY DEF Edges
  <2>1. u # t
    BY <1>8
  <2>2. pc[u] \in Waiting /\ v \in waitGraph[u] /\ want[u].key \notin raced /\ v \notin swept
    BY <1>6, <1>7, <1>8, <2>1
  <2>3. v \in Using
    BY <1>1, <1>7 DEF Using, Waiting
  <2>4. Blocks(u, v)
    BY <2>2, <2>3 DEF LockInv, Edges
  <2>5. want[u].key \in Keys
    BY <2>2 DEF LockInv, Phases, Phase, Guard
  <2>6. \A j \in Keys : j = want[u].key =>
          Entry(j)'.count[v] > 0 /\ (Entry(j).mode = "Write" => Entry(j)'.mode = "Write")
    <3> SUFFICES ASSUME NEW j \in Keys, j = want[u].key
                 PROVE  Entry(j)'.count[v] > 0 /\ (Entry(j).mode = "Write" => Entry(j)'.mode = "Write")
      OBVIOUS
    <3>1. Entry(j).count[v] > 0 /\ Entry(j).count[v] \in Nat
      BY <1>12, <2>4 DEF Blocks
    <3>2. n.count[v] >= s.count[v] /\ s.count[v] \in Nat /\ n.count[v] \in Nat
      BY <1>4, <1>13
    <3> QED BY <1>4, <1>5, <1>15, <3>1, <3>2
  <2>7. want'[u] = want[u]
    BY <1>7, <2>1
  <2> QED BY <2>4, <2>5, <2>6, <2>7, StillBlocks
<1> QED BY <1>16, <1>17, <1>18, <1>19, <1>20, <1>21, <1>22, <1>23 DEF LockInv
\* try_acquire_lock refuses.  The holders it points at keep the row from the
\* transaction: a reader is only refused by a writer.
LEMMA ConflictStep ==
    ASSUME LockInv, NEW t \in Txns, Conflict(t)
    PROVE  LockInv'
<1> DEFINE k == want[t].key
           m == want[t].mode
           s == Entry(k)
           n == AddWaiter(s, t)
<1>1. /\ pc[t] = "try" /\ want[t] \in Guard /\ k \in Keys /\ m \in Modes
      /\ s \in LockState /\ Shape(s) /\ ~CanAcquire(s, t, m)
  BY DEF LockInv, Phases, Phase, Typed, Shaped, Waiting, Guard, Conflict
<1>2. /\ n \in LockState /\ Shape(n)
      /\ n.count = s.count /\ n.mode = s.mode
      /\ n.waiters = s.waiters \cup {t}
  BY <1>1, AfterQueue
<1>3. /\ DOMAIN locks' = DOMAIN locks \cup {k}
      /\ locks' = [j \in DOMAIN locks' |-> locks'[j]]
      /\ \A j \in Keys : Entry(j)' = IF j = k THEN n ELSE Entry(j)
  <2>1. locks' = Store(k, n)
    BY DEF Conflict
  <2>2. Typed
    BY DEF LockInv
  <2> HIDE DEF n
  <2> QED BY <1>1, <2>1, <2>2, AfterStore
<1>4. /\ guards' = guards /\ want' = want /\ sweep' = sweep /\ reap' = reap
      /\ raced' = raced /\ swept' = swept
  BY DEF Conflict
<1>5. /\ pc \in [Txns -> PCs] /\ pc' \in [Txns -> PCs] /\ pc'[t] = "detect"
      /\ \A u \in Txns : u # t => pc'[u] = pc[u]
  BY DEF LockInv, Typed, PCs, Waiting, Conflict
<1>6. /\ waitGraph' \in [Txns -> SUBSET Txns] /\ waitGraph'[t] = Holders(s) \ {t}
      /\ \A u \in Txns : u # t => waitGraph'[u] = waitGraph[u]
  <2>1. Holders(s) \ {t} \in SUBSET Txns
    BY DEF Holders
  <2> QED BY <2>1 DEF LockInv, Typed, Conflict
<1>7. k = want[t].key /\ s = Entry(k) /\ m = want[t].mode
  OBVIOUS
<1>8. \A j \in Keys : Entry(j)'.count = Entry(j).count /\ Entry(j)'.mode = Entry(j).mode
  BY <1>1, <1>2, <1>3
<1> HIDE DEF k, m, s, n
<1>9. Typed'
  <2>1. \A j \in Keys : Entry(j)' \in LockState
    BY <1>2, <1>3 DEF LockInv, Typed
  <2> QED BY <1>1, <1>3, <1>4, <1>5, <1>6, <2>1 DEF LockInv, Typed
<1>10. Phases'
  BY <1>1, <1>4, <1>5, <1>6 DEF LockInv, Phases, Phase, Waiting
<1>11. Shaped'
  BY <1>2, <1>3 DEF LockInv, Shaped
<1>12. Backed'
  BY <1>4, <1>8 DEF LockInv, Backed
<1>13. Marked'
  BY <1>4, <1>8 DEF LockInv, Marked
<1>14. Queued'
  <2>1. pc[t] # "sweep" /\ pc[t] \in Waiting /\ pc'[t] \in Waiting
    BY <1>1, <1>5 DEF Waiting
  <2> QED BY <1>2, <1>3, <1>4, <1>5, <1>7, <2>1 DEF LockInv, Queued
<1>15. Kept'
  <2>1. n.waiters # {}
    BY <1>2
  <2>2. DOMAIN locks \subseteq Keys
    BY DEF LockInv, Typed
  <2> QED BY <1>1, <1>3, <1>4, <2>1, <2>2 DEF LockInv, Kept, Unused
<1>16. Edges'
  <2> SUFFICES ASSUME NEW u \in Txns, NEW v \in Txns,
                      pc'[u] \in Waiting, v \in waitGraph'[u], v \in Using', v \notin swept',
                      want'[u].key \notin raced'
               PROVE  Blocks(u, v)'
    BY DEF Edges
  <2>1. Blocks(u, v) /\ want[u].key \in Keys
    <3>1. CASE u = t
      <4>1. v \in Holders(s) /\ v # t
        BY <1>6, <3>1
      <4>2. s.count[v] > 0
        BY <4>1 DEF Holders
      <4>3. m = "Read" => s.mode = "Write"
        BY <1>1, <4>1, Fields DEF CanAcquire, Shape, Modes
      <4> QED BY <1>1, <1>7, <3>1, <4>1, <4>2, <4>3 DEF Blocks
    <3>2. CASE u # t
      <4>1. pc[u] \in Waiting /\ v \in waitGraph[u] /\ want[u].key \notin raced /\ v \notin swept
        BY <1>4, <1>5, <1>6, <3>2
      <4>2. v \in Using
        BY <1>1, <1>5 DEF Using, Waiting
      <4>3. Blocks(u, v)
        BY <4>1, <4>2 DEF LockInv, Edges
      <4> QED BY <4>1, <4>3 DEF LockInv, Phases, Phase, Guard
    <3> QED BY <3>1, <3>2
  <2>2. want'[u] = want[u]
    BY <1>4
  <2>3. \A j \in Keys : j = want[u].key =>
          Entry(j)'.count[v] > 0 /\ (Entry(j).mode = "Write" => Entry(j)'.mode = "Write")
    BY <1>8, <2>1 DEF Blocks
  <2> QED BY <2>1, <2>2, <2>3, StillBlocks
<1> QED BY <1>9, <1>10, <1>11, <1>12, <1>13, <1>14, <1>15, <1>16 DEF LockInv

\* cleanup_transaction visits an entry.  Whoever else holds it keeps it, in
\* the mode it had; and an entry nobody uses any more is about to go.
LEMMA CleanupKeyStep ==
    ASSUME LockInv, NEW t \in Txns, NEW k \in Keys, CleanupKey(t, k)
    PROVE  LockInv'
<1> DEFINE s == Entry(k)
           n == RemoveWaiter(RemoveHolder(s, t), t)
<1>1. /\ pc[t] = "sweep" /\ reap[t] = None /\ t \in swept
      /\ s \in LockState /\ Shape(s)
  BY DEF LockInv, Phases, Phase, Typed, Shaped, CleanupKey
<1>2. /\ n \in LockState /\ Shape(n)
      /\ \A u \in Txns : n.count[u] = IF u = t THEN 0 ELSE s.count[u]
      /\ n.mode = (IF Holders(s) \subseteq {t} THEN "Free" ELSE s.mode)
      /\ n.waiters = s.waiters \ {t}
  BY <1>1, AfterSweep
<1>3. /\ guards' = guards /\ want' = want /\ pc' = pc /\ waitGraph' = waitGraph
      /\ raced' = raced /\ swept' = swept
  BY DEF CleanupKey
<1>4. /\ sweep' \in [Txns -> SUBSET Keys] /\ sweep'[t] = sweep[t] \ {k}
      /\ \A u \in Txns : u # t => sweep'[u] = sweep[u]
  <2>1. sweep[t] \ {k} \in SUBSET Keys
    BY DEF LockInv, Typed
  <2> QED BY <2>1 DEF LockInv, Typed, CleanupKey
<1>5. Typed
  BY DEF LockInv
<1>6. /\ DOMAIN locks' = DOMAIN locks
      /\ locks' = [j \in DOMAIN locks' |-> locks'[j]]
      /\ \A j \in Keys : j # k => Entry(j)' = Entry(j)
      /\ Entry(k)' \in LockState /\ Shape(Entry(k)')
      /\ \A u \in Txns : Entry(k)'.count[u] = IF u = t THEN 0 ELSE s.count[u]
      /\ ~(Holders(s) \subseteq {t}) => Entry(k)'.mode = s.mode
      /\ Entry(k)'.waiters = s.waiters \ {t}
      /\ reap' \in [Txns -> Keys \cup {None}]
      /\ \A u \in Txns : u # t => reap'[u] = reap[u]
      /\ k \in DOMAIN locks /\ Unused(Entry(k)') => reap'[t] = k
  <2>1. CASE k \in DOMAIN locks
    <3>1. locks[k] = s
      BY <2>1 DEF Entry
    <3>2. /\ locks' = Store(k, n)
          /\ reap' = [reap EXCEPT ![t] = IF Unused(n) THEN k ELSE None]
      BY <2>1, <3>1 DEF CleanupKey
    <3> HIDE DEF s, n
    <3>3. /\ DOMAIN locks' = DOMAIN locks \cup {k}
          /\ locks' = [j \in DOMAIN locks' |-> locks'[j]]
          /\ \A j \in Keys : Entry(j)' = IF j = k THEN n ELSE Entry(j)
      BY <1>5, <3>2, AfterStore
    <3>4. /\ reap' \in [Txns -> Keys \cup {None}]
          /\ \A u \in Txns : u # t => reap'[u] = reap[u]
          /\ Unused(n) => reap'[t] = k
      BY <3>2, <1>5 DEF Typed
    <3> QED BY <1>2, <2>1, <3>3, <3>4
  <2>2. CASE k \notin DOMAIN locks
    <3>1. locks' = locks /\ reap' = reap
      BY <2>2 DEF CleanupKey
    <3>2. DOMAIN locks' = DOMAIN locks /\ \A j \in Keys : Entry(j)' = Entry(j)
      BY <3>1, SameTable
    <3>3. s = NewState
      BY <2>2, Absent
    <3>4. \A u \in Txns : s.count[u] = 0
      BY <3>3, Fresh
    <3>5. s.waiters = {}
      BY <3>3, Fresh
    <3>6. Entry(k)' = s
      BY <3>2
    <3> HIDE DEF s, n
    <3>7. /\ Entry(k)' \in LockState /\ Shape(Entry(k)')
          /\ Entry(k)'.waiters = s.waiters \ {t}
          /\ \A u \in Txns : Entry(k)'.count[u] = IF u = t THEN 0 ELSE s.count[u]
      BY <1>1, <3>4, <3>5, <3>6
    <3> QED BY <1>5, <2>2, <3>1, <3>2, <3>6, <3>7 DEF Typed
  <2> QED BY <2>1, <2>2
<1>7. s = Entry(k)
  OBVIOUS
<1> HIDE DEF s, n
<1>8. /\ \A u \in Txns : s.count[u] \in Nat
      /\ \A u \in Txns, j \in Keys : Count(guards[u], j) \in Nat
  BY <1>1, <1>5, CountOf, Fields DEF Typed
<1>9. \A v \in Txns : v # t /\ s.count[v] > 0 => Entry(k)'.mode = s.mode
  BY <1>6 DEF Holders
<1>10. Typed'
  <2>1. \A j \in Keys : Entry(j)' \in LockState
    BY <1>5, <1>6 DEF Typed
  <2> QED BY <1>3, <1>4, <1>5, <1>6, <2>1 DEF Typed
<1>11. Phases'
  BY <1>1, <1>3, <1>6 DEF LockInv, Phases, Phase
<1>12. Shaped'
  <2>1. \A j \in Keys : Shape(Entry(j)')
    BY <1>6 DEF LockInv, Shaped
  <2> QED BY <2>1 DEF Shaped
<1>13. Backed'
  <2> SUFFICES ASSUME NEW u \in Txns, NEW j \in Keys
               PROVE  /\ Entry(j)'.count[u] <= Count(guards[u], j)
                      /\ u \notin swept /\ j \notin raced =>
                           Entry(j)'.count[u] = Count(guards[u], j)
    BY <1>3 DEF Backed
  <2>1. /\ Entry(j).count[u] <= Count(guards[u], j)
        /\ u \notin swept /\ j \notin raced => Entry(j).count[u] = Count(guards[u], j)
    BY DEF LockInv, Backed
  <2>2. CASE j = k /\ u = t
    BY <1>1, <1>6, <1>8, <2>2
  <2>3. CASE ~(j = k /\ u = t)
    <3>1. Entry(j)'.count[u] = Entry(j).count[u]
      BY <1>6, <1>7, <2>3
    <3> QED BY <2>1, <3>1
  <2> QED BY <2>2, <2>3
<1>14. Marked'
  <2> SUFFICES ASSUME NEW u \in Txns, u \notin swept, NEW j \in Keys, j \notin raced,
                      NEW i \in DOMAIN guards[u],
                      guards[u][i] = [key |-> j, mode |-> "Write"]
               PROVE  Entry(j)'.mode = "Write"
    BY <1>3 DEF Marked
  <2>1. Entry(j).mode = "Write"
    BY DEF LockInv, Marked
  <2>2. Entry(j).count[u] = Count(guards[u], j)
    BY DEF LockInv, Backed
  <2>3. i \in On(guards[u], j)
    BY DEF On
  <2>4. guards[u] \in Seq(Guard)
    BY <1>5 DEF Typed
  <2>5. Count(guards[u], j) \in Nat /\ Count(guards[u], j) # 0
    BY <2>3, <2>4, CountOf
  <2>6. Entry(j).count[u] > 0 /\ u # t
    BY <1>1, <2>2, <2>5
  <2> QED BY <1>6, <1>7, <1>9, <2>1, <2>6
<1>15. Queued'
  BY <1>3, <1>4, <1>6, <1>7 DEF LockInv, Queued
<1>16. Kept'
  <2> SUFFICES ASSUME NEW j \in Keys, j \in DOMAIN locks, Unused(Entry(j)')
               PROVE  \E u \in Txns : reap'[u] = j
    <3>1. DOMAIN locks \subseteq Keys
      BY <1>5 DEF Typed
    <3> QED BY <1>6, <3>1 DEF Kept
  <2>1. CASE j = k
    BY <1>6, <2>1
  <2>2. CASE j # k
    <3>1. PICK u \in Txns : reap[u] = j
      BY <1>6, <2>2 DEF LockInv, Kept
    <3>2. u # t
      BY <1>1, <3>1, LockAssumption
    <3> QED BY <1>6, <3>1, <3>2
  <2> QED BY <2>1, <2>2
<1>17. Edges'
  <2> SUFFICES ASSUME NEW u \in Txns, NEW v \in Txns,
                      pc'[u] \in Waiting, v \in waitGraph'[u], v \in Using', v \notin swept',
                      want'[u].key \notin raced'
               PROVE  Blocks(u, v)'
    BY DEF Edges
  <2>1. pc[u] \in Waiting /\ v \in waitGraph[u] /\ want[u].key \notin raced /\ v \notin swept
    BY <1>3
  <2>2. v \in Using /\ v # t
    BY <1>1, <1>3 DEF Using
  <2>3. Blocks(u, v)
    BY <2>1, <2>2 DEF LockInv, Edges
  <2>4. want[u].key \in Keys /\ want'[u] = want[u]
    BY <1>3, <2>1 DEF LockInv, Phases, Phase, Guard
  <2>5. \A j \in Keys : j = want[u].key =>
          Entry(j)'.count[v] > 0 /\ (Entry(j).mode = "Write" => Entry(j)'.mode = "Write")
    BY <1>6, <1>7, <1>9, <2>2, <2>3 DEF Blocks
  <2> QED BY <2>3, <2>4, <2>5, StillBlocks
<1> QED BY <1>10, <1>11, <1>12, <1>13, <1>14, <1>15, <1>16, <1>17 DEF LockInv
\* An entry is removed.  If it is in use again the row has raced; otherwise
\* no guard of a transaction that was never swept is on the row.
LEMMA RemoveEntryStep ==
    ASSUME LockInv, NEW t \in Txns, RemoveEntry(t)
    PROVE  LockInv'
<1>1. PICK k \in Keys : k = reap[t]
  BY DEF LockInv, Typed, RemoveEntry
<1>2. Typed
  BY DEF LockInv
<1>3. locks' = Restrict(locks, DOMAIN locks \ {k})
  BY <1>1 DEF RemoveEntry
<1>4. /\ DOMAIN locks' = DOMAIN locks \ {k}
      /\ locks' = [j \in DOMAIN locks' |-> locks'[j]]
      /\ \A j \in Keys : Entry(j)' = IF j = k THEN NewState ELSE Entry(j)
  BY <1>2, <1>3, AfterRestrict
<1>5. /\ guards' = guards /\ want' = want /\ pc' = pc /\ waitGraph' = waitGraph
      /\ sweep' = sweep /\ swept' = swept
      /\ raced' = IF Unused(Entry(k)) THEN raced ELSE raced \cup {k}
  BY <1>1 DEF RemoveEntry
<1>6. /\ reap' \in [Txns -> Keys \cup {None}] /\ reap'[t] = None
      /\ \A u \in Txns : u # t => reap'[u] = reap[u]
  BY <1>2 DEF Typed, RemoveEntry
<1>7. \A u \in Txns, j \in Keys : Count(guards[u], j) \in Nat /\ Entry(j).count[u] \in Nat
  BY <1>2, CountOf, Fields DEF Typed
<1>8. /\ raced \subseteq raced' /\ raced' \subseteq Keys
      /\ k \notin raced' => \A u \in Txns : Entry(k).count[u] = 0
  <2>1. Unused(Entry(k)) => \A u \in Txns : Entry(k).count[u] = 0
    BY <1>1, <1>7 DEF Unused, Holders
  <2> QED BY <1>2, <1>5, <2>1 DEF Typed
<1>9. Typed'
  <2>1. \A j \in Keys : Entry(j)' \in LockState
    BY <1>2, <1>4, Fresh DEF Typed
  <2> QED BY <1>2, <1>4, <1>5, <1>6, <1>8, <2>1 DEF Typed
<1>10. Phases'
  BY <1>5, <1>6 DEF LockInv, Phases, Phase
<1>11. Shaped'
  <2>1. \A j \in Keys : Shape(Entry(j)')
    BY <1>4, Fresh DEF LockInv, Shaped
  <2> QED BY <2>1 DEF Shaped
<1>12. Backed'
  <2> SUFFICES ASSUME NEW u \in Txns, NEW j \in Keys
               PROVE  /\ Entry(j)'.count[u] <= Count(guards[u], j)
                      /\ u \notin swept /\ j \notin raced' =>
                           Entry(j)'.count[u] = Count(guards[u], j)
    BY <1>5 DEF Backed
  <2>1. /\ Entry(j).count[u] <= Count(guards[u], j)
        /\ u \notin swept /\ j \notin raced => Entry(j).count[u] = Count(guards[u], j)
    BY DEF LockInv, Backed
  <2>2. CASE j = k
    <3>1. Entry(j)'.count[u] = 0
      BY <1>4, <2>2, Fresh
    <3> QED BY <1>7, <1>8, <2>1, <2>2, <3>1
  <2>3. CASE j # k
    BY <1>4, <1>8, <2>1, <2>3
  <2> QED BY <2>2, <2>3
<1>13. Marked'
  <2> SUFFICES ASSUME NEW u \in Txns, u \notin swept, NEW j \in Keys, j \notin raced',
                      NEW i \in DOMAIN guards[u],
                      guards[u][i] = [key |-> j, mode |-> "Write"]
               PROVE  Entry(j)'.mode = "Write"
    BY <1>5 DEF Marked
  <2>1. j \notin raced
    BY <1>8
  <2>2. Entry(j).mode = "Write" /\ Entry(j).count[u] = Count(guards[u], j)
    BY <2>1 DEF LockInv, Marked, Backed
  <2>3. i \in On(guards[u], j) /\ guards[u] \in Seq(Guard)
    BY <1>2 DEF On, Typed
  <2>4. Count(guards[u], j) # 0
    BY <2>3, CountOf
  <2>5. j # k
    BY <1>8, <2>2, <2>4
  <2> QED BY <1>4, <2>2, <2>5
<1>14. Queued'
  <2>1. \A j \in Keys : Entry(j)'.waiters \subseteq Entry(j).waiters
    BY <1>4, Fresh
  <2> QED BY <1>5, <2>1 DEF LockInv, Queued
<1>15. Kept'
  <2> SUFFICES ASSUME NEW j \in Keys, j \in DOMAIN locks, j # k, Unused(Entry(j)')
               PROVE  \E u \in Txns : reap'[u] = j
    <3>1. DOMAIN locks \subseteq Keys
      BY <1>2 DEF Typed
    <3> QED BY <1>4, <3>1 DEF Kept
  <2>1. PICK u \in Txns : reap[u] = j
    BY <1>4 DEF LockInv, Kept
  <2>2. u # t
    BY <1>1, <2>1
  <2> QED BY <1>6, <2>1, <2>2
<1>16. Edges'
  <2> SUFFICES ASSUME NEW u \in Txns, NEW v \in Txns,
                      pc'[u] \in Waiting, v \in waitGraph'[u], v \in Using', v \notin swept',
                      want'[u].key \notin raced'
               PROVE  Blocks(u, v)'
    BY DEF Edges
  <2>1. /\ pc[u] \in Waiting /\ v \in waitGraph[u] /\ want[u].key \notin raced'
        /\ want[u].key \notin raced /\ v \notin swept
    BY <1>5, <1>8
  <2>2. v \in Using
    BY <1>5 DEF Using
  <2>3. Blocks(u, v)
    BY <2>1, <2>2 DEF LockInv, Edges
  <2>4. want[u].key \in Keys /\ want'[u] = want[u]
    BY <1>5, <2>1 DEF LockInv, Phases, Phase, Guard
  <2>5. \A j \in Keys : j = want[u].key =>
          Entry(j)'.count[v] > 0 /\ (Entry(j).mode = "Write" => Entry(j)'.mode = "Write")
    <3> SUFFICES ASSUME NEW j \in Keys, j = want[u].key
                 PROVE  Entry(j)'.count[v] > 0 /\ (Entry(j).mode = "Write" => Entry(j)'.mode = "Write")
      OBVIOUS
    <3>1. Entry(j).count[v] > 0
      BY <2>3 DEF Blocks
    <3>2. j # k
      BY <1>8, <2>1, <3>1
    <3> QED BY <1>4, <3>1, <3>2
  <2> QED BY <2>3, <2>4, <2>5, StillBlocks
<1> QED BY <1>9, <1>10, <1>11, <1>12, <1>13, <1>14, <1>15, <1>16 DEF LockInv

\* A guard is dropped.  The row is freed with the last acquisition only, and
\* a stale guard (the transaction was swept) frees nothing.
LEMMA DropGuardStep ==
    ASSUME LockInv, NEW t \in Txns, DropGuard(t)
    PROVE  LockInv'
<1> DEFINE g == guards[t]
           k == Head(g).key
           s == Entry(k)
           n == ReleaseOnce(s, t)
<1>1. Typed
  BY DEF LockInv
<1>2. pc[t] = "drop" /\ reap[t] = None /\ g # <<>> /\ g \in Seq(Guard)
  BY <1>1 DEF Typed, DropGuard
<1>3. /\ Head(g) \in Guard /\ Tail(g) \in Seq(Guard) /\ Len(Tail(g)) = Len(g) - 1
      /\ Len(g) \in Nat
      /\ \A j \in Keys : Count(g, j) = Count(Tail(g), j) + (IF Head(g).key = j THEN 1 ELSE 0)
  BY <1>2, CountTail, LenProperties
<1>4. k \in Keys
  BY <1>3 DEF Guard
<1>5. s \in LockState /\ Shape(s)
  BY <1>1, <1>4 DEF LockInv, Typed, Shaped
<1>6. /\ n \in LockState /\ Shape(n)
      /\ \A u \in Txns : u # t => n.count[u] = s.count[u]
      /\ n.count[t] = IF s.count[t] > 0 THEN s.count[t] - 1 ELSE 0
      /\ n.mode = (IF Holders(s) \subseteq {t} /\ s.count[t] <= 1 THEN "Free" ELSE s.mode)
      /\ n.waiters = s.waiters
  BY <1>5, AfterRelease
<1>7. /\ want' = want /\ pc' = pc /\ sweep' = sweep /\ raced' = raced /\ swept' = swept
  BY DEF DropGuard
<1>8. /\ waitGraph' \in [Txns -> SUBSET Txns] /\ waitGraph'[t] = {}
      /\ \A u \in Txns : u # t => waitGraph'[u] = waitGraph[u]
  <2>1. {} \in SUBSET Txns
    OBVIOUS
  <2> QED BY <1>1, <2>1 DEF Typed, DropGuard
<1>9. /\ guards' \in [Txns -> Seq(Guard)] /\ guards'[t] = Tail(g)
      /\ \A u \in Txns : u # t => guards'[u] = guards[u]
  BY <1>1, <1>3 DEF Typed, DropGuard
<1>10. \A c \in Keys : c = k =>
         /\ DOMAIN locks' = DOMAIN locks
         /\ locks' = [j \in DOMAIN locks' |-> locks'[j]]
         /\ \A j \in Keys : j # c => Entry(j)' = Entry(j)
         /\ Entry(c)' \in LockState /\ Shape(Entry(c)')
         /\ \A u \in Txns : u # t => Entry(c)'.count[u] = s.count[u]
         /\ Entry(c)'.count[t] = IF s.count[t] > 0 THEN s.count[t] - 1 ELSE 0
         /\ ~(Holders(s) \subseteq {t} /\ s.count[t] <= 1) => Entry(c)'.mode = s.mode
         /\ Entry(c)'.waiters = s.waiters
         /\ reap' \in [Txns -> Keys \cup {None}]
         /\ \A u \in Txns : u # t => reap'[u] = reap[u]
         /\ s.count[t] > 0 /\ Unused(Entry(c)') => reap'[t] = c
  <2> SUFFICES ASSUME NEW c \in Keys, c = k
               PROVE  /\ DOMAIN locks' = DOMAIN locks
                      /\ locks' = [j \in DOMAIN locks' |-> locks'[j]]
                      /\ \A j \in Keys : j # c => Entry(j)' = Entry(j)
                      /\ Entry(c)' \in LockState /\ Shape(Entry(c)')
                      /\ \A u \in Txns : u # t => Entry(c)'.count[u] = s.count[u]
                      /\ Entry(c)'.count[t] = IF s.count[t] > 0 THEN s.count[t] - 1 ELSE 0
                      /\ ~(Holders(s) \subseteq {t} /\ s.count[t] <= 1) => Entry(c)'.mode = s.mode
                      /\ Entry(c)'.waiters = s.waiters
                      /\ reap' \in [Txns -> Keys \cup {None}]
                      /\ \A u \in Txns : u # t => reap'[u] = reap[u]
                      /\ s.count[t] > 0 /\ Unused(Entry(c)') => reap'[t] = c
    OBVIOUS
  <2>1. CASE c \in DOMAIN locks
    <3>1. locks[c] = s
      BY <2>1 DEF Entry
    <3>2. /\ locks' = Store(c, n)
          /\ reap' = [reap EXCEPT ![t] = IF s.count[t] > 0 /\ Unused(n) THEN c ELSE None]
      BY <2>1, <3>1 DEF DropGuard
    <3> HIDE DEF g, k, s, n
    <3>3. /\ DOMAIN locks' = DOMAIN locks \cup {c}
          /\ locks' = [j \in DOMAIN locks' |-> locks'[j]]
          /\ \A j \in Keys : Entry(j)' = IF j = c THEN n ELSE Entry(j)
      BY <1>1, <3>2, AfterStore
    <3>4. /\ reap' \in [Txns -> Keys \cup {None}]
          /\ \A u \in Txns : u # t => reap'[u] = reap[u]
          /\ s.count[t] > 0 /\ Unused(n) => reap'[t] = c
      BY <3>2, <1>1 DEF Typed
    <3> QED BY <1>6, <2>1, <3>3, <3>4
  <2>2. CASE c \notin DOMAIN locks
    <3>1. locks' = locks /\ reap' = reap
      BY <2>2 DEF DropGuard
    <3>2. DOMAIN locks' = DOMAIN locks /\ \A j \in Keys : Entry(j)' = Entry(j)
      BY <3>1, SameTable
    <3>3. s = NewState
      BY <2>2, Absent
    <3>4. s.count[t] = 0
      BY <3>3, Fresh
    <3>5. Entry(c)' = s
      BY <3>2
    <3> HIDE DEF g, k, s, n
    <3> QED BY <1>1, <1>5, <3>1, <3>2, <3>4, <3>5 DEF Typed
  <2> QED BY <2>1, <2>2
<1>11. PICK c \in Keys : c = k
  BY <1>4
<1>12. /\ DOMAIN locks' = DOMAIN locks
       /\ locks' = [j \in DOMAIN locks' |-> locks'[j]]
       /\ \A j \in Keys : j # c => Entry(j)' = Entry(j)
       /\ Entry(c)' \in LockState /\ Shape(Entry(c)')
       /\ \A u \in Txns : u # t => Entry(c)'.count[u] = s.count[u]
       /\ Entry(c)'.count[t] = IF s.count[t] > 0 THEN s.count[t] - 1 ELSE 0
       /\ ~(Holders(s) \subseteq {t} /\ s.count[t] <= 1) => Entry(c)'.mode = s.mode
       /\ Entry(c)'.waiters = s.waiters
       /\ reap' \in [Txns -> Keys \cup {None}]
       /\ \A u \in Txns : u # t => reap'[u] = reap[u]
       /\ s.count[t] > 0 /\ Unused(Entry(c)') => reap'[t] = c
  BY <1>10, <1>11
<1>13. /\ s = Entry(c) /\ g = guards[t]
       /\ \A j \in Keys : Count(g, j) = Count(Tail(g), j) + (IF j = c THEN 1 ELSE 0)
  BY <1>3, <1>11
<1> HIDE DEF g, k, s, n
<1>14. /\ \A u \in Txns : s.count[u] \in Nat
       /\ \A u \in Txns, j \in Keys :
            /\ Count(guards[u], j) \in Nat /\ Entry(j).count[u] \in Nat
            /\ Count(guards'[u], j) \in Nat
  BY <1>1, <1>5, <1>9, CountOf, Fields DEF Typed
<1>15. \A v \in Txns : v # t /\ s.count[v] > 0 => Entry(c)'.mode = s.mode
  BY <1>12 DEF Holders
<1>16. Typed'
  <2>1. \A j \in Keys : Entry(j)' \in LockState
    BY <1>1, <1>12 DEF Typed
  <2> QED BY <1>1, <1>7, <1>8, <1>9, <1>12, <2>1 DEF Typed
<1>17. Phases'
  <2> SUFFICES ASSUME NEW u \in Txns PROVE Phase(u)'
    BY DEF Phases
  <2>1. CASE u = t
    <3>1. Len(guards'[t]) <= MaxGuards
      BY <1>3, <1>9, <1>13, LockAssumption DEF LockInv, Phases, Phase
    <3> QED BY <1>2, <1>7, <1>8, <2>1, <3>1 DEF Phase, Waiting
  <2>2. CASE u # t
    BY <1>7, <1>8, <1>9, <1>12, <2>2 DEF LockInv, Phases, Phase
  <2> QED BY <2>1, <2>2
<1>18. Shaped'
  <2>1. \A j \in Keys : Shape(Entry(j)')
    BY <1>12 DEF LockInv, Shaped
  <2> QED BY <2>1 DEF Shaped
<1>19. Backed'
  <2> SUFFICES ASSUME NEW u \in Txns, NEW j \in Keys
               PROVE  /\ Entry(j)'.count[u] <= Count(guards'[u], j)
                      /\ u \notin swept /\ j \notin raced =>
                           Entry(j)'.count[u] = Count(guards'[u], j)
    BY <1>7 DEF Backed
  <2>1. /\ Entry(j).count[u] <= Count(guards[u], j)
        /\ u \notin swept /\ j \notin raced => Entry(j).count[u] = Count(guards[u], j)
    BY DEF LockInv, Backed
  <2>2. CASE u = t /\ j = c
    <3>1. Count(guards[u], j) = Count(guards'[u], j) + 1
      BY <1>9, <1>13, <2>2
    <3>2. Entry(j)'.count[u] = IF Entry(j).count[u] > 0 THEN Entry(j).count[u] - 1 ELSE 0
      BY <1>12, <1>13, <2>2
    <3> QED BY <1>14, <2>1, <3>1, <3>2
  <2>3. CASE ~(u = t /\ j = c)
    <3>1. Count(guards[u], j) = Count(guards'[u], j)
      <4>1. CASE u = t
        <5>1. guards'[u] = Tail(g) /\ guards[u] = g /\ j # c
          BY <1>9, <1>13, <2>3, <4>1
        <5>2. Count(g, j) = Count(Tail(g), j) + 0 /\ Count(Tail(g), j) \in Nat
          BY <1>13, <1>14, <5>1
        <5> QED BY <5>1, <5>2
      <4>2. CASE u # t
        BY <1>9, <4>2
      <4> QED BY <4>1, <4>2
    <3>2. Entry(j)'.count[u] = Entry(j).count[u]
      BY <1>12, <1>13, <2>3
    <3> QED BY <2>1, <3>1, <3>2
  <2> QED BY <2>2, <2>3
<1>20. Marked'
  <2> SUFFICES ASSUME NEW u \in Txns, u \notin swept, NEW j \in Keys, j \notin raced,
                      NEW i \in DOMAIN guards'[u],
                      guards'[u][i] = [key |-> j, mode |-> "Write"]
               PROVE  Entry(j)'.mode = "Write"
    BY <1>7 DEF Marked
  <2>1. guards[u] \in Seq(Guard) /\ guards'[u] \in Seq(Guard)
    BY <1>1, <1>9 DEF Typed
  <2>2. Count(guards'[u], j) # 0
    <3>1. i \in On(guards'[u], j)
      BY DEF On
    <3> QED BY <2>1, <3>1, CountOf
  <2>3. /\ Entry(j).count[u] = Count(guards[u], j)
        /\ Count(guards[u], j) = Count(guards'[u], j) + (IF u = t /\ j = c THEN 1 ELSE 0)
    <3>1. Entry(j).count[u] = Count(guards[u], j)
      BY DEF LockInv, Backed
    <3>2. CASE u = t
      BY <1>9, <1>13, <3>1, <3>2
    <3>3. CASE u # t
      BY <1>9, <1>14, <3>1, <3>3
    <3> QED BY <3>2, <3>3
  <2>4. Entry(j).mode = "Write"
    <3>1. \E l \in DOMAIN guards[u] : guards[u][l] = [key |-> j, mode |-> "Write"]
      <4>1. CASE u = t
        <5>1. guards'[u] = Tail(g) /\ guards[u] = g
          BY <1>9, <1>13, <4>1
        <5>2. /\ i \in 1 .. Len(g) - 1 /\ Tail(g)[i] = g[i + 1] /\ DOMAIN g = 1 .. Len(g)
          BY <1>2, <1>3, <5>1, HeadTailProperties, LenProperties
        <5>3. i + 1 \in 1 .. Len(g)
          BY <1>3, <5>2
        <5> QED BY <5>1, <5>2, <5>3
      <4>2. CASE u # t
        BY <1>9, <4>2
      <4> QED BY <4>1, <4>2
    <3> QED BY <3>1 DEF LockInv, Marked
  <2>5. CASE j = c /\ u = t
    <3>1. s.count[t] > 1
      BY <1>13, <1>14, <2>2, <2>3, <2>5
    <3> QED BY <1>12, <1>13, <1>14, <2>4, <2>5, <3>1
  <2>6. CASE j = c /\ u # t
    <3>1. s.count[u] > 0
      BY <1>13, <1>14, <2>2, <2>3, <2>6
    <3> QED BY <1>13, <1>15, <2>4, <2>6, <3>1
  <2>7. CASE j # c
    BY <1>12, <2>4, <2>7
  <2> QED BY <2>5, <2>6, <2>7
<1>21. Queued'
  BY <1>7, <1>12, <1>13 DEF LockInv, Queued
<1>22. Kept'
  <2> SUFFICES ASSUME NEW j \in Keys, j \in DOMAIN locks, Unused(Entry(j)')
               PROVE  \E u \in Txns : reap'[u] = j
    <3>1. DOMAIN locks \subseteq Keys
      BY <1>1 DEF Typed
    <3> QED BY <1>12, <3>1 DEF Kept
  <2>1. CASE j = c /\ s.count[t] > 0
    BY <1>12, <2>1
  <2>2. CASE ~(j = c /\ s.count[t] > 0)
    <3>1. Unused(Entry(j))
      <4>1. CASE j = c
        <5>1. \A u \in Txns : Entry(j)'.count[u] = Entry(j).count[u]
          BY <1>12, <1>13, <1>14, <2>2, <4>1
        <5> QED BY <1>12, <1>13, <4>1, <5>1 DEF Unused, Holders
      <4>2. CASE j # c
        BY <1>12, <4>2
      <4> QED BY <4>1, <4>2
    <3>2. PICK u \in Txns : reap[u] = j
      BY <3>1 DEF LockInv, Kept
    <3>3. u # t
      BY <1>2, <3>2, LockAssumption
    <3> QED BY <1>12, <3>2, <3>3
  <2> QED BY <2>1, <2>2
<1>23. Edges'
  <2> SUFFICES ASSUME NEW u \in Txns, NEW v \in Txns,
                      pc'[u] \in Waiting, v \in waitGraph'[u], v \in Using', v \notin swept',
                      want'[u].key \notin raced'
               PROVE  Blocks(u, v)'
    BY DEF Edges
  <2>1. u # t
    BY <1>8
  <2>2. pc[u] \in Waiting /\ v \in waitGraph[u] /\ want[u].key \notin raced /\ v \notin swept
    BY <1>7, <1>8, <2>1
  <2>3. v \in Using /\ v # t
    BY <1>2, <1>7 DEF Using, Waiting
  <2>4. Blocks(u, v)
    BY <2>2, <2>3 DEF LockInv, Edges
  <2>5. want[u].key \in Keys /\ want'[u] = want[u]
    BY <1>7, <2>2 DEF LockInv, Phases, Phase, Guard
  <2>6. \A j \in Keys : j = want[u].key =>
          Entry(j)'.count[v] > 0 /\ (Entry(j).mode = "Write" => Entry(j)'.mode = "Write")
    <3> SUFFICES ASSUME NEW j \in Keys, j = want[u].key
                 PROVE  Entry(j)'.count[v] > 0 /\ (Entry(j).mode = "Write" => Entry(j)'.mode = "Write")
      OBVIOUS
    <3>1. Entry(j).count[v] > 0
      BY <2>4 DEF Blocks
    <3> QED BY <1>12, <1>13, <1>15, <2>3, <3>1
  <2> QED BY <2>4, <2>5, <2>6, StillBlocks
<1> QED BY <1>16, <1>17, <1>18, <1>19, <1>20, <1>21, <1>22, <1>23 DEF LockInv
\* Every step of the lock manager preserves the invariant.
LEMMA Preservation ==
    LockInv /\ [Next]_vars => LockInv'
<1> SUFFICES ASSUME LockInv, [Next]_vars PROVE LockInv'
  OBVIOUS
<1>1. CASE UNCHANGED vars
  <2>1. /\ locks' = locks /\ waitGraph' = waitGraph /\ guards' = guards /\ pc' = pc
        /\ want' = want /\ sweep' = sweep /\ reap' = reap /\ raced' = raced /\ swept' = swept
    BY <1>1 DEF vars
  <2> QED BY <2>1 DEF LockInv, Typed, Phases, Phase, Shaped, Backed, Marked, Queued,
             Kept, Edges, Blocks, Using, Entry
<1>2. CASE Next
  <2>1. PICK t \in Txns :
          \/ \E g \in Requests[t] : Request(t, g)
          \/ Timeout(t) \/ RollbackToSavepoint(t) \/ Finish(t) \/ Progress(t)
    BY <1>2 DEF Next
  <2> DEFINE Still == UNCHANGED <<locks, waitGraph, guards, want, sweep, reap, raced, swept>>
  <2>2. Phase(t) /\ pc[t] \in PCs
    BY DEF LockInv, Phases, Typed
  <2>3. CASE \E g \in Requests[t] : Request(t, g)
    <3>1. \A g \in Requests[t] : g \in Guard
      BY LockAssumption
    <3> QED BY <2>3, <3>1, RequestStep
  <2>4. CASE Timeout(t) \/ Deadlock(t)
    <3>1. pc' = [pc EXCEPT ![t] = "victim"] /\ pc[t] = "detect" /\ Still
      BY <2>4 DEF Timeout, Deadlock, GiveUp
    <3> HIDE DEF Still
    <3>2. /\ "victim" \in PCs /\ "victim" \in Waiting /\ pc[t] \in Waiting
          /\ reap[t] = None
      BY <2>2, <3>1 DEF PCs, Waiting, Phase
    <3> QED BY <3>1, <3>2, MoveStep DEF Still
  <2>5. CASE SleepAndRetry(t)
    <3>1. pc' = [pc EXCEPT ![t] = "try"] /\ pc[t] = "detect" /\ Still
      BY <2>5 DEF SleepAndRetry
    <3> HIDE DEF Still
    <3>2. /\ "try" \in PCs /\ "try" \in Waiting /\ pc[t] \in Waiting
          /\ reap[t] = None
      BY <2>2, <3>1 DEF PCs, Waiting, Phase
    <3> QED BY <3>1, <3>2, MoveStep DEF Still
  <2>6. CASE RollbackToSavepoint(t)
    <3>1. pc' = [pc EXCEPT ![t] = "open"] /\ pc[t] = "failed" /\ Still
      BY <2>6 DEF RollbackToSavepoint
    <3> HIDE DEF Still
    <3>2. /\ "open" \in PCs /\ "open" \notin Waiting /\ pc[t] \notin Waiting
          /\ reap[t] = None /\ t \in swept /\ waitGraph[t] = {}
      BY <2>2, <3>1 DEF PCs, Waiting, Phase
    <3> QED BY <3>1, <3>2, MoveStep DEF Still
  <2>7. CASE Finish(t)
    <3>1. pc' = [pc EXCEPT ![t] = "drop"] /\ pc[t] \in {"open", "failed"} /\ Still
      BY <2>7 DEF Finish
    <3> HIDE DEF Still
    <3>2. /\ "drop" \in PCs /\ "drop" \notin Waiting /\ pc[t] \notin Waiting
          /\ waitGraph[t] = {}
      BY <2>2, <3>1 DEF PCs, Waiting, Phase
    <3> QED BY <3>1, <3>2, MoveStep DEF Still
  <2>8. CASE CleanupEnd(t)
    <3>1. /\ pc' = [pc EXCEPT ![t] = "failed"] /\ pc[t] = "sweep" /\ Still
          /\ reap[t] = None /\ sweep[t] = {}
      BY <2>8 DEF CleanupEnd
    <3> HIDE DEF Still
    <3>2. /\ "failed" \in PCs /\ "failed" \notin Waiting /\ pc[t] \notin Waiting
          /\ t \in swept /\ waitGraph[t] = {}
      BY <2>2, <3>1 DEF PCs, Waiting, Phase
    <3> QED BY <3>1, <3>2, MoveStep DEF Still
  <2>9. CASE DropDone(t)
    <3>1. /\ pc' = [pc EXCEPT ![t] = "done"] /\ pc[t] = "drop" /\ Still
          /\ reap[t] = None /\ guards[t] = <<>>
      BY <2>9 DEF DropDone
    <3> HIDE DEF Still
    <3>2. /\ "done" \in PCs /\ "done" \notin Waiting /\ pc[t] \notin Waiting
          /\ waitGraph[t] = {}
      BY <2>2, <3>1 DEF PCs, Waiting, Phase
    <3> QED BY <3>1, <3>2, MoveStep DEF Still
  <2>10. CASE \E k \in Keys : CleanupKey(t, k)
    BY <2>10, CleanupKeyStep
  <2> QED BY <2>1, <2>3, <2>4, <2>5, <2>6, <2>7, <2>8, <2>9, <2>10,
             GrantStep, ConflictStep, CleanupStartStep, RemoveEntryStep,
             DropGuardStep DEF Progress
<1> QED BY <1>1, <1>2

\* The invariant holds before the first transaction.
LEMMA Initially ==
    Init => LockInv
<1> SUFFICES ASSUME Init PROVE LockInv
  OBVIOUS
<1> USE DEF Init
<1>1. \A k \in Keys : Entry(k) = NewState
  BY DEF Entry
<1>2. \A t \in Txns : guards[t] = <<>>
  OBVIOUS
<1>3. /\ \A t \in Txns : guards[t] \in Seq(Guard) /\ Len(guards[t]) = 0
      /\ \A t \in Txns : DOMAIN guards[t] = {}
  BY <1>2, EmptySeq
<1>4. \A t \in Txns, k \in Keys : Count(guards[t], k) = 0
  BY <1>3, CountOf DEF On
<1>5. Typed
  <2>1. DOMAIN locks = {} /\ locks = [k \in DOMAIN locks |-> locks[k]]
    OBVIOUS
  <2>2. {} \in SUBSET Txns /\ {} \in SUBSET Keys
    OBVIOUS
  <2>3. guards \in [Txns -> Seq(Guard)]
    BY <1>3
  <2>4. pc \in [Txns -> PCs]
    BY DEF PCs
  <2>5. waitGraph \in [Txns -> SUBSET Txns] /\ sweep \in [Txns -> SUBSET Keys]
    BY <2>2
  <2> QED BY <1>1, <2>1, <2>3, <2>4, <2>5, Fresh DEF Typed
<1>6. Phases
  BY <1>3, LockAssumption DEF Phases, Phase, Waiting
<1>7. Shaped
  BY <1>1, Fresh DEF Shaped
<1>8. Backed
  BY <1>1, <1>4, Fresh DEF Backed
<1>9. Marked
  BY <1>3 DEF Marked
<1>10. Queued
  BY <1>1, Fresh DEF Queued
<1>11. Kept
  BY DEF Kept
<1>12. Edges
  BY DEF Edges, Waiting
<1> QED BY <1>5, <1>6, <1>7, <1>8, <1>9, <1>10, <1>11, <1>12 DEF LockInv

(***************************************************************************)
(* The wait-for graph: HasCycle, for any edges                             *)
(***************************************************************************)
\* A non-empty set of naturals has a least element.
LEMMA LeastNat ==
  ASSUME NEW S, S \subseteq Nat, S # {}
  PROVE  \E x \in S : \A y \in S : x <= y
  <1>1. PICK x \in S : \A y \in S : ~(<<y, x>> \in OpToRel(<, Nat))
    BY NatLessThanWellFounded, WFMin, Zenon
  <1>2. \A y \in S : y < x => <<y, x>> \in OpToRel(<, Nat) BY DEF OpToRel
  <1>3. \A y \in S : ~(y < x) BY <1>1, <1>2, Zenon
  <1>4. \A y \in S : x <= y BY <1>3
  <1> QED BY <1>4

\* A set with 0 and with every successor of its elements has all naturals.
LEMMA Climb ==
    ASSUME NEW S, 0 \in S, \A n \in Nat : n \in S => n + 1 \in S
    PROVE  \A n \in Nat : n \in S
<1> SUFFICES ASSUME NEW n \in Nat, n \notin S PROVE FALSE
  OBVIOUS
<1> DEFINE Bad == {i \in Nat : i \notin S}
<1>1. PICK x \in Bad : \A y \in Bad : x <= y
  BY LeastNat
<1>2. x # 0 /\ x \in Nat
  BY <1>1
<1>3. x - 1 \in Nat /\ x - 1 \notin Bad
  BY <1>1, <1>2
<1>4. (x - 1) + 1 \in S
  BY <1>3
<1> QED BY <1>1, <1>2, <1>4

\* The transactions an edge leads to from those in S.
Reach(E, S) == UNION {E[u] : u \in S}

\* w[n] is where the walks of n edges from t end, for n up to m.
IsWalk(w, E, t, m) ==
    w = [n \in 0 .. m |-> IF n = 0 THEN {t} ELSE Reach(E, w[n - 1])]

\* The walks from t are well defined up to any length.
LEMMA WalkExists ==
    ASSUME NEW E, NEW t, NEW m \in Nat
    PROVE  \E w : IsWalk(w, E, t, m)
<1> DEFINE Walk(g, l) == IsWalk(g, E, t, l)
           S == {l \in Nat : \E g : Walk(g, l)}
<1>1. 0 \in S
  <2> DEFINE g == [n \in 0 .. 0 |-> {t}]
             f == [n \in 0 .. 0 |-> IF n = 0 THEN {t} ELSE Reach(E, g[n - 1])]
  <2>0. \A n \in 0 .. 0 : g[n] = f[n]
    <3> SUFFICES ASSUME NEW n \in 0 .. 0 PROVE g[n] = f[n]
      OBVIOUS
    <3>1. n = 0
      OBVIOUS
    <3> QED BY <3>1
  <2>1. g = f
    BY <2>0
  <2> QED BY <2>1 DEF IsWalk
<1>2. \A l \in Nat : l \in S => l + 1 \in S
  <2> SUFFICES ASSUME NEW l \in Nat, NEW h, Walk(h, l) PROVE \E g : Walk(g, l + 1)
    OBVIOUS
  <2> DEFINE g == [n \in 0 .. l + 1 |-> IF n = l + 1 THEN Reach(E, h[l]) ELSE h[n]]
             f == [n \in 0 .. l + 1 |-> IF n = 0 THEN {t} ELSE Reach(E, g[n - 1])]
  <2>1. \A n \in 0 .. l + 1 : g[n] = f[n]
    <3> SUFFICES ASSUME NEW n \in 0 .. l + 1 PROVE g[n] = f[n]
      OBVIOUS
    <3>1. CASE n = 0
      BY <3>1 DEF IsWalk
    <3>2. CASE n # 0 /\ n <= l
      <4>1. n \in 0 .. l /\ n - 1 \in 0 .. l + 1 /\ n - 1 # l + 1 /\ n # l + 1
        BY <3>2
      <4>2. h[n] = Reach(E, h[n - 1])
        BY <3>2, <4>1 DEF IsWalk
      <4>3. g[n] = h[n] /\ g[n - 1] = h[n - 1]
        BY <4>1
      <4> QED BY <3>2, <4>2, <4>3
    <3>3. CASE n = l + 1
      <4>1. g[n] = Reach(E, h[l]) /\ n - 1 = l /\ l \in 0 .. l + 1 /\ l # l + 1 /\ n # 0
        BY <3>3
      <4>2. g[l] = h[l]
        BY <4>1
      <4> QED BY <4>1, <4>2
    <3> QED BY <3>1, <3>2, <3>3
  <2>2. g = f
    BY <2>1
  <2> QED BY <2>2 DEF IsWalk
<1>3. m \in S
  <2> HIDE DEF S
  <2> QED BY <1>1, <1>2, Climb
<1> QED BY <1>3

\* HasCycle looks at the ends of the longest walks.
LEMMA Walks ==
    ASSUME NEW E, NEW t
    PROVE  \E w : IsWalk(w, E, t, Cardinality(Txns)) /\ (HasCycle(E, t) <=> w[Cardinality(Txns)] # {})
<1> DEFINE N == Cardinality(Txns)
           w == CHOOSE g : IsWalk(g, E, t, N)
<1>1. N \in Nat
  BY TxnsAssumption, FS_CardinalityType
<1>2. \E g : IsWalk(g, E, t, N)
  BY <1>1, WalkExists
<1>3. IsWalk(w, E, t, N)
  BY <1>2, Zenon
<1>4. HasCycle(E, t) <=> w[N] # {}
  BY DEF HasCycle, Reach, IsWalk
<1> QED BY <1>3, <1>4

\* Whatever a walk of n edges ends at is the end of a path of n edges.
LEMMA PathTo ==
    ASSUME NEW E \in [Txns -> SUBSET Txns], NEW t \in Txns, NEW m \in Nat, NEW w,
           IsWalk(w, E, t, m)
    PROVE  \A n \in Nat : n <= m => \A v \in w[n] :
             \E f \in [0 .. n -> Txns] :
               /\ f[0] = t /\ f[n] = v
               /\ \A i \in 0 .. n - 1 : f[i + 1] \in E[f[i]]
<1> DEFINE Path(f, n, v) ==
             /\ f \in [0 .. n -> Txns] /\ f[0] = t /\ f[n] = v
             /\ \A i \in 0 .. n - 1 : f[i + 1] \in E[f[i]]
           S == {n \in Nat : n <= m => \A v \in w[n] : \E f : Path(f, n, v)}
<1>1. 0 \in S
  <2>1. w[0] = {t}
    BY DEF IsWalk
  <2> DEFINE f == [i \in 0 .. 0 |-> t]
  <2>2. f \in [0 .. 0 -> Txns] /\ f[0] = t /\ 0 .. 0 - 1 = {}
    OBVIOUS
  <2> HIDE DEF f
  <2> QED BY <2>1, <2>2
<1>2. \A n \in Nat : n \in S => n + 1 \in S
  <2> SUFFICES ASSUME NEW n \in Nat, n \in S, n + 1 <= m, NEW v \in w[n + 1]
               PROVE  \E f : Path(f, n + 1, v)
    OBVIOUS
  <2>1. w[n + 1] = Reach(E, w[n])
    <3>1. n + 1 \in 0 .. m /\ n + 1 # 0 /\ (n + 1) - 1 = n
      OBVIOUS
    <3> QED BY <3>1 DEF IsWalk
  <2>2. PICK u \in w[n] : v \in E[u]
    BY <2>1 DEF Reach
  <2>3. n <= m
    OBVIOUS
  <2>4. PICK h : Path(h, n, u)
    BY <2>2, <2>3
  <2>5. u \in Txns /\ v \in Txns
    <3>1. n \in 0 .. n
      OBVIOUS
    <3>2. u \in Txns
      BY <2>4, <3>1
    <3> QED BY <2>2, <3>2
  <2> DEFINE f == [i \in 0 .. n + 1 |-> IF i = n + 1 THEN v ELSE h[i]]
  <2>6. /\ f \in [0 .. n + 1 -> Txns] /\ f[n + 1] = v
        /\ \A i \in 0 .. n : f[i] = h[i]
    BY <2>4, <2>5
  <2> HIDE DEF f
  <2>7. \A i \in 0 .. (n + 1) - 1 : f[i + 1] \in E[f[i]]
    <3> SUFFICES ASSUME NEW i \in 0 .. n PROVE f[i + 1] \in E[f[i]]
      OBVIOUS
    <3>1. CASE i = n
      BY <2>2, <2>4, <2>6, <3>1
    <3>2. CASE i # n
      <4>1. i \in 0 .. n - 1 /\ i + 1 \in 0 .. n
        BY <3>2
      <4> QED BY <2>4, <2>6, <4>1
    <3> QED BY <3>1, <3>2
  <2>8. f[0] = t
    <3>1. 0 \in 0 .. n
      OBVIOUS
    <3> QED BY <2>4, <2>6, <3>1
  <2> QED BY <2>6, <2>7, <2>8
<1>3. \A n \in Nat : n \in S
  <2> HIDE DEF S
  <2> QED BY <1>1, <1>2, Climb
<1> QED BY <1>3

\* What the depth-first search looks for: from every transaction of a set that
\* t belongs to there is an edge back into the set.
Trapped(E, t, X) == X \subseteq Txns /\ t \in X /\ \A u \in X : E[u] \cap X # {}

\* A reported cycle is one: a path as long as there are transactions comes
\* back to one of them.
LEMMA CycleTraps ==
    ASSUME NEW E \in [Txns -> SUBSET Txns], NEW t \in Txns, HasCycle(E, t)
    PROVE  \E X : Trapped(E, t, X)
<1> DEFINE N == Cardinality(Txns)
<1>1. N \in Nat
  BY TxnsAssumption, FS_CardinalityType
<1>2. PICK w : IsWalk(w, E, t, N) /\ w[N] # {}
  BY Walks
<1> HIDE DEF N
<1>3. PICK v : v \in w[N]
  BY <1>2
<1>4. PICK f \in [0 .. N -> Txns] :
        /\ f[0] = t
        /\ \A i \in 0 .. N - 1 : f[i + 1] \in E[f[i]]
  <2>1. N <= N
    BY <1>1
  <2> QED BY <1>1, <1>2, <1>3, <2>1, PathTo
<1>5. \E i, j \in 0 .. N : i # j /\ f[i] = f[j]
  <2> DEFINE D == 0 .. N
  <2>1. IsFiniteSet(D) /\ Cardinality(D) = N + 1
    <3>1. 0 \in Int /\ N \in Int
      BY <1>1
    <3>2. IsFiniteSet(D) /\ Cardinality(D) = IF 0 > N THEN 0 ELSE N - 0 + 1
      BY ONLY <3>1, FS_Interval, Zenon
    <3> HIDE DEF D
    <3> QED BY <1>1, <3>2
  <2>2. f \in [D -> Txns]
    OBVIOUS
  <2> HIDE DEF D
  <2>3. Cardinality(Txns) < Cardinality(D)
    BY <1>1, <2>1 DEF N
  <2>4. \E i, j \in D : i # j /\ f[i] = f[j]
    BY <2>1, <2>2, <2>3, TxnsAssumption, FS_PigeonHole
  <2> QED BY <2>4 DEF D
<1>6. PICK i \in 0 .. N, j \in 0 .. N : i < j /\ f[i] = f[j]
  <2>1. PICK p \in 0 .. N, q \in 0 .. N : p # q /\ f[p] = f[q]
    BY <1>5
  <2>2. CASE p < q
    BY <2>1, <2>2
  <2>3. CASE q < p
    BY <2>1, <2>3
  <2>4. p < q \/ q < p
    BY <1>1, <2>1
  <2> QED BY <2>2, <2>3, <2>4
<1> DEFINE X == {f[l] : l \in 0 .. j - 1}
<1>7. X \subseteq Txns /\ t \in X
  <2>1. 0 \in 0 .. j - 1 /\ \A l \in 0 .. j - 1 : l \in 0 .. N
    BY <1>1, <1>6
  <2> QED BY <1>4, <2>1
<1>8. ASSUME NEW u \in X PROVE E[u] \cap X # {}
  <2>1. PICK l \in 0 .. j - 1 : u = f[l]
    OBVIOUS
  <2>2. l \in 0 .. N - 1 /\ i \in 0 .. j - 1
    BY <1>1, <1>6, <2>1
  <2>3. f[l + 1] \in E[u]
    BY <1>4, <2>1, <2>2
  <2>4. f[l + 1] \in X
    <3>1. CASE l + 1 = j
      BY <1>6, <2>2, <3>1
    <3>2. CASE l + 1 # j
      <4>1. l + 1 \in 0 .. j - 1
        BY <1>1, <1>6, <2>1, <3>2
      <4> QED BY <4>1
    <3> QED BY <3>1, <3>2
  <2> QED BY <2>3, <2>4
<1>9. Trapped(E, t, X)
  BY <1>7, <1>8 DEF Trapped
<1> QED BY <1>9

\* Every cycle is reported: inside a trap there are walks of any length.
LEMMA TrapCycles ==
    ASSUME NEW E \in [Txns -> SUBSET Txns], NEW t, NEW X, Trapped(E, t, X)
    PROVE  HasCycle(E, t)
<1> DEFINE N == Cardinality(Txns)
<1>1. N \in Nat
  BY TxnsAssumption, FS_CardinalityType
<1>2. PICK w : IsWalk(w, E, t, N) /\ (HasCycle(E, t) <=> w[N] # {})
  BY Walks
<1> HIDE DEF N
<1> DEFINE S == {n \in Nat : n <= N => w[n] \cap X # {}}
<1>3. 0 \in S
  <2>1. w[0] = {t}
    BY <1>1, <1>2 DEF IsWalk
  <2> QED BY <2>1 DEF Trapped
<1>4. \A n \in Nat : n \in S => n + 1 \in S
  <2> SUFFICES ASSUME NEW n \in Nat, n \in S, n + 1 <= N PROVE w[n + 1] \cap X # {}
    OBVIOUS
  <2>1. w[n + 1] = Reach(E, w[n])
    <3>1. n + 1 \in 0 .. N /\ n + 1 # 0 /\ (n + 1) - 1 = n
      BY <1>1
    <3> QED BY <1>2, <3>1 DEF IsWalk
  <2>2. n <= N
    BY <1>1
  <2>3. PICK u : u \in w[n] /\ u \in X
    BY <2>2
  <2>4. PICK v : v \in E[u] /\ v \in X
    BY <2>3 DEF Trapped
  <2> QED BY <2>1, <2>3, <2>4 DEF Reach
<1>5. N \in S
  <2> HIDE DEF S
  <2> QED BY <1>1, <1>3, <1>4, Climb
<1>6. w[N] # {}
  BY <1>1, <1>5
<1> QED BY <1>2, <1>6

(***************************************************************************)
(* Theorems                                                                *)
(***************************************************************************)
\* LockInv holds throughout, whatever the sessions ask for and in whatever
\* order requests, refusals, sweeps, removals and drops interleave.
THEOREM LockInvariance == Spec => []LockInv
BY Initially, Preservation, PTL DEF Spec

\* The lock table, the wait-for graph and every transaction keep their type:
\* in particular no counter of re-entrant acquisitions exceeds MaxGuards.
THEOREM LockTypeCorrect == Spec => []TypeOK
<1>1. LockInv => TypeOK
  <2> SUFFICES ASSUME LockInv PROVE TypeOK
    OBVIOUS
  <2>1. \A t \in Txns : /\ Len(guards[t]) <= MaxGuards
                        /\ \A i \in DOMAIN guards[t] : guards[t][i] \in Guard
    <3> SUFFICES ASSUME NEW t \in Txns
                 PROVE  /\ Len(guards[t]) <= MaxGuards
                        /\ \A i \in DOMAIN guards[t] : guards[t][i] \in Guard
      OBVIOUS
    <3>1. guards[t] \in Seq(Guard)
      BY DEF LockInv, Typed
    <3> QED BY <3>1, LenProperties DEF LockInv, Phases, Phase
  <2>2. locks \in [DOMAIN locks -> LockState]
    <3>1. \A k \in DOMAIN locks : locks[k] \in LockState
      BY DEF LockInv, Typed, Entry
    <3>2. locks = [k \in DOMAIN locks |-> locks[k]]
      BY DEF LockInv, Typed
    <3> QED BY <3>1, <3>2
  <2> QED BY <2>1, <2>2 DEF LockInv, Typed, TypeOK, PCs
<1> QED BY <1>1, LockInvariance, PTL

\* release_lock_internal counts: each guard of a transaction that was never
\* swept stands for one acquisition in the table, races on the entry aside.
THEOREM GuardsCounted == Spec => []GuardsBacked
<1>1. LockInv => GuardsBacked
  BY DEF LockInv, Backed, GuardsBacked, Count, On, GuardsOn
<1> QED BY <1>1, LockInvariance, PTL

\* "Exclusive lock for writes - single holder only", for transactions that
\* were never swept and rows whose entry was never removed while in use.
THEOREM WritersExclusive == Spec => []ExclusiveUnlessRaced
<1>1. LockInv => ExclusiveUnlessRaced
  <2> SUFFICES ASSUME LockInv, NEW t \in Using \ swept, NEW u \in Using \ swept, t # u,
                      NEW k \in SharedWrite(t, u), k \notin raced
               PROVE  FALSE
    BY DEF ExclusiveUnlessRaced
  <2>1. t \in Txns /\ u \in Txns /\ k \in Keys
    BY DEF Using, SharedWrite, HoldsFor
  <2>2. PICK i \in DOMAIN guards[t] : guards[t][i] = [key |-> k, mode |-> "Write"]
    BY DEF SharedWrite, HoldsFor
  <2>3. PICK j \in DOMAIN guards[u] : guards[u][j].key = k
    BY DEF SharedWrite, HoldsFor
  <2>4. i \in On(guards[t], k) /\ j \in On(guards[u], k)
    BY <2>2, <2>3 DEF On
  <2>5. guards[t] \in Seq(Guard) /\ guards[u] \in Seq(Guard)
    BY <2>1 DEF LockInv, Typed
  <2>6. /\ Count(guards[t], k) \in Nat /\ Count(guards[t], k) # 0
        /\ Count(guards[u], k) \in Nat /\ Count(guards[u], k) # 0
    BY <2>4, <2>5, CountOf
  <2>7. Entry(k).count[t] > 0 /\ Entry(k).count[u] > 0
    BY <2>1, <2>6 DEF LockInv, Backed
  <2>8. Entry(k).mode = "Write"
    BY <2>1, <2>2 DEF LockInv, Marked
  <2>9. Shape(Entry(k)) /\ t \in Holders(Entry(k)) /\ u \in Holders(Entry(k))
    BY <2>1, <2>7 DEF LockInv, Shaped, Holders
  <2> QED BY <2>8, <2>9 DEF Shape
<1> QED BY <1>1, LockInvariance, PTL

\* Once every transaction has ended, the lock table, the queues and the
\* wait-for graph are empty, with every error and every race on the way.
THEOREM NothingLeft == Spec => []NothingLeaks
<1>1. LockInv => NothingLeaks
  <2> SUFFICES ASSUME LockInv, \A t \in Txns : pc[t] = "done"
               PROVE  DOMAIN locks = {} /\ \A t \in Txns : waitGraph[t] = {}
    BY DEF NothingLeaks
  <2>1. \A t \in Txns : waitGraph[t] = {} /\ guards[t] = <<>> /\ reap[t] = None
    BY DEF LockInv, Phases, Phase, Waiting
  <2>2. ASSUME NEW k \in DOMAIN locks PROVE FALSE
    <3>1. k \in Keys /\ Entry(k) \in LockState
      BY DEF LockInv, Typed
    <3>2. \A t \in Txns : Entry(k).count[t] = 0
      <4> SUFFICES ASSUME NEW t \in Txns PROVE Entry(k).count[t] = 0
        OBVIOUS
      <4>1. guards[t] \in Seq(Guard) /\ Len(guards[t]) = 0
        BY <2>1, EmptySeq DEF LockInv, Typed
      <4>2. Count(guards[t], k) <= 0 /\ Count(guards[t], k) \in Nat
        BY <4>1, CountOf
      <4>3. Entry(k).count[t] <= Count(guards[t], k) /\ Entry(k).count[t] \in Nat
        BY <3>1, Fields DEF LockInv, Backed
      <4> QED BY <4>2, <4>3
    <3>3. Entry(k).waiters = {}
      BY <3>1, Fields DEF LockInv, Queued, Waiting
    <3>4. Unused(Entry(k))
      BY <3>2, <3>3 DEF Unused, Holders
    <3>5. PICK t \in Txns : reap[t] = k
      BY <3>4 DEF LockInv, Kept
    <3> QED BY <2>1, <3>1, <3>5, LockAssumption
  <2> QED BY <2>1, <2>2
<1> QED BY <1>1, LockInvariance, PTL

\* Edges are refreshed on a retry only, yet one that points to a transaction
\* which has neither ended nor been swept is never stale: that transaction
\* keeps the row from the one that waits, races on the entry aside.
EdgesAreBlockers ==
    \A u \in Txns, v \in Using \ swept :
      v \in waitGraph[u] /\ want[u].key \notin raced => v \in Blockers[u]

\* No edge of the wait-for graph to a live transaction is stale.
THEOREM EdgesReal == Spec => []EdgesAreBlockers
<1>1. LockInv => EdgesAreBlockers
  <2> SUFFICES ASSUME LockInv, NEW u \in Txns, NEW v \in Using \ swept,
                      v \in waitGraph[u], want[u].key \notin raced
               PROVE  v \in Blockers[u]
    BY DEF EdgesAreBlockers
  <2>1. v \in Txns /\ pc[u] \in Waiting
    BY DEF Using, LockInv, Phases, Phase
  <2>2. Blocks(u, v)
    BY <2>1 DEF LockInv, Edges
  <2>3. v \in Holders(Entry(want[u].key)) \ {u}
    BY <2>1, <2>2 DEF Blocks, Holders
  <2>4. want[u].mode \in Modes
    BY <2>1 DEF LockInv, Phases, Phase, Guard
  <2>5. ~CanAcquire(Entry(want[u].key), u, want[u].mode)
    BY <2>2, <2>3, <2>4 DEF CanAcquire, Blocks, Modes
  <2> QED BY <2>1, <2>3, <2>5 DEF Blockers
<1> QED BY <1>1, LockInvariance, PTL

\* A deadlock that detect_deadlock reports exists in the lock table.  The trap
\* found in the graph consists of waiting transactions, none of them swept, so
\* by EdgesReal its edges are real and it is a trap of real blockers.
THEOREM DeadlocksReal == Spec => []NoPhantomDeadlock
<1>1. LockInv /\ EdgesAreBlockers => NoPhantomDeadlock
  <2> SUFFICES ASSUME LockInv, EdgesAreBlockers, raced = {}, Using \cap swept = {},
                      NEW t \in Txns, pc[t] = "detect", HasCycle(waitGraph, t)
               PROVE  HasCycle(Blockers, t)
    BY DEF NoPhantomDeadlock, DetectDeadlock
  <2>1. waitGraph \in [Txns -> SUBSET Txns]
    BY DEF LockInv, Typed
  <2>2. PICK X : Trapped(waitGraph, t, X)
    BY <2>1, CycleTraps
  <2>3. X \subseteq Using \ swept
    <3> SUFFICES ASSUME NEW u \in X PROVE u \in Using
      OBVIOUS
    <3>1. u \in Txns /\ waitGraph[u] # {}
      BY <2>2 DEF Trapped
    <3> QED BY <3>1 DEF LockInv, Phases, Phase, Using
  <2>4. \A u \in X : Blockers[u] \cap X # {}
    <3> SUFFICES ASSUME NEW u \in X PROVE Blockers[u] \cap X # {}
      OBVIOUS
    <3>1. PICK v : v \in waitGraph[u] /\ v \in X
      BY <2>2 DEF Trapped
    <3>2. u \in Txns
      BY <2>2 DEF Trapped
    <3> QED BY <2>3, <3>1, <3>2 DEF EdgesAreBlockers
  <2>5. Trapped(Blockers, t, X)
    BY <2>2, <2>4 DEF Trapped
  <2>6. Blockers \in [Txns -> SUBSET Txns]
    <3> DEFINE B(u) == IF pc[u] \in Waiting /\ ~CanAcquire(Entry(want[u].key), u, want[u].mode)
                       THEN Holders(Entry(want[u].key)) \ {u} ELSE {}
    <3>1. \A u \in Txns : B(u) \in SUBSET Txns
      BY DEF Holders
    <3>2. Blockers = [u \in Txns |-> B(u)]
      BY DEF Blockers
    <3> HIDE DEF B
    <3> QED BY <3>1, <3>2
  <2> QED BY <2>5, <2>6, TrapCycles
<1> QED BY <1>1, LockInvariance, EdgesReal, PTL
=============================================================================
