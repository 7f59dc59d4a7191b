-------------------------- MODULE CommitRingProofs --------------------------
(***************************************************************************)
(* Proofs about CommitRing, for any ring size and any set of committers    *)
(* and readers: its invariants, and that it implements SnapshotBarrier.    *)
(*                                                                         *)
(* That a slot is not reused while its commit is pending depends on which  *)
(* slots the announcements between tail and head occupy, on the single     *)
(* reclaimer and on the one committer that is announcing.  RingInv adds    *)
(*   - Locked, Begun: the holder of the timestamp lock has the newest      *)
(*     timestamp, and the slot at head to itself;                          *)
(*   - Window: the entries between tail and head ascend, and only the one  *)
(*     at tail may be empty, while the reclaimer is about to pass it;      *)
(*   - Owned: an announced commit finds its own entry in the window;       *)
(*   - Marked: pending entries are above the watermark;                    *)
(*   - Gate: at most one reclaimer, which knows the entry at tail, and     *)
(*     none while the release of the flag is on its way;                   *)
(*   - Covered: an entry applied at tail has a thread to reclaim it,       *)
(*     unless the flag was refused after its release;                      *)
(*   - Counts, Mutex: what the two counters count;                         *)
(*   - Scans: what a reader's scan has shown so far.                       *)
(***************************************************************************)
EXTENDS CommitRing, FiniteSetTheorems, TLAPS

TryingPC == {"rc_lock", "rc_sweep", "rc_mark", "rc_zero", "rc_tail", "rc_unlock",
             "rc_check", "rc_peek"}
Sweeping == {"rc_sweep", "rc_mark", "rc_zero", "rc_tail", "rc_unlock"}
Returns == {"space", "notify"}

\* The entry of announcement s, while s is between tail and head.
Entry(s) == ring[slot(s)]

\* The newest timestamp that is not still being announced.
Clock == IF tsLock = None THEN timestamp ELSE timestamp - 1

\* c is inside begin_commit.
InBegin(c) == pc[c] \in Beginning \/ (pc[c] \in TryingPC /\ back[c] = "space")

Typed ==
    /\ TypeOK
    /\ back \in [Threads -> Returns \cup {"idle"}]
    /\ \A c \in Committers : pc[c] \in CommitterPC
    /\ \A c \in Committers : pc[c] \in TryingPC => back[c] \in Returns
    /\ \A r \in Readers : pc[r] \in ReaderPC

Counted == {c \in Committers : pc[c] \in {"head", "apply", "uncount"}}
Counts == IsFiniteSet(Counted) /\ pendingCount = Cardinality(Counted)

Locked ==
    /\ \A c \in Committers : tsLock = c <=> InBegin(c)
    /\ \A c \in Committers : InBegin(c) => ts[c] = timestamp /\ timestamp > 0

Begun ==
    /\ \A c \in Committers : pc[c] \in {"store", "count", "head"} =>
         seq[c] = head /\ head < tail + RingSize
    /\ \A c \in Committers : pc[c] \in {"count", "head"} => Entry(head) = Pending(ts[c])

Window ==
    /\ tail <= head /\ head <= tail + RingSize
    /\ \A s \in tail .. head - 1 : Entry(s).ts <= Clock
    /\ \A s, u \in tail .. head - 1 :
         s < u /\ Entry(s).st # "empty" => Entry(s).ts < Entry(u).ts
    /\ \A s \in tail .. head - 1 : Entry(s).st = "empty" =>
         s = tail /\ \E c \in Committers : pc[c] = "rc_tail"

Owned ==
    /\ \A c \in Committers : pc[c] = "apply" =>
         seq[c] \in tail .. head - 1 /\ Entry(seq[c]) = Pending(ts[c]) /\ ts[c] > 0
    /\ \A c, d \in Committers :
         pc[c] = "apply" /\ pc[d] = "apply" /\ seq[c] = seq[d] => c = d

Marked ==
    /\ appliedWatermark <= Clock
    /\ \A s \in tail .. head - 1 :
         Entry(s).st = "pending" => Entry(s).ts > appliedWatermark

Gate ==
    /\ \A c, d \in Committers : pc[c] \in Sweeping /\ pc[d] \in Sweeping => c = d
    /\ reclaimFlag => flagStore # None \/ \E c \in Committers : pc[c] \in Sweeping
    /\ \A c \in Committers : pc[c] \in Sweeping => reclaimFlag /\ flagStore = None
    /\ \A c \in Committers : pc[c] \in {"rc_mark", "rc_zero"} =>
         tail < head /\ Entry(tail).st = "applied"
    /\ \A c \in Committers : pc[c] = "rc_tail" =>
         tail < head /\ Entry(tail).st = "empty"

Covers(c) ==
    \/ pc[c] \in ({"uncount"} \cup TryingPC) \ {"rc_peek"}
    \/ pc[c] = "rc_peek" /\ lt[c] = tail
Covered ==
    tail < head /\ Entry(tail).st # "pending" =>
      missed \/ \E c \in Committers : Covers(c)

Registered == {r \in Readers : barrierLock = r \/ pc[r] = "b_wake"}
Mutex ==
    /\ \A r \in Readers : barrierLock = r =>
         pc[r] \in {"b_tail", "b_head", "b_slot", "b_valid", "b_sleep", "b_leave"}
    /\ \A r \in Readers : pc[r] \in {"b_sleep", "b_leave"} => barrierLock = r
    /\ IsFiniteSet(Registered) /\ barrierWaiters = Cardinality(Registered)

\* c is announced, not applied, and the snapshot of r must wait for it.
Due(r, c) == pc[c] = "apply" /\ ts[c] <= ts[r]

Scan(r) ==
    /\ ts[r] = 0 <=> pc[r] = "idle"
    /\ ts[r] <= Clock
    /\ pc[r] \in {"b_head", "b_slot", "b_valid"} => lt[r] <= tail
    /\ pc[r] = "b_slot" =>
         /\ lt[r] <= ls[r] /\ ls[r] <= lh[r] /\ lh[r] <= head
         /\ \A c \in Committers : Due(r, c) => ls[r] <= seq[c] /\ seq[c] < lh[r]
    /\ pc[r] = "b_valid" /\ tail = lt[r] => \A c \in Committers : ~Due(r, c)
    /\ pc[r] = "b_leave" => \A c \in Committers : ~Due(r, c)
Scans == \A r \in Readers : Scan(r)

Ledger == Counts /\ Locked /\ Begun /\ Window /\ Owned /\ Marked /\ Gate /\ Covered
RingInv == Typed /\ Ledger /\ Mutex /\ Scans

-----------------------------------------------------------------------------
(* The ring.                                                               *)

\* Announcements less than a ring apart are in different slots.
LEMMA SlotsDiffer ==
  ASSUME NEW s \in Nat, NEW u \in Nat, s < u, u < s + RingSize
  PROVE  slot(s) # slot(u)
  <1> USE CommitRingAssumption
  <1> DEFINE q == s \div RingSize
             r == u \div RingSize
  <1>1. q \in Int /\ r \in Int OBVIOUS
  <1>2. s = RingSize * q + (s % RingSize) OBVIOUS
  <1>3. u = RingSize * r + (u % RingSize) OBVIOUS
  <1> HIDE DEF q, r
  <1>4. r <= q => RingSize * r <= RingSize * q BY <1>1
  <1>5. r >= q + 1 => RingSize * r >= RingSize * q + RingSize BY <1>1
  <1> QED BY <1>1, <1>2, <1>3, <1>4, <1>5 DEF slot

\* A number is always mapped to a slot of the ring.
LEMMA SlotInRing ==
  ASSUME NEW s \in Nat
  PROVE  slot(s) \in 0 .. RingSize - 1
  BY CommitRingAssumption DEF slot

\* The types that the proofs use, one by one.
LEMMA Types ==
  ASSUME Typed
  PROVE  /\ timestamp \in Nat /\ tsLock \in Committers \cup {None}
         /\ ring \in [0 .. RingSize - 1 -> SlotValues]
         /\ head \in Nat /\ tail \in Nat /\ reclaimFlag \in BOOLEAN
         /\ flagStore \in Committers \cup {None} /\ missed \in BOOLEAN
         /\ pendingCount \in Nat /\ appliedWatermark \in Nat
         /\ barrierWaiters \in Nat /\ barrierLock \in Readers \cup {None}
         /\ parked \subseteq Readers
         /\ pc \in [Threads -> CommitterPC \cup ReaderPC]
         /\ ts \in [Threads -> Nat] /\ seq \in [Threads -> Nat]
         /\ lt \in [Threads -> Nat] /\ lh \in [Threads -> Nat]
         /\ ls \in [Threads -> Nat]
         /\ back \in [Threads -> Returns \cup {"idle"}]
         /\ \A p \in Committers \cup Readers : p \in Threads /\ p # None
         /\ RingSize \in Nat \ {0}
  BY CommitRingAssumption DEF Typed, TypeOK, Threads

\* A store into the slot of announcement k changes no other entry of the window
\* that k belongs to.
LEMMA RingWrite ==
  ASSUME Typed, NEW k \in Nat, NEW v,
         ring' = [ring EXCEPT ![slot(k)] = v],
         tail <= k, k < tail + RingSize
  PROVE  /\ ring'[slot(k)] = v
         /\ \A s \in tail .. tail + RingSize - 1 : s # k => ring'[slot(s)] = Entry(s)
  <1>1. tail \in Nat /\ RingSize \in Nat /\ ring \in [0 .. RingSize - 1 -> SlotValues]
    BY Types
  <1>2. slot(k) \in 0 .. RingSize - 1 BY SlotInRing
  <1>3. ASSUME NEW s \in tail .. tail + RingSize - 1, s # k
        PROVE  ring'[slot(s)] = Entry(s)
    <2>1. s \in Nat /\ (s < k \/ k < s) BY <1>1, <1>3
    <2>2. s < k => k < s + RingSize BY <1>1, <2>1
    <2>3. k < s => s < k + RingSize BY <1>1, <2>1
    <2>4. slot(s) # slot(k) BY <2>1, <2>2, <2>3, SlotsDiffer
    <2>5. slot(s) \in 0 .. RingSize - 1 BY <2>1, SlotInRing
    <2> QED BY <1>1, <1>2, <2>4, <2>5 DEF Entry
  <1> QED BY <1>1, <1>2, <1>3

\* The clock of announced timestamps is a number below the counter.
LEMMA ClockBound ==
  ASSUME Typed, Locked
  PROVE  Clock \in Nat /\ Clock <= timestamp /\ (tsLock # None => Clock < timestamp)
  <1>1. timestamp \in Nat /\ tsLock \in Committers \cup {None} BY Types
  <1>2. tsLock # None => timestamp > 0 BY <1>1 DEF Locked
  <1> QED BY <1>1, <1>2 DEF Clock

-----------------------------------------------------------------------------
(* Initial state.                                                          *)

\* The empty ring with every thread idle satisfies the invariant.
LEMMA RingInit == Init => RingInv
  <1> SUFFICES ASSUME Init PROVE RingInv
      OBVIOUS
  <1> USE CommitRingAssumption DEF Init
  <1>1. Typed
    <2>1. Empty \in SlotValues BY DEF Empty, SlotValues
    <2>2. ring \in [0 .. RingSize - 1 -> SlotValues] BY <2>1
    <2>3. /\ ts \in [Threads -> Nat] /\ seq \in [Threads -> Nat] /\ lt \in [Threads -> Nat]
          /\ lh \in [Threads -> Nat] /\ ls \in [Threads -> Nat]
      OBVIOUS
    <2>4. pc \in [Threads -> CommitterPC \cup ReaderPC] BY DEF ReaderPC
    <2>5. TypeOK BY <2>2, <2>3, <2>4 DEF TypeOK
    <2> QED BY <2>5 DEF Typed, CommitterPC, ReaderPC, Returns, TryingPC, Threads
  <1>2. Counts
    <2>1. Counted = {} BY DEF Counted, Threads
    <2> QED BY <2>1, FS_EmptySet DEF Counts
  <1>3. Locked /\ Begun /\ Window /\ Owned /\ Marked /\ Gate /\ Covered
    BY DEF Locked, InBegin, Begun, Window, Owned, Marked, Gate, Covered, Clock,
       Beginning, TryingPC, Sweeping, Threads
  <1>4. Mutex
    <2>1. Registered = {} BY DEF Registered, Threads
    <2> QED BY <2>1, FS_EmptySet DEF Mutex, Threads
  <1>5. Scans BY DEF Scans, Scan, Clock, Due, Threads
  <1> QED BY <1>1, <1>2, <1>3, <1>4, <1>5 DEF RingInv, Ledger

-----------------------------------------------------------------------------
(* The committers: what a step does to the ledger.                         *)

\* A step of p that neither touches the ring nor announces leaves the entries
\* in order, owned and above the watermark.
LEMMA Untouched ==
  ASSUME Typed, Window, Owned, Marked, NEW p \in Committers,
         UNCHANGED <<ring, head, tail, appliedWatermark>>, Clock' = Clock,
         pc[p] # "rc_tail", pc'[p] # "apply",
         \A c \in Committers : c # p =>
           pc'[c] = pc[c] /\ ts'[c] = ts[c] /\ seq'[c] = seq[c]
  PROVE  Window' /\ Owned' /\ Marked'
  <1>1. \A s : Entry(s)' = Entry(s) BY DEF Entry
  <1>2. Window' BY <1>1 DEF Window
  <1>3. Owned' BY <1>1 DEF Owned
  <1>4. Marked' BY <1>1 DEF Marked
  <1> QED BY <1>2, <1>3, <1>4

\* The lock of the timestamp counter is taken.
LEMMA AllocInv ==
  ASSUME Typed, Ledger, NEW p \in Committers, AllocCommitTs(p)
  PROVE  Typed' /\ Ledger'
  <1> USE DEF Ledger
  <1>1. /\ pc[p] = "idle" /\ tsLock = None /\ tsLock' = p
        /\ timestamp' = timestamp + 1
        /\ ts' = [ts EXCEPT ![p] = timestamp + 1]
        /\ pc' = [pc EXCEPT ![p] = "space"]
        /\ UNCHANGED <<ring, head, tail, reclaimFlag,
                       flagStore, missed, pendingCount, appliedWatermark>>
        /\ UNCHANGED <<barrierWaiters, barrierLock, parked, seq, back, lt, lh, ls>>
    BY DEF AllocCommitTs, Goto, ledger, gate, barrier, locals
  <1>2. /\ timestamp \in Nat /\ pc \in [Threads -> CommitterPC \cup ReaderPC]
        /\ ts \in [Threads -> Nat] /\ p \in Threads /\ p # None
        /\ \A c \in Committers : c \in Threads /\ c # None
        /\ p \notin Readers
    BY Types, CommitRingAssumption
  <1>3. Typed'
    <2>1. timestamp' \in Nat /\ ts' \in [Threads -> Nat] BY <1>1, <1>2
    <2>2. pc' \in [Threads -> CommitterPC \cup ReaderPC]
      BY <1>1, <1>2 DEF CommitterPC, Beginning
    <2>3. TypeOK' BY <1>1, <2>1, <2>2 DEF Typed, TypeOK
    <2> QED BY <1>1, <1>2, <2>3 DEF Typed, CommitterPC, Beginning, TryingPC
  <1>4. Clock' = Clock BY <1>1, <1>2 DEF Clock
  <1>5. Window' /\ Owned' /\ Marked'
    BY <1>1, <1>2, <1>4, Untouched
  <1>6. Counts'
    <2>1. Counted' = Counted BY <1>1, <1>2 DEF Counted
    <2> QED BY <1>1, <2>1 DEF Counts
  <1>7. Locked'
    <2>1. \A c \in Committers : ~InBegin(c) BY <1>1, <1>2 DEF Locked
    <2>2. \A c \in Committers : InBegin(c)' <=> c = p
      BY <1>1, <1>2, <2>1 DEF InBegin, Beginning, TryingPC
    <2> QED BY <1>1, <1>2, <2>2 DEF Locked
  <1>8. Begun' BY <1>1, <1>2 DEF Begun, Entry
  <1>9. Gate' BY <1>1, <1>2 DEF Gate, Sweeping, Entry
  <1>10. Covered'
    <2>1. \A c \in Committers : Covers(c) => Covers(c)'
      BY <1>1, <1>2 DEF Covers, TryingPC
    <2> QED BY <1>1, <2>1 DEF Covered, Entry
  <1> QED BY <1>3, <1>5, <1>6, <1>7, <1>8, <1>9, <1>10

\* A committer that finds the ring full goes to reclaim, with the lock held.
LEMMA RingFullInv ==
  ASSUME Typed, Ledger, NEW p \in Committers, RingFull(p)
  PROVE  Typed' /\ Ledger'
  <1> USE DEF Ledger
  <1>1. /\ pc[p] = "space"
        /\ pc' = [pc EXCEPT ![p] = "rc_lock"] /\ back' = [back EXCEPT ![p] = "space"]
        /\ UNCHANGED <<timestamp, tsLock, ring, head, tail, reclaimFlag,
                       flagStore, missed, pendingCount>>
        /\ UNCHANGED <<appliedWatermark, barrierWaiters, barrierLock, parked>>
        /\ UNCHANGED <<ts, seq, lt, lh, ls>>
    BY DEF RingFull, Goto, ledger, gate, barrier
  <1>2. /\ pc \in [Threads -> CommitterPC \cup ReaderPC] /\ p \in Threads
        /\ back \in [Threads -> Returns \cup {"idle"}]
        /\ \A c \in Committers : c \in Threads
        /\ p \notin Readers
    BY Types, CommitRingAssumption
  <1>3. Typed'
    <2>1. pc' \in [Threads -> CommitterPC \cup ReaderPC]
      BY <1>1, <1>2 DEF CommitterPC, Reclaiming
    <2>2. TypeOK' BY <1>1, <2>1 DEF Typed, TypeOK
    <2>3. back' \in [Threads -> Returns \cup {"idle"}] BY <1>1, <1>2 DEF Returns
    <2> QED BY <1>1, <1>2, <2>2, <2>3 DEF Typed, CommitterPC, Reclaiming, Returns
  <1>4. Clock' = Clock BY <1>1 DEF Clock
  <1>5. Window' /\ Owned' /\ Marked'
    BY <1>1, <1>2, <1>4, Untouched
  <1>6. Counts'
    <2>1. Counted' = Counted BY <1>1, <1>2 DEF Counted
    <2> QED BY <1>1, <2>1 DEF Counts
  <1>7. Locked'
    <2>1. \A c \in Committers : InBegin(c)' <=> InBegin(c)
      BY <1>1, <1>2 DEF InBegin, Beginning, TryingPC
    <2> QED BY <1>1, <2>1 DEF Locked
  <1>8. Begun' BY <1>1, <1>2 DEF Begun, Entry
  <1>9. Gate' BY <1>1, <1>2 DEF Gate, Sweeping, Entry
  <1>10. Covered'
    <2>1. \A c \in Committers : Covers(c) => Covers(c)'
      BY <1>1, <1>2 DEF Covers, TryingPC
    <2> QED BY <1>1, <2>1 DEF Covered, Entry
  <1> QED BY <1>3, <1>5, <1>6, <1>7, <1>8, <1>9, <1>10

\* A committer that finds space takes the number at head.
LEMMA RingSpaceInv ==
  ASSUME Typed, Ledger, NEW p \in Committers, RingSpace(p)
  PROVE  Typed' /\ Ledger'
  <1> USE DEF Ledger
  <1>1. /\ pc[p] = "space" /\ head - tail < RingSize
        /\ pc' = [pc EXCEPT ![p] = "store"] /\ seq' = [seq EXCEPT ![p] = head]
        /\ UNCHANGED <<timestamp, tsLock, ring, head, tail, reclaimFlag,
                       flagStore, missed, pendingCount>>
        /\ UNCHANGED <<appliedWatermark, barrierWaiters, barrierLock, parked>>
        /\ UNCHANGED <<ts, back, lt, lh, ls>>
    BY DEF RingSpace, Goto, ledger, gate, barrier
  <1>2. /\ pc \in [Threads -> CommitterPC \cup ReaderPC] /\ p \in Threads
        /\ seq \in [Threads -> Nat] /\ head \in Nat /\ tail \in Nat /\ RingSize \in Nat
        /\ \A c \in Committers : c \in Threads
        /\ p \notin Readers
    BY Types, CommitRingAssumption
  <1>3. Typed'
    <2>1. pc' \in [Threads -> CommitterPC \cup ReaderPC]
      BY <1>1, <1>2 DEF CommitterPC, Beginning
    <2>2. seq' \in [Threads -> Nat] BY <1>1, <1>2
    <2>3. TypeOK' BY <1>1, <2>1, <2>2 DEF Typed, TypeOK
    <2> QED BY <1>1, <1>2, <2>3 DEF Typed, CommitterPC, Beginning, TryingPC
  <1>4. Clock' = Clock BY <1>1 DEF Clock
  <1>5. Window' /\ Owned' /\ Marked'
    BY <1>1, <1>2, <1>4, Untouched
  <1>6. Counts'
    <2>1. Counted' = Counted BY <1>1, <1>2 DEF Counted
    <2> QED BY <1>1, <2>1 DEF Counts
  <1>7. Locked'
    <2>1. \A c \in Committers : InBegin(c)' <=> InBegin(c)
      BY <1>1, <1>2 DEF InBegin, Beginning, TryingPC
    <2> QED BY <1>1, <2>1 DEF Locked
  <1>8. Begun'
    <2>1. head < tail + RingSize BY <1>1, <1>2
    <2> QED BY <1>1, <1>2, <2>1 DEF Begun, Entry
  <1>9. Gate' BY <1>1, <1>2 DEF Gate, Sweeping, Entry
  <1>10. Covered'
    <2>1. \A c \in Committers : Covers(c) => Covers(c)'
      BY <1>1, <1>2 DEF Covers, TryingPC
    <2> QED BY <1>1, <2>1 DEF Covered, Entry
  <1> QED BY <1>3, <1>5, <1>6, <1>7, <1>8, <1>9, <1>10

\* The entry is stored at head, outside the window.
LEMMA StoreSlotInv ==
  ASSUME Typed, Ledger, NEW p \in Committers, StoreSlot(p)
  PROVE  Typed' /\ Ledger'
  <1> USE DEF Ledger
  <1>1. /\ pc[p] = "store"
        /\ pc' = [pc EXCEPT ![p] = "count"]
        /\ ring' = [ring EXCEPT ![slot(seq[p])] = Pending(ts[p])]
        /\ UNCHANGED <<timestamp, tsLock, head, tail, reclaimFlag,
                       flagStore, missed, pendingCount>>
        /\ UNCHANGED <<appliedWatermark, barrierWaiters, barrierLock, parked>>
        /\ UNCHANGED <<ts, seq, back, lt, lh, ls>>
    BY DEF StoreSlot, Goto, gate, barrier, locals
  <1>2. /\ pc \in [Threads -> CommitterPC \cup ReaderPC] /\ p \in Threads
        /\ ring \in [0 .. RingSize - 1 -> SlotValues] /\ ts \in [Threads -> Nat]
        /\ head \in Nat /\ tail \in Nat /\ RingSize \in Nat
        /\ \A c \in Committers : c \in Threads
        /\ p \notin Readers
    BY Types, CommitRingAssumption
  <1>3. seq[p] = head /\ head < tail + RingSize /\ tail <= head
    BY <1>1 DEF Begun, Window
  <1>4. /\ Entry(head)' = Pending(ts[p])
        /\ \A s \in tail .. head - 1 : Entry(s)' = Entry(s)
    <2>1. /\ ring'[slot(head)] = Pending(ts[p])
          /\ \A s \in tail .. tail + RingSize - 1 : s # head => ring'[slot(s)] = Entry(s)
      BY <1>1, <1>2, <1>3, RingWrite
    <2>2. Entry(head)' = Pending(ts[p]) BY <1>1, <2>1 DEF Entry
    <2>3. ASSUME NEW s \in tail .. head - 1 PROVE Entry(s)' = Entry(s)
      <3>1. s \in tail .. tail + RingSize - 1 /\ s # head BY <1>2, <1>3
      <3>2. Entry(s)' = ring'[slot(s)] BY DEF Entry
      <3> QED BY <2>1, <3>1, <3>2
    <2> QED BY <2>2, <2>3
  <1>5. \A c \in Committers : InBegin(c)' <=> InBegin(c)
    BY <1>1, <1>2 DEF InBegin, Beginning, TryingPC
  <1>6. Typed'
    <2>1. pc' \in [Threads -> CommitterPC \cup ReaderPC]
      BY <1>1, <1>2 DEF CommitterPC, Beginning
    <2>2. ring' \in [0 .. RingSize - 1 -> SlotValues]
      <3>1. Pending(ts[p]) \in SlotValues BY <1>2 DEF Pending, SlotValues
      <3> QED BY <1>1, <1>2, <3>1
    <2>3. TypeOK' BY <1>1, <2>1, <2>2 DEF Typed, TypeOK
    <2> QED BY <1>1, <1>2, <2>3 DEF Typed, CommitterPC, Beginning, TryingPC
  <1>7. Counts'
    <2>1. Counted' = Counted BY <1>1, <1>2 DEF Counted
    <2> QED BY <1>1, <2>1 DEF Counts
  <1>8. Locked' BY <1>1, <1>5 DEF Locked
  <1>9. Begun'
    <2>1. \A c \in Committers : pc[c] \in Beginning => c = p
      BY <1>1, <1>2 DEF Locked, InBegin, Beginning
    <2>2. \A c \in Committers : pc'[c] \in {"store", "count", "head"} => c = p
      BY <1>1, <1>2, <2>1 DEF Beginning
    <2> QED BY <1>1, <1>2, <1>3, <1>4, <2>2 DEF Begun
  <1>10. Clock' = Clock BY <1>1 DEF Clock
  <1>11. Window'
    <2>1. \A c \in Committers : pc[c] = "rc_tail" => pc'[c] = "rc_tail" BY <1>1, <1>2
    <2> QED BY <1>1, <1>4, <1>10, <2>1 DEF Window
  <1>12. Owned' BY <1>1, <1>2, <1>4 DEF Owned
  <1>13. Marked' BY <1>1, <1>4, <1>10 DEF Marked
  <1>14. tail < head => Entry(tail)' = Entry(tail)
    <2>1. tail < head => tail \in tail .. head - 1 BY <1>2
    <2> QED BY <1>1, <1>4, <2>1 DEF Entry
  <1>15. Gate'
    <2>1. /\ \A c \in Committers : pc'[c] \in Sweeping <=> pc[c] \in Sweeping
          /\ \A c \in Committers : pc'[c] \in Sweeping => pc'[c] = pc[c]
      BY <1>1, <1>2 DEF Sweeping
    <2>2. \A c \in Committers : pc'[c] \in {"rc_mark", "rc_zero", "rc_tail"} => pc'[c] = pc[c]
      BY <1>1, <1>2
    <2> QED BY <1>1, <1>14, <2>1, <2>2 DEF Gate
  <1>16. Covered'
    <2>1. \A c \in Committers : Covers(c) => Covers(c)'
      BY <1>1, <1>2 DEF Covers, TryingPC
    <2> QED BY <1>1, <1>14, <2>1 DEF Covered
  <1> QED BY <1>6, <1>7, <1>8, <1>9, <1>11, <1>12, <1>13, <1>15, <1>16

\* The announcement is counted.
LEMMA CountPendingInv ==
  ASSUME Typed, Ledger, NEW p \in Committers, CountPending(p)
  PROVE  Typed' /\ Ledger'
  <1> USE DEF Ledger
  <1>1. /\ pc[p] = "count" /\ pendingCount' = pendingCount + 1
        /\ pc' = [pc EXCEPT ![p] = "head"]
        /\ UNCHANGED <<timestamp, tsLock, ring, head, tail, reclaimFlag, flagStore, missed>>
        /\ UNCHANGED <<appliedWatermark, barrierWaiters, barrierLock, parked>>
        /\ UNCHANGED <<ts, seq, back, lt, lh, ls>>
    BY DEF CountPending, Goto, gate, barrier, locals
  <1>2. /\ pc \in [Threads -> CommitterPC \cup ReaderPC] /\ p \in Threads
        /\ pendingCount \in Nat
        /\ \A c \in Committers : c \in Threads
        /\ p \notin Readers
    BY Types, CommitRingAssumption
  <1>3. Typed'
    <2>1. pc' \in [Threads -> CommitterPC \cup ReaderPC]
      BY <1>1, <1>2 DEF CommitterPC, Beginning
    <2>2. pendingCount' \in Nat BY <1>1, <1>2
    <2>3. TypeOK' BY <1>1, <2>1, <2>2 DEF Typed, TypeOK
    <2> QED BY <1>1, <1>2, <2>3 DEF Typed, CommitterPC, Beginning, TryingPC
  <1>4. Clock' = Clock BY <1>1 DEF Clock
  <1>5. Window' /\ Owned' /\ Marked'
    BY <1>1, <1>2, <1>4, Untouched
  <1>6. Counts'
    <2>1. Counted' = Counted \cup {p} /\ p \notin Counted
      BY <1>1, <1>2 DEF Counted
    <2>2. IsFiniteSet(Counted \cup {p}) /\ Cardinality(Counted \cup {p}) = Cardinality(Counted) + 1
      BY <2>1, FS_AddElement DEF Counts
    <2> QED BY <1>1, <2>1, <2>2 DEF Counts
  <1>7. Locked'
    <2>1. \A c \in Committers : InBegin(c)' <=> InBegin(c)
      BY <1>1, <1>2 DEF InBegin, Beginning, TryingPC
    <2> QED BY <1>1, <2>1 DEF Locked
  <1>8. Begun' BY <1>1, <1>2 DEF Begun, Entry
  <1>9. Gate' BY <1>1, <1>2 DEF Gate, Sweeping, Entry
  <1>10. Covered'
    <2>1. \A c \in Committers : Covers(c) => Covers(c)'
      BY <1>1, <1>2 DEF Covers, TryingPC
    <2> QED BY <1>1, <2>1 DEF Covered, Entry
  <1> QED BY <1>3, <1>5, <1>6, <1>7, <1>8, <1>9, <1>10

\* head passes the new entry, which is newer than all in the window, and the
\* timestamp lock is released.
LEMMA BumpHeadInv ==
  ASSUME Typed, Ledger, NEW p \in Committers, BumpHead(p)
  PROVE  Typed' /\ Ledger'
  <1> USE DEF Ledger
  <1>1. /\ pc[p] = "head" /\ head' = seq[p] + 1 /\ tsLock' = None
        /\ pc' = [pc EXCEPT ![p] = "apply"]
        /\ UNCHANGED <<timestamp, ring, tail, reclaimFlag, flagStore, missed, pendingCount>>
        /\ UNCHANGED <<appliedWatermark, barrierWaiters, barrierLock, parked>>
        /\ UNCHANGED <<ts, seq, back, lt, lh, ls>>
    BY DEF BumpHead, Goto, gate, barrier, locals
  <1>2. /\ pc \in [Threads -> CommitterPC \cup ReaderPC] /\ p \in Threads
        /\ head \in Nat /\ tail \in Nat /\ RingSize \in Nat /\ timestamp \in Nat
        /\ appliedWatermark \in Nat /\ seq \in [Threads -> Nat]
        /\ \A c \in Committers : c \in Threads /\ c # None
        /\ p \notin Readers
    BY Types, CommitRingAssumption
  <1>3. /\ seq[p] = head /\ head' = head + 1 /\ head < tail + RingSize /\ tail <= head
        /\ Entry(head) = Pending(ts[p])
    BY <1>1 DEF Begun, Window
  <1>4. /\ tsLock = p /\ ts[p] = timestamp /\ timestamp > 0
        /\ \A c \in Committers : InBegin(c) => c = p
    BY <1>1, <1>2 DEF Locked, InBegin, Beginning
  <1>5. Clock = timestamp - 1 /\ Clock' = timestamp
    BY <1>1, <1>2, <1>4 DEF Clock
  <1>6. /\ \A s : Entry(s)' = Entry(s)
        /\ \A s \in tail .. head : s \in tail .. head - 1 \/ s = head
        /\ tail .. head' - 1 = tail .. head
        /\ Entry(head).ts = timestamp /\ Entry(head).st = "pending"
    <2>1. \A s : Entry(s)' = Entry(s) BY <1>1 DEF Entry
    <2>2. \A s \in tail .. head : s \in tail .. head - 1 \/ s = head BY <1>2
    <2>3. tail .. head' - 1 = tail .. head BY <1>2, <1>3
    <2>4. Entry(head).ts = timestamp /\ Entry(head).st = "pending"
      BY <1>3, <1>4 DEF Pending
    <2> QED BY <2>1, <2>2, <2>3, <2>4
  <1>7. \A s \in tail .. head - 1 : Entry(s).ts <= Clock /\ Entry(s).ts \in Nat
    <2>1. \A s \in tail .. head - 1 : slot(s) \in 0 .. RingSize - 1
      BY <1>2, SlotInRing
    <2>2. \A s \in tail .. head - 1 : Entry(s) \in SlotValues BY <2>1, Types DEF Entry
    <2> QED BY <2>2 DEF Window, SlotValues
  <1>8. Typed'
    <2>1. pc' \in [Threads -> CommitterPC \cup ReaderPC]
      BY <1>1, <1>2 DEF CommitterPC, Announced
    <2>2. head' \in Nat BY <1>2, <1>3
    <2>3. TypeOK' BY <1>1, <2>1, <2>2 DEF Typed, TypeOK
    <2> QED BY <1>1, <1>2, <2>3 DEF Typed, CommitterPC, Announced, TryingPC
  <1>9. Counts'
    <2>1. Counted' = Counted BY <1>1, <1>2 DEF Counted
    <2> QED BY <1>1, <2>1 DEF Counts
  <1>10. \A c \in Committers : ~InBegin(c)'
    BY <1>1, <1>2, <1>4 DEF InBegin, Beginning, TryingPC
  <1>11. Locked' BY <1>1, <1>2, <1>10 DEF Locked
  <1>12. Begun'
    <2>1. \A c \in Committers : pc'[c] \notin Beginning BY <1>10 DEF InBegin
    <2> QED BY <2>1 DEF Begun, Beginning
  <1>13. Window'
    <2>1. tail <= head + 1 /\ head + 1 <= tail + RingSize BY <1>2, <1>3
    <2>2. \A s \in tail .. head : Entry(s).ts <= timestamp
      BY <1>2, <1>5, <1>6, <1>7
    <2>3. ASSUME NEW s \in tail .. head, NEW u \in tail .. head, s < u,
                 Entry(s).st # "empty"
          PROVE  Entry(s).ts < Entry(u).ts
      <3>1. s \in tail .. head - 1 BY <1>2, <2>3
      <3>2. CASE u = head BY <1>2, <1>5, <1>6, <1>7, <3>1, <3>2
      <3>3. CASE u \in tail .. head - 1 BY <2>3, <3>1, <3>3 DEF Window
      <3> QED BY <1>6, <3>2, <3>3
    <2>4. \A c \in Committers : pc[c] = "rc_tail" => pc'[c] = "rc_tail" BY <1>1, <1>2
    <2>5. \A s \in tail .. head : Entry(s).st = "empty" =>
            s = tail /\ \E c \in Committers : pc'[c] = "rc_tail"
      BY <1>6, <2>4 DEF Window
    <2> QED BY <1>1, <1>3, <1>5, <1>6, <2>1, <2>2, <2>3, <2>5 DEF Window
  <1>14. Owned'
    <2>1. \A c \in Committers : pc'[c] = "apply" => c = p \/ pc[c] = "apply"
      BY <1>1, <1>2
    <2>2. \A c \in Committers : pc[c] = "apply" =>
            /\ seq[c] \in tail .. head /\ Entry(seq[c]) = Pending(ts[c]) /\ ts[c] > 0
            /\ seq[c] # head
      BY <1>2 DEF Owned
    <2>3. head \in tail .. head BY <1>2, <1>3
    <2>4. \A c \in Committers : pc'[c] = "apply" =>
            seq[c] \in tail .. head /\ Entry(seq[c]) = Pending(ts[c]) /\ ts[c] > 0
      BY <1>3, <1>4, <2>1, <2>2, <2>3
    <2>5. \A c, d \in Committers :
            pc'[c] = "apply" /\ pc'[d] = "apply" /\ seq[c] = seq[d] => c = d
      BY <1>3, <2>1, <2>2 DEF Owned
    <2>6. \A c \in Committers : Entry(seq[c])' = Entry(seq[c]) BY <1>1 DEF Entry
    <2> QED BY <1>1, <1>6, <2>4, <2>5, <2>6 DEF Owned
  <1>15. Marked'
    <2>1. appliedWatermark <= Clock BY DEF Marked
    <2>2. appliedWatermark < timestamp BY <1>2, <1>5, <2>1
    <2>3. \A s \in tail .. head : Entry(s).st = "pending" => Entry(s).ts > appliedWatermark
      BY <1>2, <1>6, <2>2 DEF Marked
    <2> QED BY <1>1, <1>2, <1>5, <1>6, <2>2, <2>3 DEF Marked
  <1>16. tail < head' BY <1>2, <1>3
  <1>17. tail < head \/ (tail = head /\ Entry(tail).st = "pending")
    BY <1>2, <1>3, <1>6
  <1>18. Gate' BY <1>1, <1>2, <1>16 DEF Gate, Sweeping, Entry
  <1>19. Covered'
    <2>1. \A c \in Committers : Covers(c) => Covers(c)'
      BY <1>1, <1>2 DEF Covers, TryingPC
    <2> QED BY <1>1, <1>17, <2>1 DEF Covered, Entry
  <1> QED BY <1>8, <1>9, <1>11, <1>12, <1>13, <1>14, <1>15, <1>18, <1>19

\* The CAS of end_commit always wins; its entry becomes applied in place.
LEMMA MarkAppliedInv ==
  ASSUME Typed, Ledger, NEW p \in Committers, MarkApplied(p)
  PROVE  Typed' /\ Ledger'
  <1> USE DEF Ledger
  <1>1. /\ pc[p] = "apply" /\ pc' = [pc EXCEPT ![p] = "uncount"]
        /\ ring' = [ring EXCEPT ![slot(seq[p])] = Applied(ts[p])]
        /\ UNCHANGED <<timestamp, tsLock, head, tail, reclaimFlag,
                       flagStore, missed, pendingCount>>
        /\ UNCHANGED <<appliedWatermark, barrierWaiters, barrierLock, parked>>
        /\ UNCHANGED <<ts, seq, back, lt, lh, ls>>
    BY DEF MarkApplied, Goto, gate, barrier, locals, Owned, Entry
  <1>2. /\ pc \in [Threads -> CommitterPC \cup ReaderPC] /\ p \in Threads
        /\ head \in Nat /\ tail \in Nat /\ RingSize \in Nat
        /\ ring \in [0 .. RingSize - 1 -> SlotValues] /\ ts \in [Threads -> Nat]
        /\ \A c \in Committers : c \in Threads
        /\ p \notin Readers
    BY Types, CommitRingAssumption
  <1>3. /\ seq[p] \in tail .. head - 1 /\ Entry(seq[p]) = Pending(ts[p])
        /\ head <= tail + RingSize
    BY <1>1 DEF Owned, Window
  <1>4. /\ ring'[slot(seq[p])] = Applied(ts[p])
        /\ \A s \in tail .. tail + RingSize - 1 : s # seq[p] => ring'[slot(s)] = Entry(s)
    <2>1. seq[p] \in Nat /\ tail <= seq[p] /\ seq[p] < tail + RingSize BY <1>2, <1>3
    <2> QED BY <1>1, <2>1, RingWrite
  <1>5. \A s \in tail .. tail + RingSize - 1 :
          /\ s # seq[p] => Entry(s)' = Entry(s)
          /\ s = seq[p] => Entry(s)' = Applied(ts[p]) /\ Entry(s) = Pending(ts[p])
    BY <1>3, <1>4 DEF Entry
  <1>6. \A s \in tail .. head - 1 : s \in tail .. tail + RingSize - 1 BY <1>2, <1>3
  <1>7. \A s \in tail .. tail + RingSize - 1 : Entry(s)'.ts = Entry(s).ts
    BY <1>5 DEF Pending, Applied
  <1>8. Typed'
    <2>1. pc' \in [Threads -> CommitterPC \cup ReaderPC]
      BY <1>1, <1>2 DEF CommitterPC, Reclaiming
    <2>2. ring' \in [0 .. RingSize - 1 -> SlotValues]
      <3>1. Applied(ts[p]) \in SlotValues BY <1>2 DEF Applied, SlotValues
      <3> QED BY <1>1, <1>2, <3>1
    <2>3. TypeOK' BY <1>1, <2>1, <2>2 DEF Typed, TypeOK
    <2> QED BY <1>1, <1>2, <2>3 DEF Typed, CommitterPC, Reclaiming, TryingPC
  <1>9. Counts'
    <2>1. Counted' = Counted BY <1>1, <1>2 DEF Counted
    <2> QED BY <1>1, <2>1 DEF Counts
  <1>10. Locked'
    <2>1. \A c \in Committers : InBegin(c)' <=> InBegin(c)
      BY <1>1, <1>2 DEF InBegin, Beginning, TryingPC
    <2> QED BY <1>1, <2>1 DEF Locked
  <1>11. Begun'
    <2>1. \A c \in Committers : pc'[c] \in {"store", "count", "head"} => pc[c] = pc'[c]
      BY <1>1, <1>2
    <2>2. ASSUME NEW c \in Committers, pc'[c] \in {"count", "head"}
          PROVE  ring'[slot(head)] = Pending(ts[c])
      <3>1. Entry(head) = Pending(ts[c]) /\ head < tail + RingSize
        BY <2>1, <2>2 DEF Begun
      <3>2. head \in tail .. tail + RingSize - 1 /\ head # seq[p]
        BY <1>2, <1>3, <3>1 DEF Window
      <3> QED BY <1>4, <3>1, <3>2
    <2> QED BY <1>1, <2>1, <2>2 DEF Begun, Entry
  <1>12. Clock' = Clock BY <1>1 DEF Clock
  <1>13. Window'
    <2>1. \A s \in tail .. head - 1 : Entry(s)'.st = "empty" => Entry(s).st = "empty"
      BY <1>5, <1>6 DEF Applied
    <2>2. \A s \in tail .. head - 1 : Entry(s).st = "empty" => Entry(s)'.st = "empty"
      BY <1>5, <1>6 DEF Pending
    <2>3. \A c \in Committers : pc[c] = "rc_tail" => pc'[c] = "rc_tail" BY <1>1, <1>2
    <2> QED BY <1>1, <1>6, <1>7, <1>12, <2>1, <2>2, <2>3 DEF Window
  <1>14. Owned'
    <2>1. ASSUME NEW c \in Committers, pc'[c] = "apply"
          PROVE  /\ pc[c] = "apply" /\ seq[c] \in tail .. head - 1 /\ ts[c] > 0
                 /\ ring'[slot(seq[c])] = Pending(ts[c])
      <3>1. pc[c] = "apply" /\ c # p BY <1>1, <1>2, <2>1
      <3>2. /\ seq[c] \in tail .. head - 1 /\ ts[c] > 0 /\ seq[c] # seq[p]
            /\ Entry(seq[c]) = Pending(ts[c])
        BY <1>1, <3>1 DEF Owned
      <3> QED BY <1>4, <1>6, <3>1, <3>2
    <2>2. \A c, d \in Committers :
            pc'[c] = "apply" /\ pc'[d] = "apply" /\ seq[c] = seq[d] => c = d
      BY <2>1 DEF Owned
    <2> QED BY <1>1, <2>1, <2>2 DEF Owned, Entry
  <1>15. Marked'
    <2>1. \A s \in tail .. head - 1 : Entry(s)'.st = "pending" => Entry(s).st = "pending"
      BY <1>5, <1>6 DEF Applied
    <2> QED BY <1>1, <1>6, <1>7, <1>12, <2>1 DEF Marked
  <1>16. Gate'
    <2>1. /\ \A c \in Committers : pc'[c] \in Sweeping <=> pc[c] \in Sweeping
          /\ \A c \in Committers : pc'[c] \in {"rc_mark", "rc_zero", "rc_tail"} => pc[c] = pc'[c]
      BY <1>1, <1>2 DEF Sweeping
    <2>2. tail < head /\ Entry(tail).st # "pending" => ring'[slot(tail)] = Entry(tail)
      <3>1. tail \in tail .. tail + RingSize - 1 BY <1>2, <1>3
      <3>2. Entry(tail).st # "pending" => tail # seq[p] BY <1>3 DEF Pending
      <3> QED BY <1>4, <3>1, <3>2
    <2> QED BY <1>1, <2>1, <2>2 DEF Gate, Entry
  <1>17. Covered'
    <2>1. Covers(p)' BY <1>1, <1>2 DEF Covers
    <2> QED BY <2>1 DEF Covered
  <1> QED BY <1>8, <1>9, <1>10, <1>11, <1>13, <1>14, <1>15, <1>16, <1>17

\* The commit is counted down and goes to reclaim.
LEMMA UncountPendingInv ==
  ASSUME Typed, Ledger, NEW p \in Committers, UncountPending(p)
  PROVE  Typed' /\ Ledger'
  <1> USE DEF Ledger
  <1>1. /\ pc[p] = "uncount" /\ pendingCount' = pendingCount - 1
        /\ pc' = [pc EXCEPT ![p] = "rc_lock"] /\ back' = [back EXCEPT ![p] = "notify"]
        /\ UNCHANGED <<timestamp, tsLock, ring, head, tail, reclaimFlag, flagStore, missed>>
        /\ UNCHANGED <<appliedWatermark, barrierWaiters, barrierLock, parked>>
        /\ UNCHANGED <<ts, seq, lt, lh, ls>>
    BY DEF UncountPending, Goto, gate, barrier
  <1>2. /\ pc \in [Threads -> CommitterPC \cup ReaderPC] /\ p \in Threads
        /\ back \in [Threads -> Returns \cup {"idle"}] /\ pendingCount \in Nat
        /\ \A c \in Committers : c \in Threads
        /\ p \notin Readers
    BY Types, CommitRingAssumption
  <1>3. Counts'
    <2>1. Counted' = Counted \ {p} /\ p \in Counted
      BY <1>1, <1>2 DEF Counted
    <2>2. IsFiniteSet(Counted \ {p}) /\ Cardinality(Counted \ {p}) = Cardinality(Counted) - 1
      BY <2>1, FS_RemoveElement DEF Counts
    <2> QED BY <1>1, <2>1, <2>2 DEF Counts
  <1>4. Typed'
    <2>1. pc' \in [Threads -> CommitterPC \cup ReaderPC]
      BY <1>1, <1>2 DEF CommitterPC, Reclaiming
    <2>2. pendingCount' \in Nat BY <1>3, FS_CardinalityType DEF Counts
    <2>3. TypeOK' BY <1>1, <2>1, <2>2 DEF Typed, TypeOK
    <2>4. back' \in [Threads -> Returns \cup {"idle"}] BY <1>1, <1>2 DEF Returns
    <2> QED BY <1>1, <1>2, <2>3, <2>4 DEF Typed, CommitterPC, Reclaiming, Returns
  <1>5. Clock' = Clock BY <1>1 DEF Clock
  <1>6. Window' /\ Owned' /\ Marked'
    BY <1>1, <1>2, <1>5, Untouched
  <1>7. Locked'
    <2>1. \A c \in Committers : InBegin(c)' <=> InBegin(c)
      BY <1>1, <1>2 DEF InBegin, Beginning, TryingPC
    <2> QED BY <1>1, <2>1 DEF Locked
  <1>8. Begun' BY <1>1, <1>2 DEF Begun, Entry
  <1>9. Gate' BY <1>1, <1>2 DEF Gate, Sweeping, Entry
  <1>10. Covered'
    <2>1. \A c \in Committers : Covers(c) => Covers(c)'
      BY <1>1, <1>2 DEF Covers, TryingPC
    <2> QED BY <1>1, <2>1 DEF Covered, Entry
  <1> QED BY <1>3, <1>4, <1>6, <1>7, <1>8, <1>9, <1>10

\* end_commit looks for waiters, wakes them and returns.
LEMMA NotifyInv ==
  ASSUME Typed, Ledger, NEW p \in Committers, SeeWaiters(p) \/ NotifyWaiters(p)
  PROVE  Typed' /\ Ledger'
  <1> USE DEF Ledger
  <1>1. /\ pc[p] \in {"notify", "wake"}
        /\ \E l \in {"wake", "idle"} : pc' = [pc EXCEPT ![p] = l]
        /\ ts' = ts \/ ts' = [ts EXCEPT ![p] = 0]
        /\ seq' = seq \/ seq' = [seq EXCEPT ![p] = 0]
        /\ back' = back \/ back' = [back EXCEPT ![p] = "idle"]
        /\ lt' = lt \/ lt' = [lt EXCEPT ![p] = 0]
        /\ lh' = lh \/ lh' = [lh EXCEPT ![p] = 0]
        /\ ls' = ls \/ ls' = [ls EXCEPT ![p] = 0]
        /\ UNCHANGED <<timestamp, tsLock, ring, head, tail, reclaimFlag,
                       flagStore, missed, pendingCount>>
        /\ UNCHANGED <<appliedWatermark, barrierWaiters, barrierLock>>
        /\ parked' \subseteq parked
    BY DEF SeeWaiters, NotifyWaiters, Return, EndScan, Goto, ledger, gate, barrier, locals
  <1>2. /\ pc \in [Threads -> CommitterPC \cup ReaderPC] /\ p \in Threads
        /\ ts \in [Threads -> Nat] /\ seq \in [Threads -> Nat] /\ lt \in [Threads -> Nat]
        /\ lh \in [Threads -> Nat] /\ ls \in [Threads -> Nat]
        /\ back \in [Threads -> Returns \cup {"idle"}]
        /\ \A c \in Committers : c \in Threads
        /\ p \notin Readers
    BY Types, CommitRingAssumption
  <1>3. PICK l \in {"wake", "idle"} : pc' = [pc EXCEPT ![p] = l] BY <1>1
  <1>4. \A c \in Committers : c # p =>
          /\ pc'[c] = pc[c] /\ ts'[c] = ts[c] /\ seq'[c] = seq[c]
          /\ back'[c] = back[c] /\ lt'[c] = lt[c]
    BY <1>1, <1>2
  <1>5. Typed'
    <2>1. pc' \in [Threads -> CommitterPC \cup ReaderPC]
      BY <1>2, <1>3 DEF CommitterPC
    <2>2. /\ ts' \in [Threads -> Nat] /\ seq' \in [Threads -> Nat] /\ lt' \in [Threads -> Nat]
          /\ lh' \in [Threads -> Nat] /\ ls' \in [Threads -> Nat]
      BY <1>1, <1>2
    <2>3. TypeOK' BY <1>1, <2>1, <2>2 DEF Typed, TypeOK
    <2>4. back' \in [Threads -> Returns \cup {"idle"}] BY <1>1, <1>2
    <2>5. \A c \in Committers :
            pc'[c] \in CommitterPC /\ (pc'[c] \in TryingPC => back'[c] \in Returns)
      BY <1>2, <1>3, <1>4 DEF Typed, CommitterPC, TryingPC
    <2>6. \A r \in Readers : pc'[r] \in ReaderPC
      BY <1>2, <1>3 DEF Typed, Threads
    <2> QED BY <2>3, <2>4, <2>5, <2>6 DEF Typed
  <1>6. Clock' = Clock BY <1>1 DEF Clock
  <1>7. Window' /\ Owned' /\ Marked'
    BY <1>1, <1>2, <1>3, <1>4, <1>6, Untouched
  <1>8. Counts'
    <2>1. Counted' = Counted BY <1>1, <1>2, <1>3, <1>4 DEF Counted
    <2> QED BY <1>1, <2>1 DEF Counts
  <1>9. Locked'
    <2>1. ~InBegin(p) /\ ~InBegin(p)'
      BY <1>1, <1>2, <1>3 DEF InBegin, Beginning, TryingPC
    <2>2. \A c \in Committers : InBegin(c)' <=> InBegin(c)
      BY <1>4, <2>1 DEF InBegin
    <2> QED BY <1>1, <1>4, <2>1, <2>2 DEF Locked
  <1>10. Begun' BY <1>1, <1>2, <1>3, <1>4 DEF Begun, Entry
  <1>11. Gate' BY <1>1, <1>2, <1>3, <1>4 DEF Gate, Sweeping, Entry
  <1>12. Covered'
    <2>1. \A c \in Committers : Covers(c) => Covers(c)'
      BY <1>1, <1>2, <1>4 DEF Covers, TryingPC
    <2> QED BY <1>1, <2>1 DEF Covered, Entry
  <1> QED BY <1>5, <1>7, <1>8, <1>9, <1>10, <1>11, <1>12

-----------------------------------------------------------------------------
(* try_reclaim.                                                            *)

\* Steps of try_reclaim that leave ring and tail alone stay inside the call or
\* return to where it came from.
LEMMA ReclaimMoves ==
  ASSUME Typed, Ledger, NEW p \in Committers,
         pc[p] \in TryingPC, pc[p] # "rc_tail",
         NEW l \in TryingPC \cup {back[p]}, pc' = [pc EXCEPT ![p] = l],
         UNCHANGED <<timestamp, tsLock, ring, head, tail, pendingCount>>,
         UNCHANGED <<barrierWaiters, barrierLock, parked, ts, seq, back>>,
         reclaimFlag' \in BOOLEAN, flagStore' \in Committers \cup {None},
         missed' \in BOOLEAN, appliedWatermark' \in Nat,
         lt' \in [Threads -> Nat], lh' \in [Threads -> Nat], ls' \in [Threads -> Nat]
  PROVE  Typed' /\ Counts' /\ Locked' /\ Begun' /\ Window' /\ Owned' /\ Clock' = Clock
  <1> USE DEF Ledger
  <1>1. /\ pc \in [Threads -> CommitterPC \cup ReaderPC] /\ p \in Threads
        /\ \A c \in Committers : c \in Threads
        /\ p \notin Readers
    BY Types, CommitRingAssumption
  <1>2. back[p] \in Returns /\ l \in TryingPC \cup Returns BY DEF Typed
  <1>3. Typed'
    <2>1. l \in CommitterPC
      BY <1>2 DEF CommitterPC, Beginning, Reclaiming, TryingPC, Returns
    <2>2. pc' \in [Threads -> CommitterPC \cup ReaderPC] BY <1>1, <2>1
    <2>3. TypeOK' BY <2>2 DEF Typed, TypeOK
    <2>4. \A c \in Committers : pc'[c] \in CommitterPC BY <1>1, <2>1 DEF Typed
    <2>5. \A c \in Committers : pc'[c] \in TryingPC => back'[c] \in Returns
      BY <1>1, <1>2 DEF Typed
    <2>6. \A r \in Readers : pc'[r] \in ReaderPC BY <1>1 DEF Typed, Threads
    <2> QED BY <2>3, <2>4, <2>5, <2>6 DEF Typed
  <1>4. Counts'
    <2>1. Counted' = Counted BY <1>1, <1>2 DEF Counted, TryingPC, Returns
    <2> QED BY <2>1 DEF Counts
  <1>5. Locked'
    <2>1. InBegin(p) <=> back[p] = "space" BY DEF InBegin, TryingPC, Beginning
    <2>2. InBegin(p)' <=> back[p] = "space"
      BY <1>1, <1>2 DEF InBegin, TryingPC, Beginning, Returns
    <2>3. \A c \in Committers : InBegin(c)' <=> InBegin(c)
      BY <1>1, <2>1, <2>2 DEF InBegin
    <2> QED BY <2>3 DEF Locked
  <1>6. Begun' BY <1>1, <1>2 DEF Begun, Entry, TryingPC, Returns
  <1>7. Clock' = Clock BY DEF Clock
  <1>8. \A s : Entry(s)' = Entry(s) BY DEF Entry
  <1>9. Window'
    <2>1. \A c \in Committers : pc[c] = "rc_tail" => pc'[c] = "rc_tail" BY <1>1
    <2> QED BY <1>7, <1>8, <2>1 DEF Window
  <1>10. Owned'
    <2>1. \A c \in Committers : pc'[c] = "apply" => pc[c] = "apply"
      BY <1>1, <1>2 DEF TryingPC, Returns
    <2> QED BY <1>8, <2>1 DEF Owned, Entry
  <1> QED BY <1>3, <1>4, <1>5, <1>6, <1>7, <1>9, <1>10

\* Only one thread wins the flag; a loser leaves the entry to the winner, or
\* has met a release on its way.
LEMMA TryFlagInv ==
  ASSUME Typed, Ledger, NEW p \in Committers, TryFlag(p)
  PROVE  Typed' /\ Ledger'
  <1> USE DEF Ledger
  <1> DEFINE free == ~reclaimFlag \/ flagStore = p
             l == IF free THEN "rc_sweep" ELSE back[p]
  <1>1. /\ pc[p] = "rc_lock"
        /\ pc' = [pc EXCEPT ![p] = l]
        /\ UNCHANGED <<timestamp, tsLock, ring, head, tail, pendingCount>>
        /\ UNCHANGED <<appliedWatermark, barrierWaiters, barrierLock, parked>>
        /\ UNCHANGED <<ts, seq, back, lt, lh, ls>>
    BY DEF TryFlag, Goto, barrier, locals
  <1>0. /\ free => reclaimFlag' = TRUE /\ flagStore' = None /\ missed' = FALSE
        /\ ~free => /\ reclaimFlag' = reclaimFlag /\ flagStore' = flagStore
                    /\ missed' = (missed \/ flagStore # None)
    BY DEF TryFlag
  <1>2. /\ pc \in [Threads -> CommitterPC \cup ReaderPC] /\ p \in Threads
        /\ \A c \in Committers : c \in Threads
        /\ appliedWatermark \in Nat /\ lt \in [Threads -> Nat]
        /\ lh \in [Threads -> Nat] /\ ls \in [Threads -> Nat]
        /\ reclaimFlag \in BOOLEAN /\ missed \in BOOLEAN
        /\ flagStore \in Committers \cup {None}
    BY Types
  <1>3. /\ Typed' /\ Counts' /\ Locked' /\ Begun' /\ Window' /\ Owned'
        /\ Clock' = Clock
    <2>1. l \in TryingPC \cup {back[p]} /\ pc[p] \in TryingPC /\ pc[p] # "rc_tail"
      BY <1>1 DEF TryingPC
    <2>2. /\ reclaimFlag' \in BOOLEAN /\ missed' \in BOOLEAN
          /\ flagStore' \in Committers \cup {None}
      BY <1>0, <1>2
    <2> HIDE DEF l, free
    <2> QED BY <1>1, <1>2, <2>1, <2>2, ReclaimMoves
  <1>4. Marked' BY <1>1, <1>3 DEF Marked, Entry
  <1>5. back[p] \in Returns BY <1>1 DEF Typed, TryingPC
  <1>6. CASE ~free
    <2>1. pc' = [pc EXCEPT ![p] = back[p]] BY <1>1, <1>6
    <2>2. UNCHANGED <<reclaimFlag, flagStore>> BY <1>0, <1>6
    <2>3. \A c \in Committers : pc'[c] \in Sweeping <=> pc[c] \in Sweeping
      BY <1>1, <1>2, <1>5, <2>1 DEF Sweeping, Returns
    <2>4. \A c \in Committers : pc'[c] \in Sweeping => pc'[c] = pc[c]
      BY <1>2, <1>5, <2>1 DEF Sweeping, Returns
    <2>5. Gate'
      BY <1>1, <2>2, <2>3, <2>4 DEF Gate, Sweeping, Entry
    <2>6. Covered'
      <3>1. CASE flagStore # None
        <4>1. missed' BY <1>0, <1>6, <3>1
        <4> QED BY <4>1 DEF Covered
      <3>2. CASE flagStore = None
        <4>1. PICK h \in Committers : pc[h] \in Sweeping BY <1>6, <3>2 DEF Gate
        <4>2. pc'[h] = pc[h] BY <2>3, <2>4, <4>1
        <4>3. Covers(h)' BY <4>1, <4>2 DEF Covers, Sweeping, TryingPC
        <4> QED BY <4>3 DEF Covered
      <3> QED BY <3>1, <3>2
    <2> QED BY <1>3, <1>4, <2>5, <2>6
  <1>7. CASE free
    <2>1. pc' = [pc EXCEPT ![p] = "rc_sweep"] BY <1>1, <1>7
    <2>2. \A c \in Committers : pc[c] \notin Sweeping
      BY <1>7, CommitRingAssumption DEF Gate
    <2>3. pc'[p] = "rc_sweep" BY <1>2, <2>1
    <2>4. \A c \in Committers : c # p => pc'[c] \notin Sweeping BY <1>2, <2>1, <2>2
    <2>5. Gate' BY <1>0, <1>7, <2>3, <2>4 DEF Gate, Sweeping
    <2>6. Covers(p)' BY <2>3 DEF Covers, TryingPC
    <2> QED BY <1>3, <1>4, <2>5, <2>6 DEF Covered
  <1> QED BY <1>6, <1>7

\* The reclaimer looks at the tail.
LEMMA SweepInv ==
  ASSUME Typed, Ledger, NEW p \in Committers, Sweep(p)
  PROVE  Typed' /\ Ledger'
  <1> USE DEF Ledger
  <1> DEFINE ripe == tail # head /\ Entry(tail).st = "applied"
             l == IF ripe THEN "rc_mark" ELSE "rc_unlock"
  <1>1. /\ pc[p] = "rc_sweep"
        /\ pc' = [pc EXCEPT ![p] = l]
        /\ UNCHANGED <<timestamp, tsLock, ring, head, tail, reclaimFlag,
                       flagStore, missed, pendingCount>>
        /\ UNCHANGED <<appliedWatermark, barrierWaiters, barrierLock, parked>>
        /\ UNCHANGED <<ts, seq, back, lt, lh, ls>>
    BY DEF Sweep, Goto, ledger, gate, barrier, locals, Entry
  <1>2. /\ pc \in [Threads -> CommitterPC \cup ReaderPC] /\ p \in Threads
        /\ \A c \in Committers : c \in Threads
        /\ appliedWatermark \in Nat /\ lt \in [Threads -> Nat]
        /\ lh \in [Threads -> Nat] /\ ls \in [Threads -> Nat]
        /\ reclaimFlag \in BOOLEAN /\ head \in Nat /\ tail \in Nat
        /\ flagStore \in Committers \cup {None} /\ missed \in BOOLEAN
    BY Types
  <1>3. ripe => tail < head BY <1>2 DEF Window
  <1>4. l \in {"rc_mark", "rc_unlock"} /\ (l = "rc_mark" => ripe) OBVIOUS
  <1> HIDE DEF l
  <1>5. /\ Typed' /\ Counts' /\ Locked' /\ Begun' /\ Window' /\ Owned'
        /\ Clock' = Clock
    <2>1. l \in TryingPC \cup {back[p]} /\ pc[p] \in TryingPC /\ pc[p] # "rc_tail"
      BY <1>1, <1>4 DEF TryingPC
    <2> QED BY <1>1, <1>2, <2>1, ReclaimMoves
  <1>6. Marked' BY <1>1, <1>5 DEF Marked, Entry
  <1>7. \A c \in Committers : c # p => pc[c] \notin Sweeping /\ pc'[c] \notin Sweeping
    BY <1>1, <1>2 DEF Gate, Sweeping
  <1>8. pc'[p] = l BY <1>1, <1>2
  <1>9. Gate' BY <1>1, <1>3, <1>4, <1>7, <1>8 DEF Gate, Sweeping, Entry
  <1>10. Covered'
    <2>1. Covers(p)' BY <1>4, <1>8 DEF Covers, TryingPC
    <2> QED BY <2>1 DEF Covered
  <1> QED BY <1>5, <1>6, <1>9, <1>10

\* The watermark rises to the entry at the tail, below every pending one.
LEMMA RaiseWatermarkInv ==
  ASSUME Typed, Ledger, NEW p \in Committers, RaiseWatermark(p)
  PROVE  Typed' /\ Ledger'
  <1> USE DEF Ledger
  <1> DEFINE mark == IF Entry(tail).ts > appliedWatermark THEN Entry(tail).ts
                                                          ELSE appliedWatermark
  <1>1. /\ pc[p] = "rc_mark" /\ appliedWatermark' = mark
        /\ pc' = [pc EXCEPT ![p] = "rc_zero"]
        /\ UNCHANGED <<timestamp, tsLock, ring, head, tail, reclaimFlag,
                       flagStore, missed, pendingCount>>
        /\ UNCHANGED <<barrierWaiters, barrierLock, parked>>
        /\ UNCHANGED <<ts, seq, back, lt, lh, ls>>
    BY DEF RaiseWatermark, Goto, gate, barrier, locals, Entry
  <1>2. /\ pc \in [Threads -> CommitterPC \cup ReaderPC] /\ p \in Threads
        /\ \A c \in Committers : c \in Threads
        /\ appliedWatermark \in Nat /\ lt \in [Threads -> Nat]
        /\ lh \in [Threads -> Nat] /\ ls \in [Threads -> Nat]
        /\ reclaimFlag \in BOOLEAN /\ head \in Nat /\ tail \in Nat
        /\ flagStore \in Committers \cup {None} /\ missed \in BOOLEAN
        /\ ring \in [0 .. RingSize - 1 -> SlotValues] /\ RingSize \in Nat
    BY Types
  <1>3. tail < head /\ Entry(tail).st = "applied" /\ tail \in tail .. head - 1
    BY <1>1, <1>2 DEF Gate
  <1>4. \A s \in tail .. head - 1 : Entry(s).ts \in Nat
    <2>1. \A s \in tail .. head - 1 : slot(s) \in 0 .. RingSize - 1
      <3>1. tail \in Nat /\ head \in Nat BY <1>2
      <3>2. \A s \in tail .. head - 1 : s \in Nat BY <3>1
      <3> QED BY <3>2, SlotInRing
    <2> QED BY <1>2, <2>1 DEF Entry, SlotValues
  <1>5. /\ mark \in Nat /\ mark >= appliedWatermark
        /\ mark = Entry(tail).ts \/ mark = appliedWatermark
    BY <1>2, <1>3, <1>4
  <1> HIDE DEF mark
  <1>6. /\ Typed' /\ Counts' /\ Locked' /\ Begun' /\ Window' /\ Owned'
        /\ Clock' = Clock
    <2>1. "rc_zero" \in TryingPC \cup {back[p]} /\ pc[p] \in TryingPC /\ pc[p] # "rc_tail"
      BY <1>1 DEF TryingPC
    <2> QED BY <1>1, <1>2, <1>5, <2>1, ReclaimMoves
  <1>7. Marked'
    <2>1. mark <= Clock BY <1>3, <1>5 DEF Marked, Window
    <2>2. ASSUME NEW s \in tail .. head - 1, Entry(s).st = "pending"
          PROVE  Entry(s).ts > mark
      <3>1. Entry(s).ts > appliedWatermark BY <2>2 DEF Marked
      <3>2. tail < s BY <1>2, <1>3, <2>2
      <3>3. Entry(tail).ts < Entry(s).ts BY <1>3, <2>2, <3>2 DEF Window
      <3> QED BY <1>3, <1>4, <1>5, <3>1, <3>3
    <2> QED BY <1>1, <1>6, <2>1, <2>2 DEF Marked, Entry
  <1>8. \A c \in Committers : c # p => pc[c] \notin Sweeping /\ pc'[c] \notin Sweeping
    BY <1>1, <1>2 DEF Gate, Sweeping
  <1>9. pc'[p] = "rc_zero" BY <1>1, <1>2
  <1>10. Gate' BY <1>1, <1>3, <1>8, <1>9 DEF Gate, Sweeping, Entry
  <1>11. Covered'
    <2>1. Covers(p)' BY <1>9 DEF Covers, TryingPC
    <2> QED BY <2>1 DEF Covered
  <1> QED BY <1>6, <1>7, <1>10, <1>11

\* The flag is released, visibly or not; the releaser still looks after the
\* tail.
LEMMA ReleaseFlagInv ==
  ASSUME Typed, Ledger, NEW p \in Committers, ReleaseFlag(p)
  PROVE  Typed' /\ Ledger'
  <1> USE DEF Ledger
  <1>1. /\ pc[p] = "rc_unlock" /\ flagStore' = p
        /\ pc' = [pc EXCEPT ![p] = "rc_check"]
        /\ UNCHANGED <<timestamp, tsLock, ring, head, tail, pendingCount>>
        /\ UNCHANGED <<reclaimFlag, missed>>
        /\ UNCHANGED <<appliedWatermark, barrierWaiters, barrierLock, parked>>
        /\ UNCHANGED <<ts, seq, back, lt, lh, ls>>
    BY DEF ReleaseFlag, Goto, barrier, locals
  <1>2. /\ pc \in [Threads -> CommitterPC \cup ReaderPC] /\ p \in Threads
        /\ \A c \in Committers : c \in Threads
        /\ appliedWatermark \in Nat /\ lt \in [Threads -> Nat]
        /\ lh \in [Threads -> Nat] /\ ls \in [Threads -> Nat]
        /\ reclaimFlag \in BOOLEAN /\ missed \in BOOLEAN
        /\ p # None
    BY Types
  <1>3. /\ Typed' /\ Counts' /\ Locked' /\ Begun' /\ Window' /\ Owned'
        /\ Clock' = Clock
    <2>1. "rc_check" \in TryingPC \cup {back[p]} /\ pc[p] \in TryingPC /\ pc[p] # "rc_tail"
      BY <1>1 DEF TryingPC
    <2> QED BY <1>1, <1>2, <2>1, ReclaimMoves
  <1>4. Marked' BY <1>1, <1>3 DEF Marked, Entry
  <1>5. \A c \in Committers : pc'[c] \notin Sweeping
    BY <1>1, <1>2 DEF Gate, Sweeping
  <1>6. Gate' BY <1>1, <1>2, <1>5 DEF Gate, Sweeping
  <1>7. Covered'
    <2>1. Covers(p)' BY <1>1, <1>2 DEF Covers, TryingPC
    <2> QED BY <2>1 DEF Covered
  <1> QED BY <1>3, <1>4, <1>6, <1>7

\* The release becomes visible while nobody holds the flag.
LEMMA DrainFlagInv ==
  ASSUME RingInv, DrainFlag
  PROVE  RingInv'
  <1>1. /\ flagStore # None /\ reclaimFlag' = FALSE /\ flagStore' = None
        /\ UNCHANGED <<timestamp, tsLock, ring, head, tail, missed, pendingCount>>
        /\ UNCHANGED <<appliedWatermark, barrierWaiters, barrierLock, parked>>
        /\ UNCHANGED <<pc, ts, seq, back, lt, lh, ls>>
    BY DEF DrainFlag, barrier, locals
  <1>2. Typed' BY <1>1 DEF RingInv, Typed, TypeOK
  <1>3. Gate' BY <1>1 DEF RingInv, Ledger, Gate, Entry
  <1>4. /\ Counts' /\ Locked' /\ Begun' /\ Window' /\ Owned' /\ Marked' /\ Covered'
        /\ Mutex' /\ Scans'
    BY <1>1 DEF RingInv, Ledger, Counts, Counted, Locked, InBegin, Begun, Window, Owned,
       Marked, Covered, Covers, Entry, Clock, Mutex, Registered, Scans, Scan, Due
  <1> QED BY <1>2, <1>3, <1>4 DEF RingInv, Ledger

\* The re-check after the release: the thread returns only from a tail that is
\* empty, pending or in the hands of another.
LEMMA RecheckInv ==
  ASSUME Typed, Ledger, NEW p \in Committers, RecheckTail(p) \/ RecheckSlot(p)
  PROVE  Typed' /\ Ledger'
  <1> USE DEF Ledger
  <1>1. /\ pc[p] \in {"rc_check", "rc_peek"}
        /\ \E l \in TryingPC \cup {back[p]} : pc' = [pc EXCEPT ![p] = l] /\ l \notin Sweeping
        /\ lt' = lt \/ \E n \in {tail, 0} : lt' = [lt EXCEPT ![p] = n]
        /\ lh' = lh \/ lh' = [lh EXCEPT ![p] = 0]
        /\ ls' = ls \/ ls' = [ls EXCEPT ![p] = 0]
        /\ UNCHANGED <<timestamp, tsLock, ring, head, tail, reclaimFlag,
                       flagStore, missed, pendingCount>>
        /\ UNCHANGED <<appliedWatermark, barrierWaiters, barrierLock, parked>>
        /\ UNCHANGED <<ts, seq, back>>
    <2>1. back[p] \notin Sweeping BY DEF Typed, TypeOK, Returns, Sweeping, RecheckTail,
        RecheckSlot, TryingPC
    <2>2. CASE RecheckTail(p)
      BY <2>1, <2>2 DEF RecheckTail, Goto, ledger, gate, barrier, TryingPC, Sweeping
    <2>3. CASE RecheckSlot(p)
      BY <2>1, <2>3 DEF RecheckSlot, EndScan, Goto, ledger, gate, barrier, TryingPC, Sweeping
    <2> QED BY <2>2, <2>3
  <1>2. /\ pc \in [Threads -> CommitterPC \cup ReaderPC] /\ p \in Threads
        /\ \A c \in Committers : c \in Threads
        /\ appliedWatermark \in Nat /\ lt \in [Threads -> Nat]
        /\ lh \in [Threads -> Nat] /\ ls \in [Threads -> Nat]
        /\ reclaimFlag \in BOOLEAN /\ tail \in Nat
        /\ flagStore \in Committers \cup {None} /\ missed \in BOOLEAN
    BY Types
  <1>3. PICK l \in TryingPC \cup {back[p]} : pc' = [pc EXCEPT ![p] = l] /\ l \notin Sweeping
    BY <1>1
  <1>4. /\ Typed' /\ Counts' /\ Locked' /\ Begun' /\ Window' /\ Owned'
        /\ Clock' = Clock
    <2>1. pc[p] \in TryingPC /\ pc[p] # "rc_tail" BY <1>1 DEF TryingPC
    <2>2. /\ lt' \in [Threads -> Nat] /\ lh' \in [Threads -> Nat]
          /\ ls' \in [Threads -> Nat]
      BY <1>1, <1>2
    <2> QED BY <1>1, <1>2, <1>3, <2>1, <2>2, ReclaimMoves
  <1>5. Marked' BY <1>1, <1>4 DEF Marked, Entry
  <1>6. Gate'
    <2>1. \A c \in Committers : c # p => pc'[c] = pc[c] BY <1>2, <1>3
    <2>2. pc[p] \notin Sweeping /\ pc'[p] \notin Sweeping
      BY <1>1, <1>2, <1>3 DEF Sweeping
    <2> QED BY <1>1, <2>1, <2>2 DEF Gate, Sweeping, Entry
  <1>7. Covered'
    <2> SUFFICES ASSUME tail < head, Entry(tail).st # "pending", ~missed
                 PROVE  \E c \in Committers : Covers(c)'
      BY <1>1 DEF Covered, Entry
    <2>1. \A c \in Committers : c # p /\ Covers(c) => Covers(c)'
      BY <1>1, <1>2, <1>3 DEF Covers
    <2>2. PICK h \in Committers : Covers(h) BY DEF Covered
    <2>3. CASE h # p BY <2>1, <2>2, <2>3
    <2>4. CASE h = p /\ RecheckTail(p)
      <3>1. pc' = [pc EXCEPT ![p] = "rc_peek"] /\ lt' = [lt EXCEPT ![p] = tail]
        BY <1>2, <2>4 DEF RecheckTail, Goto
      <3> QED BY <1>1, <1>2, <3>1 DEF Covers
    <2>5. CASE h = p /\ RecheckSlot(p)
      <3>1. lt[p] = tail BY <2>2, <2>5 DEF Covers, RecheckSlot
      <3>2. CASE Entry(tail).st = "applied"
        <4>1. pc' = [pc EXCEPT ![p] = "rc_lock"]
          BY <2>5, <3>1, <3>2 DEF RecheckSlot, Goto, Entry
        <4> QED BY <1>2, <4>1 DEF Covers, TryingPC
      <3>3. CASE Entry(tail).st # "applied"
        <4>1. tail \in tail .. head - 1 /\ slot(tail) \in 0 .. RingSize - 1
          BY <1>2, SlotInRing, Types
        <4>2. Entry(tail).st = "empty" BY <3>3, <4>1, Types DEF Entry, SlotValues
        <4>3. PICK q \in Committers : pc[q] = "rc_tail" BY <4>1, <4>2 DEF Window
        <4>4. q # p /\ Covers(q) BY <1>1, <4>3 DEF Covers, TryingPC
        <4> QED BY <2>1, <4>4
      <3> QED BY <3>2, <3>3
    <2> QED BY <2>3, <2>4, <2>5
  <1> QED BY <1>4, <1>5, <1>6, <1>7

\* The reclaimer empties the slot at the tail, which no announced commit owns.
LEMMA ZeroSlotInv ==
  ASSUME Typed, Ledger, NEW p \in Committers, ZeroSlot(p)
  PROVE  Typed' /\ Ledger'
  <1> USE DEF Ledger
  <1>1. /\ pc[p] = "rc_zero" /\ ring' = [ring EXCEPT ![slot(tail)] = Empty]
        /\ pc' = [pc EXCEPT ![p] = "rc_tail"]
        /\ UNCHANGED <<timestamp, tsLock, head, tail, reclaimFlag,
                       flagStore, missed, pendingCount>>
        /\ UNCHANGED <<appliedWatermark, barrierWaiters, barrierLock, parked>>
        /\ UNCHANGED <<ts, seq, back, lt, lh, ls>>
    BY DEF ZeroSlot, Goto, gate, barrier, locals
  <1>2. /\ pc \in [Threads -> CommitterPC \cup ReaderPC] /\ p \in Threads
        /\ head \in Nat /\ tail \in Nat /\ RingSize \in Nat \ {0}
        /\ ring \in [0 .. RingSize - 1 -> SlotValues]
        /\ \A c \in Committers : c \in Threads
        /\ p \notin Readers
    BY Types, CommitRingAssumption
  <1>3. /\ tail < head /\ Entry(tail).st = "applied" /\ tail \in tail .. head - 1
        /\ head <= tail + RingSize
    BY <1>1, <1>2 DEF Gate, Window
  <1>4. /\ ring'[slot(tail)] = Empty
        /\ \A s \in tail .. tail + RingSize - 1 : s # tail => ring'[slot(s)] = Entry(s)
    <2>1. tail <= tail /\ tail < tail + RingSize BY <1>2
    <2> QED BY <1>1, <1>2, <2>1, RingWrite
  <1>5. \A s \in tail .. head - 1 : s \in tail .. tail + RingSize - 1 BY <1>2, <1>3
  <1>6. /\ \A s \in tail .. head - 1 : s # tail => Entry(s)' = Entry(s)
        /\ \A s \in tail .. head - 1 : s = tail => Entry(s)' = Empty
    BY <1>4, <1>5 DEF Entry
  <1>7. pc'[p] = "rc_tail" /\ \A c \in Committers : c # p => pc'[c] = pc[c]
    BY <1>1, <1>2
  <1>8. \A c \in Committers : pc'[c] \in Sweeping => c = p
    BY <1>1, <1>7 DEF Gate, Sweeping
  <1>9. Typed'
    <2>1. pc' \in [Threads -> CommitterPC \cup ReaderPC]
      BY <1>1, <1>2 DEF CommitterPC, Reclaiming
    <2>2. ring' \in [0 .. RingSize - 1 -> SlotValues]
      <3>1. Empty \in SlotValues BY DEF Empty, SlotValues
      <3> QED BY <1>1, <1>2, <3>1
    <2>3. TypeOK' BY <1>1, <2>1, <2>2 DEF Typed, TypeOK
    <2> QED BY <1>1, <1>2, <2>3 DEF Typed, CommitterPC, Reclaiming, TryingPC
  <1>10. Counts'
    <2>1. Counted' = Counted BY <1>1, <1>2 DEF Counted
    <2> QED BY <1>1, <2>1 DEF Counts
  <1>11. Locked'
    <2>1. \A c \in Committers : InBegin(c)' <=> InBegin(c)
      BY <1>1, <1>2 DEF InBegin, Beginning, TryingPC
    <2> QED BY <1>1, <2>1 DEF Locked
  <1>12. Begun'
    <2>1. \A c \in Committers : pc'[c] \in {"store", "count", "head"} => pc[c] = pc'[c]
      BY <1>1, <1>2
    <2>2. ASSUME NEW c \in Committers, pc'[c] \in {"count", "head"}
          PROVE  ring'[slot(head)] = Pending(ts[c])
      <3>1. Entry(head) = Pending(ts[c]) /\ head < tail + RingSize
        BY <2>1, <2>2 DEF Begun
      <3>2. head \in tail .. tail + RingSize - 1 /\ head # tail
        BY <1>2, <1>3, <3>1
      <3> QED BY <1>4, <3>1, <3>2
    <2> QED BY <1>1, <2>1, <2>2 DEF Begun, Entry
  <1>13. Clock' = Clock /\ Clock \in Nat BY <1>1, ClockBound DEF Clock
  <1>14. Window'
    <2>1. \A s \in tail .. head - 1 : Entry(s)'.ts <= Clock
      BY <1>6, <1>13 DEF Window, Empty
    <2>2. ASSUME NEW s \in tail .. head - 1, NEW u \in tail .. head - 1, s < u,
                 Entry(s)'.st # "empty"
          PROVE  Entry(s)'.ts < Entry(u)'.ts
      <3>1. s # tail BY <1>6, <2>2 DEF Empty
      <3>2. u # tail BY <1>2, <2>2
      <3> QED BY <1>6, <2>2, <3>1, <3>2 DEF Window
    <2>3. \A s \in tail .. head - 1 : Entry(s)'.st = "empty" => s = tail
      BY <1>6 DEF Window
    <2> QED BY <1>1, <1>7, <1>13, <2>1, <2>2, <2>3 DEF Window
  <1>15. Owned'
    <2>1. ASSUME NEW c \in Committers, pc'[c] = "apply"
          PROVE  /\ pc[c] = "apply" /\ seq[c] \in tail .. head - 1 /\ ts[c] > 0
                 /\ ring'[slot(seq[c])] = Pending(ts[c])
      <3>1. pc[c] = "apply" BY <1>7, <2>1
      <3>2. /\ seq[c] \in tail .. head - 1 /\ ts[c] > 0
            /\ Entry(seq[c]) = Pending(ts[c])
        BY <3>1 DEF Owned
      <3>3. seq[c] # tail BY <1>3, <3>2 DEF Pending
      <3> QED BY <1>4, <1>5, <3>1, <3>2, <3>3
    <2> QED BY <1>1, <2>1 DEF Owned, Entry
  <1>16. Marked'
    <2>1. \A s \in tail .. head - 1 : Entry(s)'.st = "pending" => Entry(s)' = Entry(s)
      BY <1>6 DEF Empty
    <2> QED BY <1>1, <1>13, <2>1 DEF Marked
  <1>17. Gate'
    <2>1. tail' < head' /\ Entry(tail)'.st = "empty" BY <1>1, <1>3, <1>4 DEF Entry, Empty
    <2>2. reclaimFlag' /\ flagStore' = None BY <1>1 DEF Gate, Sweeping
    <2>3. pc'[p] \in Sweeping BY <1>7 DEF Sweeping
    <2>4. \A c \in Committers : pc'[c] \in {"rc_mark", "rc_zero"} => FALSE
      BY <1>7, <1>8 DEF Sweeping
    <2> QED BY <1>8, <2>1, <2>2, <2>3, <2>4 DEF Gate
  <1>18. Covered'
    <2>1. Covers(p)' BY <1>7 DEF Covers, TryingPC
    <2> QED BY <2>1 DEF Covered
  <1> QED BY <1>9, <1>10, <1>11, <1>12, <1>14, <1>15, <1>16, <1>17, <1>18

\* The tail passes the emptied slot.
LEMMA AdvanceTailInv ==
  ASSUME Typed, Ledger, NEW p \in Committers, AdvanceTail(p)
  PROVE  Typed' /\ Ledger'
  <1> USE DEF Ledger
  <1>1. /\ pc[p] = "rc_tail" /\ tail' = tail + 1
        /\ pc' = [pc EXCEPT ![p] = "rc_sweep"]
        /\ UNCHANGED <<timestamp, tsLock, ring, head, reclaimFlag,
                       flagStore, missed, pendingCount>>
        /\ UNCHANGED <<appliedWatermark, barrierWaiters, barrierLock, parked>>
        /\ UNCHANGED <<ts, seq, back, lt, lh, ls>>
    BY DEF AdvanceTail, Goto, gate, barrier, locals
  <1>2. /\ pc \in [Threads -> CommitterPC \cup ReaderPC] /\ p \in Threads
        /\ head \in Nat /\ tail \in Nat /\ RingSize \in Nat
        /\ \A c \in Committers : c \in Threads
        /\ p \notin Readers
    BY Types, CommitRingAssumption
  <1>3. tail < head /\ Entry(tail).st = "empty" /\ head <= tail + RingSize
    BY <1>1 DEF Gate, Window
  <1>4. /\ \A s : Entry(s)' = Entry(s)
        /\ \A s \in tail + 1 .. head - 1 : s \in tail .. head - 1 /\ s # tail
        /\ \A s \in tail .. head - 1 : s # tail => s \in tail + 1 .. head - 1
    BY <1>1, <1>2 DEF Entry
  <1>5. pc'[p] = "rc_sweep" /\ \A c \in Committers : c # p => pc'[c] = pc[c]
    BY <1>1, <1>2
  <1>6. \A c \in Committers : pc'[c] \in Sweeping => c = p
    BY <1>1, <1>5 DEF Gate, Sweeping
  <1>7. Typed'
    <2>1. pc' \in [Threads -> CommitterPC \cup ReaderPC]
      BY <1>1, <1>2 DEF CommitterPC, Reclaiming
    <2>2. tail' \in Nat BY <1>1, <1>2
    <2>3. TypeOK' BY <1>1, <2>1, <2>2 DEF Typed, TypeOK
    <2> QED BY <1>1, <1>2, <2>3 DEF Typed, CommitterPC, Reclaiming, TryingPC
  <1>8. Counts'
    <2>1. Counted' = Counted BY <1>1, <1>2 DEF Counted
    <2> QED BY <1>1, <2>1 DEF Counts
  <1>9. Locked'
    <2>1. \A c \in Committers : InBegin(c)' <=> InBegin(c)
      BY <1>1, <1>2 DEF InBegin, Beginning, TryingPC
    <2> QED BY <1>1, <2>1 DEF Locked
  <1>10. Begun'
    <2>1. \A c \in Committers : pc'[c] \in {"store", "count", "head"} => pc[c] = pc'[c]
      BY <1>1, <1>2
    <2>2. head < tail + RingSize => head < tail + 1 + RingSize BY <1>2
    <2>3. Entry(head)' = Entry(head) BY <1>1 DEF Entry
    <2> QED BY <1>1, <2>1, <2>2, <2>3 DEF Begun
  <1>11. Clock' = Clock BY <1>1 DEF Clock
  <1>12. Window'
    <2>1. tail + 1 <= head /\ head <= tail + 1 + RingSize BY <1>2, <1>3
    <2>2. \A s \in tail + 1 .. head - 1 : Entry(s).st # "empty" BY <1>4 DEF Window
    <2>3. \A s \in tail + 1 .. head - 1 : Entry(s).ts <= Clock BY <1>4 DEF Window
    <2>4. \A s, u \in tail + 1 .. head - 1 :
            s < u /\ Entry(s).st # "empty" => Entry(s).ts < Entry(u).ts
      BY <1>4 DEF Window
    <2> QED BY <1>1, <1>4, <1>11, <2>1, <2>2, <2>3, <2>4 DEF Window
  <1>13. Owned'
    <2>1. ASSUME NEW c \in Committers, pc'[c] = "apply"
          PROVE  /\ pc[c] = "apply" /\ seq[c] \in tail + 1 .. head - 1 /\ ts[c] > 0
                 /\ Entry(seq[c]) = Pending(ts[c])
      <3>1. pc[c] = "apply" BY <1>5, <2>1
      <3>2. /\ seq[c] \in tail .. head - 1 /\ ts[c] > 0
            /\ Entry(seq[c]) = Pending(ts[c])
        BY <3>1 DEF Owned
      <3>3. seq[c] # tail BY <1>3, <3>2 DEF Pending
      <3> QED BY <1>4, <3>1, <3>2, <3>3
    <2> QED BY <1>1, <2>1 DEF Owned, Entry
  <1>14. Marked' BY <1>1, <1>4, <1>11 DEF Marked
  <1>15. Gate'
    <2>1. reclaimFlag' /\ flagStore' = None BY <1>1 DEF Gate, Sweeping
    <2>2. pc'[p] \in Sweeping BY <1>5 DEF Sweeping
    <2>3. \A c \in Committers : pc'[c] \notin {"rc_mark", "rc_zero", "rc_tail"}
      BY <1>5, <1>6 DEF Sweeping
    <2> QED BY <1>6, <2>1, <2>2, <2>3 DEF Gate
  <1>16. Covered'
    <2>1. Covers(p)' BY <1>5 DEF Covers, TryingPC
    <2> QED BY <2>1 DEF Covered
  <1> QED BY <1>7, <1>8, <1>9, <1>10, <1>12, <1>13, <1>14, <1>15, <1>16

-----------------------------------------------------------------------------
(* The committers as the readers see them.                                 *)

\* Every step of a committer keeps the ledger.
LEMMA CommitterStep ==
  ASSUME Typed, Ledger, NEW p \in Committers, AllocCommitTs(p) \/ CommitStep(p)
  PROVE  Typed' /\ Ledger'
  BY AllocInv, RingFullInv, RingSpaceInv, StoreSlotInv, CountPendingInv, BumpHeadInv,
     MarkAppliedInv, UncountPendingInv, NotifyInv, TryFlagInv, SweepInv,
     RaiseWatermarkInv, ZeroSlotInv, AdvanceTailInv, ReleaseFlagInv, RecheckInv
     DEF CommitStep, BeginCommit, EndCommit, TryReclaim

\* A committer touches no reader, moves tail, head and clock forward only, and
\* what it announces is newer than every snapshot taken so far.
LEMMA CommitterFrame ==
  ASSUME Typed, Ledger, NEW p \in Committers, AllocCommitTs(p) \/ CommitStep(p)
  PROVE  /\ UNCHANGED <<barrierWaiters, barrierLock>>
         /\ \A r \in Readers : /\ pc'[r] = pc[r] /\ ts'[r] = ts[r] /\ lt'[r] = lt[r]
                               /\ lh'[r] = lh[r] /\ ls'[r] = ls[r]
         /\ tail' \in {tail, tail + 1} /\ head' \in {head, head + 1}
         /\ Clock' \in {Clock, Clock + 1}
         /\ \A c \in Committers : pc'[c] = "apply" =>
              \/ pc[c] = "apply" /\ seq'[c] = seq[c] /\ ts'[c] = ts[c]
              \/ ts'[c] = Clock + 1
  <1>1. /\ pc \in [Threads -> CommitterPC \cup ReaderPC] /\ p \in Threads /\ p # None
        /\ ts \in [Threads -> Nat] /\ seq \in [Threads -> Nat] /\ lt \in [Threads -> Nat]
        /\ lh \in [Threads -> Nat] /\ ls \in [Threads -> Nat]
        /\ \A r \in Readers : r \in Threads /\ r # p
        /\ \A c \in Committers : c \in Threads
        /\ timestamp \in Nat /\ head \in Nat /\ tail \in Nat
    BY Types, CommitRingAssumption
  <1>2. UNCHANGED <<barrierWaiters, barrierLock>>
    BY DEF AllocCommitTs, CommitStep, BeginCommit, RingFull, RingSpace, StoreSlot,
       CountPending, BumpHead, EndCommit, MarkApplied, UncountPending, SeeWaiters,
       NotifyWaiters, TryReclaim, TryFlag, Sweep, RaiseWatermark, ZeroSlot,
       AdvanceTail, ReleaseFlag, RecheckTail, RecheckSlot, barrier
  <1>4. CASE AllocCommitTs(p)
    <2>1. /\ pc' = [pc EXCEPT ![p] = "space"] /\ ts' = [ts EXCEPT ![p] = timestamp + 1]
          /\ tsLock = None /\ tsLock' = p /\ timestamp' = timestamp + 1
          /\ UNCHANGED <<head, tail, seq, lt, lh, ls>>
      BY <1>4 DEF AllocCommitTs, Goto, ledger, gate, locals
    <2>2. Clock' = Clock BY <1>1, <2>1 DEF Clock
    <2> QED BY <1>1, <1>2, <2>1, <2>2
  <1>5. CASE BumpHead(p)
    <2>1. /\ pc[p] = "head" /\ head' = seq[p] + 1 /\ tsLock' = None
          /\ pc' = [pc EXCEPT ![p] = "apply"]
          /\ UNCHANGED <<timestamp, tail, ts, seq, lt, lh, ls>>
      BY <1>5 DEF BumpHead, Goto, locals
    <2>2. tsLock = p /\ ts[p] = timestamp /\ seq[p] = head
      BY <2>1 DEF Ledger, Locked, InBegin, Beginning, Begun
    <2>3. Clock = timestamp - 1 /\ Clock' = timestamp /\ ts[p] = Clock + 1
      BY <1>1, <2>1, <2>2 DEF Clock
    <2>4. Clock' = Clock + 1 BY <1>1, <2>3
    <2> QED BY <1>1, <1>2, <2>1, <2>2, <2>3, <2>4
  <1>6. CASE AdvanceTail(p)
    <2>1. /\ tail' = tail + 1 /\ pc' = [pc EXCEPT ![p] = "rc_sweep"]
          /\ UNCHANGED <<timestamp, tsLock, head, ts, seq, lt, lh, ls>>
      BY <1>6 DEF AdvanceTail, Goto, locals
    <2>2. Clock' = Clock BY <1>1, <2>1 DEF Clock
    <2> QED BY <1>1, <1>2, <2>1, <2>2
  <1>7. CASE CommitStep(p) /\ ~BumpHead(p) /\ ~AdvanceTail(p)
    <2>1. UNCHANGED <<timestamp, tsLock, head, tail>>
      BY <1>7 DEF CommitStep, BeginCommit, RingFull, RingSpace, StoreSlot,
         CountPending, EndCommit, MarkApplied, UncountPending, SeeWaiters,
         NotifyWaiters, TryReclaim, TryFlag, Sweep, RaiseWatermark, ZeroSlot,
         ReleaseFlag, RecheckTail, RecheckSlot, ledger, gate
    <2>2. /\ ts' = ts \/ ts' = [ts EXCEPT ![p] = 0]
          /\ \E n \in {seq[p], head, 0} : seq' = [seq EXCEPT ![p] = n]
          /\ \E n \in {lt[p], tail, 0} : lt' = [lt EXCEPT ![p] = n]
          /\ \E n \in {lh[p], 0} : lh' = [lh EXCEPT ![p] = n]
          /\ \E n \in {ls[p], 0} : ls' = [ls EXCEPT ![p] = n]
      BY <1>1, <1>7 DEF CommitStep, BeginCommit, RingFull, RingSpace, StoreSlot,
         CountPending, EndCommit, MarkApplied, UncountPending, SeeWaiters,
         NotifyWaiters, TryReclaim, TryFlag, Sweep, RaiseWatermark, ZeroSlot,
         ReleaseFlag, RecheckTail, RecheckSlot, Return, EndScan, locals
    <2>3. \E l : pc' = [pc EXCEPT ![p] = l] /\ l # "apply"
      <3>1. pc[p] \in TryingPC => back[p] # "apply" BY DEF Typed, Returns
      <3> QED
        BY <1>7, <3>1 DEF CommitStep, BeginCommit, RingFull, RingSpace, StoreSlot,
           CountPending, EndCommit, MarkApplied, UncountPending, SeeWaiters,
           NotifyWaiters, TryReclaim, TryFlag, Sweep, RaiseWatermark, ZeroSlot,
           ReleaseFlag, RecheckTail, RecheckSlot, Return, Goto, TryingPC
    <2>4. Clock' = Clock BY <2>1 DEF Clock
    <2> QED BY <1>1, <1>2, <2>1, <2>2, <2>3, <2>4
  <1> QED BY <1>4, <1>5, <1>6, <1>7

\* Hence a committer's step leaves what the scans have shown.
LEMMA ScansKept ==
  ASSUME RingInv, NEW p \in Committers, AllocCommitTs(p) \/ CommitStep(p)
  PROVE  Mutex' /\ Scans'
  <1> USE DEF RingInv
  <1>1. /\ UNCHANGED <<barrierWaiters, barrierLock>>
        /\ \A r \in Readers : /\ pc'[r] = pc[r] /\ ts'[r] = ts[r] /\ lt'[r] = lt[r]
                              /\ lh'[r] = lh[r] /\ ls'[r] = ls[r]
        /\ tail' \in {tail, tail + 1} /\ head' \in {head, head + 1}
        /\ Clock' \in {Clock, Clock + 1}
        /\ \A c \in Committers : pc'[c] = "apply" =>
             \/ pc[c] = "apply" /\ seq'[c] = seq[c] /\ ts'[c] = ts[c]
             \/ ts'[c] = Clock + 1
    BY CommitterFrame
  <1>2. Mutex'
    <2>1. Registered' = Registered BY <1>1 DEF Registered
    <2> QED BY <1>1, <2>1 DEF Mutex
  <1>3. ASSUME NEW r \in Readers PROVE Scan(r)'
    <2>1. Scan(r) BY DEF Scans
    <2>2. /\ ts[r] \in Nat /\ lt[r] \in Nat /\ lh[r] \in Nat /\ ls[r] \in Nat
          /\ tail \in Nat /\ head \in Nat /\ Clock \in Nat
      BY Types, ClockBound DEF Ledger
    <2>3. \A c \in Committers : Due(r, c)' => Due(r, c) /\ seq'[c] = seq[c]
      <3> SUFFICES ASSUME NEW c \in Committers, pc'[c] = "apply", ts'[c] <= ts[r]
                   PROVE  pc[c] = "apply" /\ seq'[c] = seq[c] /\ ts'[c] = ts[c]
        BY <1>1 DEF Due
      <3>1. ts'[c] # Clock + 1 BY <2>1, <2>2 DEF Scan
      <3> QED BY <1>1, <3>1
    <2>4. ts[r] <= Clock' BY <1>1, <2>1, <2>2 DEF Scan
    <2>5. lt[r] <= tail => lt[r] <= tail' BY <1>1, <2>2
    <2>6. lh[r] <= head => lh[r] <= head' BY <1>1, <2>2
    <2>7. lt[r] <= tail /\ tail' = lt[r] => tail = lt[r] BY <1>1, <2>2
    <2> QED BY <1>1, <2>1, <2>3, <2>4, <2>5, <2>6, <2>7 DEF Scan
  <1> QED BY <1>2, <1>3 DEF Scans
-----------------------------------------------------------------------------
(* The readers.                                                            *)

\* A step of r that changes nothing but r's own variables and the barrier, and
\* the counter if no commit is being announced.
OwnMove(r) ==
    /\ \E l \in ReaderPC : pc' = [pc EXCEPT ![r] = l]
    /\ \E n \in Nat : ts' = [ts EXCEPT ![r] = n]
    /\ \E n \in Nat : seq' = [seq EXCEPT ![r] = n]
    /\ \E n \in Nat : lt' = [lt EXCEPT ![r] = n]
    /\ \E n \in Nat : lh' = [lh EXCEPT ![r] = n]
    /\ \E n \in Nat : ls' = [ls EXCEPT ![r] = n]
    /\ \E b \in Returns \cup {"idle"} : back' = [back EXCEPT ![r] = b]
    /\ UNCHANGED <<ring, head, tail, reclaimFlag,
                   flagStore, missed, pendingCount, appliedWatermark, tsLock>>
    /\ \/ timestamp' = timestamp
       \/ tsLock = None /\ timestamp' = timestamp + 1

\* Such a step keeps the ledger, and what the other readers' scans have shown.
LEMMA ReaderMoves ==
  ASSUME RingInv, NEW r \in Readers, OwnMove(r),
         barrierWaiters' \in Nat, barrierLock' \in Readers \cup {None}, parked' \subseteq Readers
  PROVE  /\ Typed' /\ Ledger'
         /\ \A q \in Readers : q # r => Scan(q)'
  <1> USE DEF RingInv, Ledger
  <1>1. /\ timestamp \in Nat /\ pc \in [Threads -> CommitterPC \cup ReaderPC]
        /\ ts \in [Threads -> Nat] /\ seq \in [Threads -> Nat] /\ lt \in [Threads -> Nat]
        /\ lh \in [Threads -> Nat] /\ ls \in [Threads -> Nat] /\ tail \in Nat /\ head \in Nat
        /\ back \in [Threads -> Returns \cup {"idle"}]
        /\ r \in Threads /\ r \notin Committers
        /\ \A c \in Committers : c \in Threads /\ c # None /\ c # r
        /\ \A q \in Readers : q \in Threads
    BY Types, CommitRingAssumption
  <1>2. \A c \in Committers : /\ pc'[c] = pc[c] /\ ts'[c] = ts[c] /\ seq'[c] = seq[c]
                              /\ back'[c] = back[c] /\ lt'[c] = lt[c]
    BY <1>1 DEF OwnMove
  <1>3. \A q \in Readers : q # r =>
          /\ pc'[q] = pc[q] /\ ts'[q] = ts[q]
          /\ lt'[q] = lt[q] /\ lh'[q] = lh[q] /\ ls'[q] = ls[q]
    BY <1>1 DEF OwnMove
  <1>4. /\ UNCHANGED <<ring, head, tail, reclaimFlag,
                       flagStore, missed, pendingCount, appliedWatermark, tsLock>>
        /\ timestamp' = timestamp \/ (tsLock = None /\ timestamp' = timestamp + 1)
    BY DEF OwnMove
  <1>5. Typed'
    <2>1. /\ ts' \in [Threads -> Nat] /\ seq' \in [Threads -> Nat] /\ lt' \in [Threads -> Nat]
          /\ lh' \in [Threads -> Nat] /\ ls' \in [Threads -> Nat]
      BY <1>1 DEF OwnMove
    <2>2. pc' \in [Threads -> CommitterPC \cup ReaderPC] /\ pc'[r] \in ReaderPC
      BY <1>1 DEF OwnMove
    <2>3. back' \in [Threads -> Returns \cup {"idle"}] BY <1>1 DEF OwnMove
    <2>4. timestamp' \in Nat BY <1>1, <1>4
    <2>5. TypeOK' BY <1>4, <2>1, <2>2, <2>4 DEF Typed, TypeOK
    <2> QED BY <1>1, <1>2, <1>3, <2>2, <2>3, <2>5 DEF Typed
  <1>6. Clock \in Nat /\ Clock' \in {Clock, Clock + 1} BY <1>1, <1>4, ClockBound DEF Clock
  <1>7. \A s : Entry(s)' = Entry(s) BY <1>4 DEF Entry
  <1>8. Counts'
    <2>1. Counted' = Counted BY <1>2 DEF Counted
    <2> QED BY <1>4, <2>1 DEF Counts
  <1>9. \A c \in Committers : InBegin(c)' = InBegin(c) BY <1>2 DEF InBegin
  <1>10. Locked'
    <2>1. ASSUME NEW c \in Committers, InBegin(c)
          PROVE  timestamp' = timestamp
      BY <1>1, <1>4, <2>1 DEF Locked
    <2> QED BY <1>2, <1>4, <1>9, <2>1 DEF Locked
  <1>11. Begun' BY <1>2, <1>4, <1>7 DEF Begun
  <1>12. \A s \in tail .. head - 1 : Entry(s).ts \in Nat
    <2> SUFFICES ASSUME NEW s \in tail .. head - 1 PROVE Entry(s).ts \in Nat
        OBVIOUS
    <2>1. slot(s) \in 0 .. RingSize - 1 BY <1>1, SlotInRing
    <2>2. Entry(s) \in SlotValues BY <2>1, Types DEF Entry
    <2> QED BY <2>2 DEF SlotValues
  <1>13. \A s \in tail .. head - 1 : Entry(s).ts <= Clock'
    BY <1>6, <1>12 DEF Window
  <1>14. Window' BY <1>2, <1>4, <1>7, <1>13 DEF Window
  <1>15. Owned' BY <1>2, <1>4, <1>7 DEF Owned
  <1>16. Marked'
    <2>1. appliedWatermark \in Nat /\ appliedWatermark <= Clock BY Types DEF Marked
    <2>2. appliedWatermark <= Clock' BY <1>6, <2>1
    <2> QED BY <1>4, <1>7, <2>2 DEF Marked
  <1>17. Gate' BY <1>2, <1>4, <1>7 DEF Gate, Entry
  <1>18. Covered'
    <2>1. \A c \in Committers : Covers(c)' = Covers(c) BY <1>2, <1>4 DEF Covers
    <2> QED BY <1>4, <2>1 DEF Covered, Entry
  <1>19. ASSUME NEW q \in Readers, q # r PROVE Scan(q)'
    <2>1. Scan(q) BY DEF Scans
    <2>2. ts[q] <= Clock' BY <1>1, <1>6, <2>1 DEF Scan
    <2>3. \A c \in Committers : Due(q, c)' = Due(q, c) BY <1>2, <1>3, <1>19 DEF Due
    <2> QED BY <1>2, <1>3, <1>4, <1>19, <2>1, <2>2, <2>3 DEF Scan
  <1> QED BY <1>5, <1>8, <1>10, <1>11, <1>14, <1>15, <1>16, <1>17, <1>18, <1>19

\* A reader that neither takes nor leaves the mutex stays registered or not.
LEMMA MutexSame ==
  ASSUME Typed, Mutex, NEW r \in Readers, NEW l,
         pc' = [pc EXCEPT ![r] = l], UNCHANGED <<barrierWaiters, barrierLock>>,
         pc[r] # "b_wake", l # "b_wake",
         barrierLock = r => l \in {"b_tail", "b_head", "b_slot", "b_valid", "b_sleep", "b_leave"},
         l \in {"b_sleep", "b_leave"} => barrierLock = r
  PROVE  Mutex'
  <1>1. /\ pc \in [Threads -> CommitterPC \cup ReaderPC] /\ r \in Threads
        /\ \A q \in Readers : q \in Threads
    BY Types
  <1>2. Registered' = Registered BY <1>1 DEF Registered
  <1> QED BY <1>1, <1>2 DEF Mutex

\* A reader takes its timestamp when no announcement is under way.
LEMMA TakeSnapshotInv ==
  ASSUME RingInv, NEW r \in Readers, TakeSnapshotTs(r)
  PROVE  RingInv'
  <1> USE DEF RingInv
  <1>1. /\ pc[r] = "idle" /\ tsLock = None
        /\ timestamp' \in {timestamp, timestamp + 1}
        /\ timestamp' \in 1 .. MaxTs
        /\ ts' = [ts EXCEPT ![r] = timestamp']
        /\ pc' = [pc EXCEPT ![r] = "b_count"]
        /\ UNCHANGED <<ring, head, tail, reclaimFlag,
                       flagStore, missed, pendingCount, appliedWatermark, tsLock>>
        /\ UNCHANGED <<barrierWaiters, barrierLock, parked, seq, back, lt, lh, ls>>
    BY DEF TakeSnapshotTs, Goto, ledger, gate, barrier, locals
  <1>2. /\ timestamp \in Nat /\ pc \in [Threads -> CommitterPC \cup ReaderPC]
        /\ ts \in [Threads -> Nat] /\ seq \in [Threads -> Nat] /\ lt \in [Threads -> Nat]
        /\ lh \in [Threads -> Nat] /\ ls \in [Threads -> Nat]
        /\ back \in [Threads -> Returns \cup {"idle"}] /\ r \in Threads
        /\ barrierWaiters \in Nat /\ barrierLock \in Readers \cup {None}
        /\ parked \subseteq Readers
    BY Types
  <1>3. timestamp' \in Nat /\ timestamp' # 0 /\ timestamp' <= timestamp'
    BY <1>1, <1>2, CommitRingAssumption
  <1>4. OwnMove(r)
    <2>1. \E n \in Nat : ts' = [ts EXCEPT ![r] = n] BY <1>1, <1>3
    <2>2. /\ seq' = [seq EXCEPT ![r] = seq[r]] /\ lt' = [lt EXCEPT ![r] = lt[r]]
          /\ lh' = [lh EXCEPT ![r] = lh[r]] /\ ls' = [ls EXCEPT ![r] = ls[r]]
          /\ back' = [back EXCEPT ![r] = back[r]]
      BY <1>1, <1>2
    <2>3. /\ seq[r] \in Nat /\ lt[r] \in Nat /\ lh[r] \in Nat /\ ls[r] \in Nat
          /\ back[r] \in Returns \cup {"idle"} /\ "b_count" \in ReaderPC
      BY <1>2 DEF ReaderPC
    <2> QED BY <1>1, <2>1, <2>2, <2>3 DEF OwnMove
  <1>5. /\ Typed' /\ Ledger'
        /\ \A q \in Readers : q # r => Scan(q)'
    BY <1>1, <1>2, <1>4, ReaderMoves
  <1>6. Mutex' BY <1>1, MutexSame DEF Mutex
  <1>7. Scan(r)'
    <2>1. ts'[r] = timestamp' /\ Clock' = timestamp' /\ pc'[r] = "b_count"
      BY <1>1, <1>2 DEF Clock
    <2> QED BY <1>3, <2>1 DEF Scan
  <1> QED BY <1>5, <1>6, <1>7 DEF Scans
\* snapshot_barrier consists of such steps.
LEMMA BarrierMoves ==
  ASSUME RingInv, NEW r \in Readers, Barrier(r)
  PROVE  OwnMove(r)
  <1> USE DEF Barrier, FastCount, FastWatermark, ScanTail, ScanHead, ScanSlot, ScanValidate,
          Park, Sleep, Wake, Leave, ScanFalse, ScanTrue
  <1>1. /\ pc \in [Threads -> CommitterPC \cup ReaderPC]
        /\ ts \in [Threads -> Nat] /\ seq \in [Threads -> Nat] /\ lt \in [Threads -> Nat]
        /\ lh \in [Threads -> Nat] /\ ls \in [Threads -> Nat] /\ tail \in Nat /\ head \in Nat
        /\ back \in [Threads -> Returns \cup {"idle"}] /\ r \in Threads
    BY Types DEF RingInv
  <1>2. UNCHANGED <<ring, head, tail, reclaimFlag, flagStore, missed, pendingCount, appliedWatermark, tsLock,
                    timestamp>>
    BY DEF ledger, gate
  <1>3. \E l \in ReaderPC : pc' = [pc EXCEPT ![r] = l]
    <2>1. PICK l : /\ pc' = [pc EXCEPT ![r] = l]
                   /\ l \in {"idle", "b_mark", "b_tail", "b_head", "b_slot", "b_valid",
                             "b_park", "b_sleep", "b_wake", "b_leave"}
      BY <1>1 DEF Return, Goto
    <2> QED BY <2>1 DEF ReaderPC
  <1>4. \E n \in {ts[r], 0} : ts' = [ts EXCEPT ![r] = n] BY <1>1 DEF Return, locals
  <1>5. \E n \in {seq[r], 0} : seq' = [seq EXCEPT ![r] = n] BY <1>1 DEF Return, locals
  <1>6. \E n \in {lt[r], tail, 0} : lt' = [lt EXCEPT ![r] = n]
    BY <1>1 DEF Return, EndScan, locals
  <1>7. \E n \in {lh[r], head, 0} : lh' = [lh EXCEPT ![r] = n]
    BY <1>1 DEF Return, EndScan, locals
  <1>8. \E n \in {ls[r], ls[r] + 1, lt[r], 0} : ls' = [ls EXCEPT ![r] = n]
    BY <1>1 DEF Return, EndScan, locals
  <1>9. \E b \in {back[r], "idle"} : back' = [back EXCEPT ![r] = b]
    BY <1>1 DEF Return, locals
  <1>10. /\ ts[r] \in Nat /\ seq[r] \in Nat /\ lt[r] \in Nat /\ lh[r] \in Nat
         /\ ls[r] \in Nat /\ ls[r] + 1 \in Nat /\ 0 \in Nat
         /\ back[r] \in Returns \cup {"idle"}
    BY <1>1
  <1>11. /\ \E n \in Nat : ts' = [ts EXCEPT ![r] = n]
         /\ \E n \in Nat : seq' = [seq EXCEPT ![r] = n]
         /\ \E n \in Nat : lt' = [lt EXCEPT ![r] = n]
         /\ \E n \in Nat : lh' = [lh EXCEPT ![r] = n]
         /\ \E n \in Nat : ls' = [ls EXCEPT ![r] = n]
         /\ \E b \in Returns \cup {"idle"} : back' = [back EXCEPT ![r] = b]
    BY <1>1, <1>4, <1>5, <1>6, <1>7, <1>8, <1>9, <1>10
  <1> QED BY <1>2, <1>3, <1>11 DEF OwnMove

\* The counter of parked readers is exact, and the mutex held by who says so.
LEMMA MutexInv ==
  ASSUME RingInv, NEW r \in Readers, Barrier(r)
  PROVE  /\ Mutex' /\ barrierWaiters' \in Nat
         /\ barrierLock' \in Readers \cup {None} /\ parked' \subseteq Readers
  <1>1. /\ Typed /\ Mutex /\ pc \in [Threads -> CommitterPC \cup ReaderPC] /\ r \in Threads
        /\ \A q \in Readers : q \in Threads /\ q # None
        /\ barrierWaiters \in Nat /\ barrierLock \in Readers \cup {None}
        /\ parked \subseteq Readers
    BY Types DEF RingInv
  <1>2. CASE Park(r)
    <2>1. /\ pc[r] = "b_park" /\ barrierLock = None /\ barrierLock' = r
          /\ barrierWaiters' = barrierWaiters + 1 /\ parked' = parked
          /\ pc' = [pc EXCEPT ![r] = "b_tail"]
      BY <1>2 DEF Park, Goto
    <2>2. Registered' = Registered \cup {r} /\ r \notin Registered
      BY <1>1, <2>1 DEF Registered
    <2>3. /\ IsFiniteSet(Registered \cup {r})
          /\ Cardinality(Registered \cup {r}) = Cardinality(Registered) + 1
      BY <1>1, <2>2, FS_AddElement DEF Mutex
    <2>4. Mutex' BY <1>1, <2>1, <2>2, <2>3 DEF Mutex
    <2>5. barrierWaiters' \in Nat BY <1>1, <2>1
    <2> QED BY <1>1, <2>1, <2>4, <2>5
  <1>3. CASE Leave(r)
    <2>1. /\ pc[r] = "b_leave" /\ barrierLock' = None
          /\ barrierWaiters' = barrierWaiters - 1 /\ parked' = parked
          /\ pc' = [pc EXCEPT ![r] = "idle"]
      BY <1>3 DEF Leave, Return, Goto
    <2>2. barrierLock = r BY <1>1, <2>1 DEF Mutex
    <2>3. Registered' = Registered \ {r} /\ r \in Registered
      BY <1>1, <2>1, <2>2 DEF Registered
    <2>4. /\ IsFiniteSet(Registered \ {r})
          /\ Cardinality(Registered \ {r}) = Cardinality(Registered) - 1
      BY <1>1, <2>3, FS_RemoveElement DEF Mutex
    <2>5. Mutex' BY <1>1, <2>1, <2>2, <2>3, <2>4 DEF Mutex
    <2>6. Cardinality(Registered \ {r}) \in Nat BY <2>4, FS_CardinalityType
    <2>7. barrierWaiters' \in Nat BY <1>1, <2>1, <2>4, <2>6 DEF Mutex
    <2> QED BY <1>1, <2>1, <2>5, <2>7
  <1>4. CASE Sleep(r)
    <2>1. /\ pc[r] = "b_sleep" /\ barrierLock' = None
          /\ barrierWaiters' = barrierWaiters /\ parked' = parked \cup {r}
          /\ pc' = [pc EXCEPT ![r] = "b_wake"]
      BY <1>4 DEF Sleep, Goto
    <2>2. barrierLock = r BY <1>1, <2>1 DEF Mutex
    <2>3. Registered' = Registered BY <1>1, <2>1, <2>2 DEF Registered
    <2>4. Mutex' BY <1>1, <2>1, <2>2, <2>3 DEF Mutex
    <2> QED BY <1>1, <2>1, <2>4
  <1>5. CASE Wake(r)
    <2>1. /\ pc[r] = "b_wake" /\ barrierLock = None /\ barrierLock' = r
          /\ barrierWaiters' = barrierWaiters /\ parked' = parked
          /\ pc' = [pc EXCEPT ![r] = "b_tail"]
      BY <1>5 DEF Wake, Goto
    <2>2. Registered' = Registered BY <1>1, <2>1 DEF Registered
    <2>3. Mutex' BY <1>1, <2>1, <2>2 DEF Mutex
    <2> QED BY <1>1, <2>1, <2>3
  <1>6. CASE FastCount(r) \/ FastWatermark(r) \/ ScanTail(r) \/ ScanHead(r) \/ ScanSlot(r)
             \/ ScanValidate(r)
    <2>1. UNCHANGED <<barrierWaiters, barrierLock, parked>>
      BY <1>6 DEF FastCount, FastWatermark, ScanTail, ScanHead, ScanSlot, ScanValidate, barrier
    <2>2. barrierLock = r =>
            pc[r] \in {"b_tail", "b_head", "b_slot", "b_valid", "b_sleep", "b_leave"}
      BY <1>1 DEF Mutex
    <2>3. PICK l : /\ pc' = [pc EXCEPT ![r] = l] /\ l # "b_wake"
                   /\ barrierLock = r => l \in {"b_tail", "b_head", "b_slot", "b_valid",
                                                "b_sleep", "b_leave"}
                   /\ l \in {"b_sleep", "b_leave"} => barrierLock = r
      BY <1>1, <1>6, <2>2 DEF FastCount, FastWatermark, ScanTail, ScanHead, ScanSlot,
         ScanValidate, ScanFalse, ScanTrue, Return, Goto
    <2>4. pc[r] # "b_wake"
      BY <1>6 DEF FastCount, FastWatermark, ScanTail, ScanHead, ScanSlot, ScanValidate
    <2>5. Mutex' BY <1>1, <2>1, <2>3, <2>4, MutexSame
    <2> QED BY <1>1, <2>1, <2>5
  <1> QED BY <1>2, <1>3, <1>4, <1>5, <1>6 DEF Barrier
\* A reader that returns from snapshot_barrier, by whichever of its exits, leaves
\* no commit at or below its snapshot announced and unapplied.
LEMMA PassSound ==
  ASSUME RingInv, NEW r \in Readers, Barrier(r), pc'[r] \in {"idle", "b_leave"}
  PROVE  \A c \in Committers : ~Due(r, c)
  <1> USE DEF RingInv, Ledger
  <1>1. /\ pc \in [Threads -> CommitterPC \cup ReaderPC] /\ r \in Threads
        /\ lt[r] \in Nat /\ lh[r] \in Nat /\ ls[r] \in Nat /\ ts[r] \in Nat
        /\ \A c \in Committers : ts[c] \in Nat /\ seq[c] \in Nat
        /\ appliedWatermark \in Nat
    BY Types
  <1>2. Scan(r) BY DEF Scans
  <1>3. CASE FastCount(r)
    <2>1. pendingCount = 0 BY <1>1, <1>3 DEF FastCount, Goto
    <2>2. Counted = {} BY <2>1, FS_EmptySet DEF Counts
    <2> QED BY <2>2 DEF Counted, Due
  <1>4. CASE FastWatermark(r)
    <2>1. appliedWatermark >= ts[r] BY <1>1, <1>4 DEF FastWatermark, Goto
    <2> SUFFICES ASSUME NEW c \in Committers, Due(r, c) PROVE FALSE
        OBVIOUS
    <2>2. seq[c] \in tail .. head - 1 /\ Entry(seq[c]) = Pending(ts[c])
      BY DEF Due, Owned
    <2>3. ts[c] > appliedWatermark BY <2>2 DEF Marked, Pending
    <2> QED BY <1>1, <2>1, <2>3 DEF Due
  <1>5. CASE ScanSlot(r)
    <2>1. pc[r] = "b_slot" /\ ls[r] = lh[r]
      BY <1>1, <1>5 DEF ScanSlot, ScanTrue, Goto
    <2> QED BY <1>1, <1>2, <2>1 DEF Scan
  <1>6. CASE ScanValidate(r)
    <2>1. pc[r] = "b_valid" /\ tail = lt[r]
      BY <1>1, <1>6 DEF ScanValidate, Goto
    <2> QED BY <1>2, <2>1 DEF Scan
  <1>7. CASE Leave(r)
    <2>1. pc[r] = "b_leave" BY <1>7 DEF Leave
    <2> QED BY <1>2, <2>1 DEF Scan
  <1>8. ~ScanTail(r) /\ ~ScanHead(r) /\ ~Park(r) /\ ~Sleep(r) /\ ~Wake(r)
    BY <1>1 DEF ScanTail, ScanHead, Park, Sleep, Wake, Goto
  <1> QED BY <1>3, <1>4, <1>5, <1>6, <1>7, <1>8 DEF Barrier

\* What the scan of r has shown after a step of snapshot_barrier.
LEMMA ScanOwn ==
  ASSUME RingInv, NEW r \in Readers, Barrier(r)
  PROVE  Scan(r)'
  <1> USE DEF RingInv, Ledger
  <1>1. /\ pc \in [Threads -> CommitterPC \cup ReaderPC] /\ r \in Threads
        /\ ts \in [Threads -> Nat] /\ lt \in [Threads -> Nat]
        /\ lh \in [Threads -> Nat] /\ ls \in [Threads -> Nat]
        /\ lt[r] \in Nat /\ lh[r] \in Nat /\ ls[r] \in Nat /\ ts[r] \in Nat
        /\ \A c \in Committers : ts[c] \in Nat /\ seq[c] \in Nat
        /\ tail \in Nat /\ head \in Nat
        /\ \A c \in Committers : c \in Threads /\ c # r
    BY Types, CommitRingAssumption
  <1>2. Scan(r) BY DEF Scans
  <1>3. OwnMove(r) BY BarrierMoves
  <1>4. \A c \in Committers : pc'[c] = pc[c] /\ ts'[c] = ts[c] /\ seq'[c] = seq[c]
    BY <1>1, <1>3 DEF OwnMove
  <1>5. UNCHANGED <<head, tail, timestamp, tsLock>>
    BY DEF Barrier, FastCount, FastWatermark, ScanTail, ScanHead, ScanSlot, ScanValidate,
       Park, Sleep, Wake, Leave, ledger, gate
  <1>6. Clock' = Clock /\ Clock \in Nat BY <1>5, ClockBound DEF Clock
  <1>7. CASE pc'[r] = "idle"
    <2>1. ts'[r] = 0
      BY <1>1, <1>7 DEF Barrier, FastCount, FastWatermark, ScanTail, ScanHead, ScanSlot,
         ScanValidate, Park, Sleep, Wake, Leave, ScanFalse, ScanTrue, Return, Goto
    <2> QED BY <1>6, <1>7, <2>1 DEF Scan
  <1>8. CASE pc'[r] # "idle"
    <2>1. pc[r] # "idle"
      BY DEF Barrier, FastCount, FastWatermark, ScanTail, ScanHead, ScanSlot,
         ScanValidate, Park, Sleep, Wake, Leave
    <2>2. ts' = ts
      BY <1>1, <1>8 DEF Barrier, FastCount, FastWatermark, ScanTail, ScanHead, ScanSlot,
         ScanValidate, Park, Sleep, Wake, Leave, ScanFalse, ScanTrue, Return, Goto
    <2>3. (ts'[r] = 0 <=> pc'[r] = "idle") /\ ts'[r] <= Clock'
      BY <1>2, <1>6, <1>8, <2>1, <2>2 DEF Scan
    <2>4. \A c \in Committers : Due(r, c)' = Due(r, c) BY <1>4, <2>2 DEF Due
    <2>5. CASE pc'[r] \in {"b_mark", "b_tail", "b_park", "b_sleep", "b_wake"}
      BY <2>3, <2>5 DEF Scan
    <2>6. CASE pc'[r] = "b_leave"
      BY <2>3, <2>4, <2>6, PassSound DEF Scan
    <2>7. CASE ScanTail(r)
      <3>1. pc'[r] = "b_head" /\ lt'[r] = tail BY <1>1, <2>7 DEF ScanTail, Goto
      <3>2. lt'[r] <= tail BY <1>1, <3>1
      <3> QED BY <1>5, <2>3, <3>1, <3>2 DEF Scan
    <2>8. CASE ScanHead(r)
      <3>1. /\ pc[r] = "b_head" /\ pc'[r] = "b_slot" /\ lt' = lt
            /\ lh'[r] = head /\ ls'[r] = lt[r]
        BY <1>1, <2>8 DEF ScanHead, Goto
      <3>2. lt[r] <= tail /\ tail <= head BY <1>2, <3>1 DEF Scan, Window
      <3>3. \A c \in Committers : Due(r, c) => lt[r] <= seq[c] /\ seq[c] < head
        BY <1>1, <3>2 DEF Due, Owned
      <3>4. lt[r] <= lt[r] /\ lt[r] <= head /\ head <= head BY <1>1, <3>2
      <3> QED BY <1>4, <1>5, <2>3, <2>4, <3>1, <3>2, <3>3, <3>4 DEF Scan
    <2>9. CASE ScanSlot(r) /\ pc'[r] = "b_slot"
      <3>1. /\ pc[r] = "b_slot" /\ ls[r] # lh[r] /\ Entry(ls[r]).st # "pending"
            /\ ls'[r] = ls[r] + 1 /\ lt' = lt /\ lh' = lh
        BY <1>1, <2>9 DEF ScanSlot, ScanTrue, ScanFalse, Return, Goto, Entry
      <3>2. /\ lt[r] <= tail /\ lt[r] <= ls[r] /\ ls[r] <= lh[r] /\ lh[r] <= head
            /\ \A c \in Committers : Due(r, c) => ls[r] <= seq[c] /\ seq[c] < lh[r]
        BY <1>2, <3>1 DEF Scan
      <3>3. \A c \in Committers : Due(r, c) => seq[c] # ls[r]
        <4> SUFFICES ASSUME NEW c \in Committers, Due(r, c) PROVE seq[c] # ls[r]
            OBVIOUS
        <4>1. Entry(seq[c]) = Pending(ts[c]) BY DEF Due, Owned
        <4>2. Entry(seq[c]).st = "pending" BY <4>1 DEF Pending
        <4> QED BY <3>1, <4>2
      <3>4. /\ lt[r] <= ls[r] + 1 /\ ls[r] + 1 <= lh[r]
            /\ \A c \in Committers : Due(r, c) => ls[r] + 1 <= seq[c] /\ seq[c] < lh[r]
        BY <1>1, <3>1, <3>2, <3>3
      <3> QED BY <1>4, <1>5, <2>3, <2>4, <2>9, <3>1, <3>2, <3>4 DEF Scan
    <2>10. CASE ScanSlot(r) /\ pc'[r] = "b_valid"
      <3>1. /\ pc[r] = "b_slot" /\ ls[r] # lh[r] /\ Entry(ls[r]).st = "pending"
            /\ Entry(ls[r]).ts > ts[r] /\ lt' = lt
        BY <1>1, <2>10 DEF ScanSlot, ScanTrue, ScanFalse, Return, Goto, Entry, locals
      <3>2. /\ lt[r] <= tail /\ lt[r] <= ls[r] /\ ls[r] <= lh[r] /\ lh[r] <= head
            /\ \A c \in Committers : Due(r, c) => ls[r] <= seq[c] /\ seq[c] < lh[r]
        BY <1>2, <3>1 DEF Scan
      <3>3. ASSUME tail = lt[r], NEW c \in Committers, Due(r, c) PROVE FALSE
        <4>1. seq[c] \in tail .. head - 1 /\ Entry(seq[c]) = Pending(ts[c]) /\ ts[c] <= ts[r]
          BY <3>3 DEF Due, Owned
        <4>2. ls[r] \in tail .. head - 1 BY <1>1, <3>1, <3>2, <3>3
        <4>3. Entry(ls[r]).ts \in Nat
          <5>1. Entry(ls[r]) \in SlotValues BY <1>1, SlotInRing, Types DEF Entry
          <5> QED BY <5>1 DEF SlotValues
        <4>4. CASE seq[c] = ls[r]
          BY <1>1, <3>1, <4>1, <4>3, <4>4 DEF Pending
        <4>5. CASE ls[r] < seq[c]
          <5>1. Entry(ls[r]).ts < Entry(seq[c]).ts
            BY <3>1, <4>1, <4>2, <4>5 DEF Window
          <5>2. Entry(seq[c]).ts = ts[c] BY <4>1 DEF Pending
          <5> QED BY <1>1, <3>1, <4>1, <4>3, <5>1, <5>2
        <4> QED BY <1>1, <3>2, <3>3, <4>4, <4>5
      <3> QED BY <1>4, <1>5, <2>3, <2>4, <2>10, <3>1, <3>2, <3>3 DEF Scan
    <2>11. \/ pc'[r] \in {"b_mark", "b_tail", "b_park", "b_sleep", "b_wake", "b_leave"}
           \/ ScanTail(r) \/ ScanHead(r)
           \/ ScanSlot(r) /\ pc'[r] \in {"b_slot", "b_valid"}
      BY <1>1, <1>8 DEF Barrier, FastCount, FastWatermark, ScanSlot, ScanValidate,
         Park, Sleep, Wake, Leave, ScanFalse, ScanTrue, Return, Goto
    <2> QED BY <2>5, <2>6, <2>7, <2>8, <2>9, <2>10, <2>11
  <1> QED BY <1>7, <1>8

\* Every step of the specification keeps the invariant.
LEMMA RingStep == RingInv /\ [Next]_vars => RingInv'
  <1> SUFFICES ASSUME RingInv, [Next]_vars PROVE RingInv'
      OBVIOUS
  <1>1. ASSUME NEW p \in Committers, AllocCommitTs(p) \/ CommitStep(p) PROVE RingInv'
    BY <1>1, CommitterStep, ScansKept DEF RingInv
  <1>2. ASSUME NEW r \in Readers, TakeSnapshotTs(r) PROVE RingInv'
    BY <1>2, TakeSnapshotInv
  <1>3. ASSUME NEW r \in Readers, Barrier(r) PROVE RingInv'
    <2>1. /\ Mutex' /\ barrierWaiters' \in Nat
          /\ barrierLock' \in Readers \cup {None} /\ parked' \subseteq Readers
      BY <1>3, MutexInv
    <2>2. /\ Typed' /\ Ledger'
          /\ \A q \in Readers : q # r => Scan(q)'
      BY <1>3, <2>1, BarrierMoves, ReaderMoves
    <2>3. Scan(r)' BY <1>3, ScanOwn
    <2> QED BY <2>1, <2>2, <2>3 DEF RingInv, Scans
  <1>4. CASE UNCHANGED vars
    BY <1>4 DEF vars, ledger, gate, barrier, locals, RingInv, Typed, TypeOK, Ledger, Counts, Counted,
       Locked, InBegin, Begun, Window, Owned, Marked, Gate, Covered, Covers, Entry, Clock,
       Mutex, Registered, Scans, Scan, Due
  <1>5. CASE DrainFlag BY <1>5, DrainFlagInv
  <1> QED BY <1>1, <1>2, <1>3, <1>4, <1>5 DEF Next
-----------------------------------------------------------------------------
(* What follows for every behaviour.                                       *)

\* The properties that the runs check follow from the invariant.
LEMMA RingConsequences ==
  ASSUME RingInv
  PROVE  TypeOK /\ OwnSlot /\ WatermarkSound /\ NothingLingers
  <1> USE DEF RingInv, Ledger
  <1>1. TypeOK BY DEF Typed
  <1>2. OwnSlot BY DEF OwnSlot, Announced, Owned, Entry
  <1>3. WatermarkSound
    <2> SUFFICES ASSUME NEW c \in Committers, pc[c] \in Announced \cup Beginning
                 PROVE  ts[c] > appliedWatermark
        BY DEF WatermarkSound
    <2>1. CASE pc[c] \in Announced
      <3>1. seq[c] \in tail .. head - 1 /\ Entry(seq[c]) = Pending(ts[c])
        BY <2>1 DEF Announced, Owned
      <3>2. Entry(seq[c]).st = "pending" /\ Entry(seq[c]).ts = ts[c] BY <3>1 DEF Pending
      <3> QED BY <3>1, <3>2 DEF Marked
    <2>2. CASE pc[c] \in Beginning
      <3>1. tsLock = c /\ ts[c] = timestamp /\ c # None
        BY <2>2, Types DEF Locked, InBegin
      <3>2. Clock < timestamp /\ Clock \in Nat BY <3>1, ClockBound
      <3>3. appliedWatermark <= Clock /\ appliedWatermark \in Nat /\ timestamp \in Nat
        BY Types DEF Marked
      <3> QED BY <3>1, <3>2, <3>3
    <2> QED BY <2>1, <2>2
  <1>4. NothingLingers
    <2> SUFFICES ASSUME \A c \in Committers : pc[c] \notin Reclaiming, tail # head, ~missed
                 PROVE  ring[slot(tail)].st = "pending"
        BY DEF NothingLingers
    <2>1. tail < head BY Types DEF Window
    <2>2. \A c \in Committers : ~Covers(c) BY DEF Covers, TryingPC, Reclaiming
    <2> QED BY <2>1, <2>2 DEF Covered, Entry
  <1> QED BY <1>1, <1>2, <1>3, <1>4

\* The inductive invariant of the ring holds in every reachable state, for any
\* ring size, any number of commits and any interleaving of the atomic steps of
\* begin_commit, end_commit, try_reclaim and snapshot_barrier.
THEOREM RingInvariance == Spec => []RingInv
  BY RingInit, RingStep, PTL DEF Spec

\* The variables of the ledger, the condition variable and the threads keep
\* their types; in particular neither counter ever goes below zero.
THEOREM RingTypeCorrect == Spec => []TypeOK
  BY RingInvariance, RingConsequences, PTL

\* begin_commit never reuses a slot whose commit is pending, so the compare and
\* swap of end_commit finds the entry that begin_commit stored.
THEOREM SlotsOwned == Spec => []OwnSlot
  BY RingInvariance, RingConsequences, PTL

\* try_reclaim never raises applied_watermark to a commit that is announced and
\* unapplied, or about to be announced.
THEOREM WatermarkTrails == Spec => []WatermarkSound
  BY RingInvariance, RingConsequences, PTL

\* When no thread is inside try_reclaim nor about to call it, no applied entry
\* is left at the tail, although the loser of the flag returns at once and the
\* release of the flag is a plain store; unless the flag was refused after its
\* release and has not been taken since.
THEOREM NothingLeftBehind == Spec => []NothingLingers
  BY RingInvariance, RingConsequences, PTL

-----------------------------------------------------------------------------
(* Refinement of SnapshotBarrier: BumpHead announces, MarkApplied finishes, *)
(* TakeSnapshotTs takes the snapshot, and the return from snapshot_barrier  *)
(* passes.  Every other step is a stutter.                                  *)

InflightMap == [c \in Committers |-> IF pc[c] \in Announced THEN ts[c] ELSE 0]
WaitingMap == [r \in Readers |-> ts[r]]

\* A committer's step announces, finishes, or changes nothing that the abstract
\* barrier knows of.
LEMMA CommitterRefines ==
  ASSUME RingInv, NEW p \in Committers, AllocCommitTs(p) \/ CommitStep(p)
  PROVE  Abstract!Announce(p) \/ Abstract!Finish(p) \/ UNCHANGED Abstract!vars
  <1> USE DEF RingInv, Ledger
  <1>1. /\ pc \in [Threads -> CommitterPC \cup ReaderPC] /\ ts \in [Threads -> Nat]
        /\ p \in Threads /\ p # None /\ p \notin Readers /\ timestamp \in Nat
        /\ \A c \in Committers : c \in Threads
        /\ \A r \in Readers : r \in Threads
    BY Types, CommitRingAssumption
  <1>2. WaitingMap' = WaitingMap
    <2>1. \A r \in Readers : ts'[r] = ts[r] BY CommitterFrame
    <2> QED BY <2>1 DEF WaitingMap
  <1>3. CASE BumpHead(p)
    <2>1. /\ pc[p] = "head" /\ tsLock' = None /\ timestamp' = timestamp /\ ts' = ts
          /\ pc' = [pc EXCEPT ![p] = "apply"]
      BY <1>3 DEF BumpHead, Goto
    <2>2. tsLock = p /\ ts[p] = timestamp
      BY <2>1 DEF Locked, InBegin, Beginning
    <2>3. Clock' = Clock + 1 /\ ts[p] = Clock + 1 BY <1>1, <2>1, <2>2 DEF Clock
    <2>4. InflightMap[p] = 0 BY <2>1 DEF InflightMap, Announced
    <2>5. InflightMap' = [InflightMap EXCEPT ![p] = Clock + 1]
      BY <1>1, <2>1, <2>3 DEF InflightMap, Announced
    <2>6. Abstract!Announce(p)
      BY <1>2, <2>3, <2>4, <2>5 DEF Abstract!Announce, InflightMap, WaitingMap, Clock
    <2> QED BY <2>6
  <1>4. CASE MarkApplied(p)
    <2>1. pc[p] = "apply" BY <1>4 DEF MarkApplied
    <2>2. ts[p] > 0 /\ ring[slot(seq[p])] = Pending(ts[p]) BY <2>1 DEF Owned, Entry
    <2>3. /\ pc' = [pc EXCEPT ![p] = "uncount"]
          /\ UNCHANGED <<ts, timestamp, tsLock>>
      BY <1>4, <2>2 DEF MarkApplied, Goto
    <2>4. InflightMap[p] # 0 BY <1>1, <2>1, <2>2 DEF InflightMap, Announced
    <2>5. InflightMap' = [InflightMap EXCEPT ![p] = 0]
      BY <1>1, <2>3 DEF InflightMap, Announced
    <2>6. Clock' = Clock BY <2>3 DEF Clock
    <2>7. Abstract!Finish(p)
      BY <1>2, <2>4, <2>5, <2>6 DEF Abstract!Finish, InflightMap, WaitingMap, Clock
    <2> QED BY <2>7
  <1>5. CASE ~BumpHead(p) /\ ~MarkApplied(p)
    <2>1. InflightMap' = InflightMap
      <3>1. pc[p] \notin Announced
        BY <1>5 DEF AllocCommitTs, CommitStep, BeginCommit, RingFull, RingSpace, StoreSlot,
           CountPending, EndCommit, UncountPending, SeeWaiters, NotifyWaiters, TryReclaim,
           TryFlag, Sweep, RaiseWatermark, ZeroSlot, AdvanceTail, ReleaseFlag, RecheckTail,
           RecheckSlot, Announced
      <3>2. PICK l : pc' = [pc EXCEPT ![p] = l] /\ l # "apply"
        <4>1. pc[p] \in TryingPC => back[p] # "apply" BY DEF Typed, Returns
        <4> QED
          BY <1>5, <4>1 DEF AllocCommitTs, CommitStep, BeginCommit, RingFull, RingSpace,
             StoreSlot, CountPending, EndCommit, UncountPending, SeeWaiters, NotifyWaiters,
             TryReclaim, TryFlag, Sweep, RaiseWatermark, ZeroSlot, AdvanceTail, ReleaseFlag,
             RecheckTail, RecheckSlot, Return, Goto, TryingPC
      <3>3. \E n : ts' = [ts EXCEPT ![p] = n]
        BY <1>1, <1>5 DEF AllocCommitTs, CommitStep, BeginCommit, RingFull, RingSpace,
           StoreSlot, CountPending, EndCommit, UncountPending, SeeWaiters, NotifyWaiters,
           TryReclaim, TryFlag, Sweep, RaiseWatermark, ZeroSlot, AdvanceTail, ReleaseFlag,
           RecheckTail, RecheckSlot, Return, locals
      <3> QED BY <1>1, <3>1, <3>2, <3>3 DEF InflightMap, Announced
    <2>2. Clock' = Clock
      <3>1. CASE AllocCommitTs(p)
        BY <1>1, <3>1 DEF AllocCommitTs, Clock
      <3>2. CASE CommitStep(p)
        <4>1. UNCHANGED <<timestamp, tsLock>>
          BY <1>5, <3>2 DEF CommitStep, BeginCommit, RingFull, RingSpace, StoreSlot,
             CountPending, EndCommit, UncountPending, SeeWaiters, NotifyWaiters, TryReclaim,
             TryFlag, Sweep, RaiseWatermark, ZeroSlot, AdvanceTail, ReleaseFlag, RecheckTail,
             RecheckSlot
        <4> QED BY <4>1 DEF Clock
      <3> QED BY <3>1, <3>2
    <2> QED BY <1>2, <2>1, <2>2 DEF Abstract!vars, InflightMap, WaitingMap, Clock
  <1> QED BY <1>3, <1>4, <1>5

\* A reader's step takes a snapshot, passes the barrier when nothing is due, or
\* changes nothing that the abstract barrier knows of.
LEMMA ReaderRefines ==
  ASSUME RingInv, NEW r \in Readers, TakeSnapshotTs(r) \/ Barrier(r)
  PROVE  Abstract!Snapshot(r) \/ Abstract!Pass(r) \/ UNCHANGED Abstract!vars
  <1> USE DEF RingInv, Ledger
  <1>1. /\ pc \in [Threads -> CommitterPC \cup ReaderPC] /\ ts \in [Threads -> Nat]
        /\ r \in Threads /\ timestamp \in Nat
        /\ \A c \in Committers : c \in Threads /\ c # r
        /\ \A q \in Readers : q \in Threads
    BY Types, CommitRingAssumption
  <1>2. Scan(r) BY DEF Scans
  <1>3. CASE TakeSnapshotTs(r)
    <2>1. /\ pc[r] = "idle" /\ tsLock = None /\ tsLock' = None
          /\ timestamp' \in {timestamp, timestamp + 1} /\ timestamp' \in 1 .. MaxTs
          /\ ts' = [ts EXCEPT ![r] = timestamp']
          /\ pc' = [pc EXCEPT ![r] = "b_count"]
      BY <1>3 DEF TakeSnapshotTs, Goto
    <2>2. Clock = timestamp /\ Clock' = timestamp' BY <2>1 DEF Clock
    <2>3. WaitingMap[r] = 0 BY <1>2, <2>1 DEF WaitingMap, Scan
    <2>4. WaitingMap' = [WaitingMap EXCEPT ![r] = Clock']
      BY <1>1, <2>1, <2>2 DEF WaitingMap
    <2>5. InflightMap' = InflightMap BY <1>1, <2>1 DEF InflightMap
    <2>6. timestamp' > 0 BY <1>1, <2>1, CommitRingAssumption
    <2>7. Abstract!Snapshot(r)
      BY <2>1, <2>2, <2>3, <2>4, <2>5, <2>6
         DEF Abstract!Snapshot, InflightMap, WaitingMap, Clock
    <2> QED BY <2>7
  <1>4. CASE Barrier(r)
    <2>1. OwnMove(r) BY <1>4, BarrierMoves
    <2>2. InflightMap' = InflightMap BY <1>1, <2>1 DEF OwnMove, InflightMap
    <2>3. UNCHANGED <<timestamp, tsLock>> /\ Clock' = Clock
      BY <1>4 DEF Barrier, FastCount, FastWatermark, ScanTail, ScanHead, ScanSlot,
         ScanValidate, Park, Sleep, Wake, Leave, Clock
    <2>4. pc[r] # "idle"
      BY <1>4 DEF Barrier, FastCount, FastWatermark, ScanTail, ScanHead, ScanSlot,
         ScanValidate, Park, Sleep, Wake, Leave
    <2>5. CASE pc'[r] = "idle"
      <3>1. ts' = [ts EXCEPT ![r] = 0]
        BY <1>1, <1>4, <2>5 DEF Barrier, FastCount, FastWatermark, ScanTail, ScanHead, ScanSlot,
           ScanValidate, Park, Sleep, Wake, Leave, ScanFalse, ScanTrue, Return, Goto
      <3>2. WaitingMap[r] # 0 BY <1>2, <2>4 DEF WaitingMap, Scan
      <3>3. WaitingMap' = [WaitingMap EXCEPT ![r] = 0] BY <1>1, <3>1 DEF WaitingMap
      <3>4. \A c \in Committers : InflightMap[c] = 0 \/ InflightMap[c] > WaitingMap[r]
        <4> SUFFICES ASSUME NEW c \in Committers, pc[c] = "apply" PROVE ts[c] > ts[r]
            BY DEF InflightMap, WaitingMap, Announced
        <4>1. ~Due(r, c) BY <1>4, <2>5, PassSound
        <4> QED BY <1>1, <4>1 DEF Due
      <3>5. Abstract!Pass(r)
        BY <2>2, <2>3, <3>2, <3>3, <3>4 DEF Abstract!Pass, InflightMap, WaitingMap, Clock
      <3> QED BY <3>5
    <2>6. CASE pc'[r] # "idle"
      <3>1. ts' = ts
        BY <1>1, <1>4, <2>6 DEF Barrier, FastCount, FastWatermark, ScanTail, ScanHead, ScanSlot,
           ScanValidate, Park, Sleep, Wake, Leave, ScanFalse, ScanTrue, Return, Goto
      <3> QED BY <2>2, <2>3, <3>1 DEF Abstract!vars, InflightMap, Clock
    <2> QED BY <2>5, <2>6
  <1> QED BY <1>3, <1>4

\* The ring of atomics implements the abstract barrier: no snapshot passes
\* while a commit at or below it is announced and unapplied.
THEOREM RingImplementsBarrier == Spec => ImplementsBarrier
  <1>1. Init => Abstract!Init
    BY DEF Init, Abstract!Init, Announced, Threads
  <1>2. RingInv /\ [Next]_vars => [Abstract!Next]_(Abstract!vars)
    <2> SUFFICES ASSUME RingInv, [Next]_vars
                 PROVE  Abstract!Next \/ UNCHANGED Abstract!vars
        OBVIOUS
    <2>1. CASE UNCHANGED vars BY <2>1 DEF vars, Abstract!vars
    <2>2. ASSUME NEW p \in Committers, AllocCommitTs(p) \/ CommitStep(p)
          PROVE  Abstract!Next \/ UNCHANGED Abstract!vars
      BY <2>2, CommitterRefines DEF Abstract!Next
    <2>3. ASSUME NEW r \in Readers, TakeSnapshotTs(r) \/ Barrier(r)
          PROVE  Abstract!Next \/ UNCHANGED Abstract!vars
      BY <2>3, ReaderRefines DEF Abstract!Next
    <2>4. CASE DrainFlag
      BY <2>4 DEF DrainFlag, locals, Abstract!vars
    <2> QED BY <2>1, <2>2, <2>3, <2>4 DEF Next
  <1> QED BY <1>1, <1>2, RingInvariance, PTL DEF Spec, ImplementsBarrier, Abstract!Spec
=============================================================================
