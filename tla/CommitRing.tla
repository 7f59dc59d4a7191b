----------------------------- MODULE CommitRing -----------------------------
(***************************************************************************)
(* The commit-ordered in-flight ledger of WriteConflictRegistry            *)
(* (storage/conflict.rs): begin_commit, end_commit, try_reclaim and        *)
(* snapshot_barrier, one action per atomic load, store or read-modify-     *)
(* write.  Announcements are numbered; announcement s lives in slot        *)
(* s % RingSize from the moment it is stored until the reclaimer zeroes    *)
(* it.  `tail` is the first number not yet reclaimed, `head` the next one. *)
(*                                                                         *)
(* Committers run next_commit_timestamp (begin_commit inside the engine's  *)
(* timestamp lock), apply their batch and run end_commit.  Readers         *)
(* allocate or re-read a timestamp and run snapshot_barrier.  The bounded  *)
(* yield-spin before parking repeats the fast path's scan and is folded    *)
(* into it.                                                                *)
(*                                                                         *)
(* Steps are sequentially consistent but for one: try_reclaim releases its *)
(* flag with a plain store and then loads tail, head and a slot, and       *)
(* nothing orders those loads after the store.  The store therefore waits  *)
(* in flagStore until it drains, and others meanwhile see the flag taken.  *)
(***************************************************************************)
EXTENDS Integers, FiniteSets

CONSTANTS
    Committers,  \* threads that commit
    Readers,     \* threads that take snapshots
    RingSize,    \* INFLIGHT_RING_SIZE
    MaxTs,       \* bound on the engine timestamp
    None         \* no thread

ASSUME CommitRingAssumption ==
    /\ RingSize \in Nat \ {0}
    /\ MaxTs \in Nat
    /\ Committers \cap Readers = {}
    /\ None \notin Committers \cup Readers

Threads == Committers \cup Readers

VARIABLES
    timestamp,         \* engine timestamp counter
    tsLock,            \* holder of the engine timestamp lock
    ring, head, tail,  \* the ledger
    reclaimFlag,       \* single-reclaimer gate, as the other threads see it
    flagStore,         \* thread whose release of the flag is not visible yet
    missed,            \* history: the flag was refused after its release, and
                       \* has not been taken since
    pendingCount,      \* begun and not yet ended commits
    appliedWatermark,  \* every announced commit at or below it has applied
    barrierWaiters,    \* readers registered for parking
    barrierLock,       \* holder of the condition variable's mutex
    parked,            \* readers asleep on barrier_cv
    pc,
    ts,                \* commit or snapshot timestamp of a thread
    seq,               \* committer: number of its announcement
    back,              \* where try_reclaim returns to
    lt, lh, ls         \* loaded tail, loaded head, scan position

gate    == <<reclaimFlag, flagStore, missed>>
ledger  == <<ring, head, tail, gate, pendingCount, appliedWatermark>>
barrier == <<barrierWaiters, barrierLock, parked>>
locals  == <<seq, back, lt, lh, ls>>
vars    == <<timestamp, tsLock, ledger, barrier, pc, ts, locals>>

\* Slot encoding of the code: empty, pending(ts) or applied(ts).
Empty      == [st |-> "empty", ts |-> 0]
Pending(t) == [st |-> "pending", ts |-> t]
Applied(t) == [st |-> "applied", ts |-> t]
SlotValues == [st : {"empty", "pending", "applied"}, ts : Nat]

slot(s) == s % RingSize

-----------------------------------------------------------------------------
Init ==
    /\ timestamp = 0
    /\ tsLock = None
    /\ ring = [i \in 0 .. RingSize - 1 |-> Empty]
    /\ head = 0
    /\ tail = 0
    /\ reclaimFlag = FALSE
    /\ flagStore = None
    /\ missed = FALSE
    /\ pendingCount = 0
    /\ appliedWatermark = 0
    /\ barrierWaiters = 0
    /\ barrierLock = None
    /\ parked = {}
    /\ pc = [p \in Threads |-> "idle"]
    /\ ts = [p \in Threads |-> 0]
    /\ seq = [p \in Threads |-> 0]
    /\ back = [p \in Threads |-> "idle"]
    /\ lt = [p \in Threads |-> 0]
    /\ lh = [p \in Threads |-> 0]
    /\ ls = [p \in Threads |-> 0]

Goto(p, l) == pc' = [pc EXCEPT ![p] = l]

\* The scan of p is over; the values it loaded are dead.
EndScan(p) ==
    /\ lt' = [lt EXCEPT ![p] = 0]
    /\ lh' = [lh EXCEPT ![p] = 0]
    /\ ls' = [ls EXCEPT ![p] = 0]

\* p returns from its call.
Return(p) ==
    /\ Goto(p, "idle")
    /\ ts' = [ts EXCEPT ![p] = 0]
    /\ seq' = [seq EXCEPT ![p] = 0]
    /\ back' = [back EXCEPT ![p] = "idle"]
    /\ EndScan(p)

-----------------------------------------------------------------------------
\* next_commit_timestamp / begin_commit

\* Take the timestamp lock and allocate.
AllocCommitTs(p) ==
    /\ pc[p] = "idle"
    /\ tsLock = None
    /\ timestamp < MaxTs
    /\ tsLock' = p
    /\ timestamp' = timestamp + 1
    /\ ts' = [ts EXCEPT ![p] = timestamp + 1]
    /\ Goto(p, "space")
    /\ UNCHANGED <<ledger, barrier, locals>>

\* head - tail >= RingSize: wait_for_ring_space helps to reclaim and retries,
\* holding the timestamp lock.
RingFull(p) ==
    /\ pc[p] = "space"
    /\ head - tail >= RingSize
    /\ back' = [back EXCEPT ![p] = "space"]
    /\ Goto(p, "rc_lock")
    /\ UNCHANGED <<timestamp, tsLock, ledger, barrier, ts, seq, lt, lh, ls>>

\* Mutant of RingSpace: the capacity check is off by one.
RingSpaceOffByOne(p) ==
    /\ pc[p] = "space"
    /\ head - tail <= RingSize
    /\ seq' = [seq EXCEPT ![p] = head]
    /\ Goto(p, "store")
    /\ UNCHANGED <<timestamp, tsLock, ledger, barrier, ts, back, lt, lh, ls>>

RingSpace(p) ==
    /\ pc[p] = "space"
    /\ head - tail < RingSize
    /\ seq' = [seq EXCEPT ![p] = head]
    /\ Goto(p, "store")
    /\ UNCHANGED <<timestamp, tsLock, ledger, barrier, ts, back, lt, lh, ls>>

StoreSlot(p) ==
    /\ pc[p] = "store"
    /\ ring' = [ring EXCEPT ![slot(seq[p])] = Pending(ts[p])]
    /\ Goto(p, "count")
    /\ UNCHANGED <<timestamp, tsLock, head, tail, gate, pendingCount,
                   appliedWatermark, barrier, ts, locals>>

CountPending(p) ==
    /\ pc[p] = "count"
    /\ pendingCount' = pendingCount + 1
    /\ Goto(p, "head")
    /\ UNCHANGED <<timestamp, tsLock, ring, head, tail, gate,
                   appliedWatermark, barrier, ts, locals>>

\* Bump head, then leave the timestamp lock.
BumpHead(p) ==
    /\ pc[p] = "head"
    /\ head' = seq[p] + 1
    /\ tsLock' = None
    /\ Goto(p, "apply")
    /\ UNCHANGED <<timestamp, ring, tail, gate, pendingCount,
                   appliedWatermark, barrier, ts, locals>>

-----------------------------------------------------------------------------
\* end_commit, called once the batch is written or the commit has failed

\* The CAS pending -> applied on the hinted slot; only its winner goes on.
MarkApplied(p) ==
    /\ pc[p] = "apply"
    /\ IF ring[slot(seq[p])] = Pending(ts[p])
         THEN /\ ring' = [ring EXCEPT ![slot(seq[p])] = Applied(ts[p])]
              /\ Goto(p, "uncount")
              /\ UNCHANGED <<ts, locals>>
         ELSE UNCHANGED ring /\ Return(p)
    /\ UNCHANGED <<timestamp, tsLock, head, tail, gate, pendingCount,
                   appliedWatermark, barrier>>

\* Mutant of UncountPending: a commit that ends is counted down twice.
UncountPendingTwice(p) ==
    /\ pc[p] = "uncount"
    /\ pendingCount' = pendingCount - 2
    /\ back' = [back EXCEPT ![p] = "notify"]
    /\ Goto(p, "rc_lock")
    /\ UNCHANGED <<timestamp, tsLock, ring, head, tail, gate,
                   appliedWatermark, barrier, ts, seq, lt, lh, ls>>

UncountPending(p) ==
    /\ pc[p] = "uncount"
    /\ pendingCount' = pendingCount - 1
    /\ back' = [back EXCEPT ![p] = "notify"]
    /\ Goto(p, "rc_lock")
    /\ UNCHANGED <<timestamp, tsLock, ring, head, tail, gate,
                   appliedWatermark, barrier, ts, seq, lt, lh, ls>>

\* The SeqCst handoff: the fence lets p's stores out, and the mutex is touched
\* only if somebody registered.
SeeWaiters(p) ==
    /\ pc[p] = "notify"
    /\ flagStore # p
    /\ IF barrierWaiters > 0 THEN Goto(p, "wake") /\ UNCHANGED <<ts, locals>>
                             ELSE Return(p)
    /\ UNCHANGED <<timestamp, tsLock, ledger, barrier>>

\* Lock, notify_all, unlock.
NotifyWaiters(p) ==
    /\ pc[p] = "wake"
    /\ barrierLock = None
    /\ parked' = {}
    /\ Return(p)
    /\ UNCHANGED <<timestamp, tsLock, ledger, barrierWaiters, barrierLock>>

-----------------------------------------------------------------------------
\* try_reclaim

\* The compare and swap on the flag; a thread sees its own release.
TryFlag(p) ==
    /\ pc[p] = "rc_lock"
    /\ IF ~reclaimFlag \/ flagStore = p
         THEN /\ reclaimFlag' = TRUE
              /\ flagStore' = None
              /\ missed' = FALSE
              /\ Goto(p, "rc_sweep")
         ELSE /\ missed' = (missed \/ flagStore # None)
              /\ Goto(p, back[p])
              /\ UNCHANGED <<reclaimFlag, flagStore>>
    /\ UNCHANGED <<timestamp, tsLock, ring, head, tail, pendingCount,
                   appliedWatermark, barrier, ts, locals>>

\* Mutant of Sweep: a pending slot at the tail is reclaimed too.
SweepPending(p) ==
    /\ pc[p] = "rc_sweep"
    /\ Goto(p, IF tail # head /\ ring[slot(tail)] # Empty
                 THEN "rc_mark" ELSE "rc_unlock")
    /\ UNCHANGED <<timestamp, tsLock, ledger, barrier, ts, locals>>

\* Is the slot at the tail an applied commit?
Sweep(p) ==
    /\ pc[p] = "rc_sweep"
    /\ Goto(p, IF tail # head /\ ring[slot(tail)].st = "applied"
                 THEN "rc_mark" ELSE "rc_unlock")
    /\ UNCHANGED <<timestamp, tsLock, ledger, barrier, ts, locals>>

RaiseWatermark(p) ==
    /\ pc[p] = "rc_mark"
    /\ appliedWatermark' = IF ring[slot(tail)].ts > appliedWatermark
                             THEN ring[slot(tail)].ts ELSE appliedWatermark
    /\ Goto(p, "rc_zero")
    /\ UNCHANGED <<timestamp, tsLock, ring, head, tail, gate,
                   pendingCount, barrier, ts, locals>>

ZeroSlot(p) ==
    /\ pc[p] = "rc_zero"
    /\ ring' = [ring EXCEPT ![slot(tail)] = Empty]
    /\ Goto(p, "rc_tail")
    /\ UNCHANGED <<timestamp, tsLock, head, tail, gate, pendingCount,
                   appliedWatermark, barrier, ts, locals>>

AdvanceTail(p) ==
    /\ pc[p] = "rc_tail"
    /\ tail' = tail + 1
    /\ Goto(p, "rc_sweep")
    /\ UNCHANGED <<timestamp, tsLock, ring, head, gate, pendingCount,
                   appliedWatermark, barrier, ts, locals>>

\* Mutant of ReleaseFlag: no re-check after the release.
ReleaseFlagNoRecheck(p) ==
    /\ pc[p] = "rc_unlock"
    /\ flagStore' = p
    /\ Goto(p, back[p])
    /\ UNCHANGED <<timestamp, tsLock, ring, head, tail, reclaimFlag, missed,
                   pendingCount, appliedWatermark, barrier, ts, locals>>

\* Mutant of ReleaseFlag: the flag is not released.
ReleaseFlagLeaked(p) ==
    /\ pc[p] = "rc_unlock"
    /\ Goto(p, "rc_check")
    /\ UNCHANGED <<timestamp, tsLock, ledger, barrier, ts, locals>>

\* store(false, Release): p goes on before the store is visible.
ReleaseFlag(p) ==
    /\ pc[p] = "rc_unlock"
    /\ flagStore' = p
    /\ Goto(p, "rc_check")
    /\ UNCHANGED <<timestamp, tsLock, ring, head, tail, reclaimFlag, missed,
                   pendingCount, appliedWatermark, barrier, ts, locals>>

\* The release of the flag becomes visible.
DrainFlag ==
    /\ flagStore # None
    /\ reclaimFlag' = FALSE
    /\ flagStore' = None
    /\ UNCHANGED <<timestamp, tsLock, ring, head, tail, missed, pendingCount,
                   appliedWatermark, barrier, pc, ts, locals>>

\* Post-release re-check: load the tail, then the slot it points at.
RecheckTail(p) ==
    /\ pc[p] = "rc_check"
    /\ IF tail = head
         THEN Goto(p, back[p]) /\ UNCHANGED lt
         ELSE Goto(p, "rc_peek") /\ lt' = [lt EXCEPT ![p] = tail]
    /\ UNCHANGED <<timestamp, tsLock, ledger, barrier, ts, seq, back, lh, ls>>

RecheckSlot(p) ==
    /\ pc[p] = "rc_peek"
    /\ Goto(p, IF ring[slot(lt[p])].st = "applied" THEN "rc_lock" ELSE back[p])
    /\ EndScan(p)
    /\ UNCHANGED <<timestamp, tsLock, ledger, barrier, ts, seq, back>>

-----------------------------------------------------------------------------
\* snapshot_barrier

\* next_timestamp, or current_timestamp for a per-statement refresh; both need
\* the timestamp lock.
TakeSnapshotTs(p) ==
    /\ pc[p] = "idle"
    /\ tsLock = None
    /\ timestamp' \in {timestamp, timestamp + 1}
    /\ timestamp' \in 1 .. MaxTs
    /\ ts' = [ts EXCEPT ![p] = timestamp']
    /\ Goto(p, "b_count")
    /\ UNCHANGED <<tsLock, ledger, barrier, locals>>

\* First fast path: nothing is pending.
FastCount(p) ==
    /\ pc[p] = "b_count"
    /\ IF pendingCount = 0
         THEN Return(p)
         ELSE Goto(p, "b_mark") /\ UNCHANGED <<ts, locals>>
    /\ UNCHANGED <<timestamp, tsLock, ledger, barrier>>

\* Second fast path: the watermark covers the snapshot.
FastWatermark(p) ==
    /\ pc[p] = "b_mark"
    /\ IF appliedWatermark >= ts[p]
         THEN Return(p)
         ELSE Goto(p, "b_tail") /\ UNCHANGED <<ts, locals>>
    /\ UNCHANGED <<timestamp, tsLock, ledger, barrier>>

\* has_pending_at_or_below: load tail, load head, then slot by slot.
ScanTail(p) ==
    /\ pc[p] = "b_tail"
    /\ lt' = [lt EXCEPT ![p] = tail]
    /\ Goto(p, "b_head")
    /\ UNCHANGED <<timestamp, tsLock, ledger, barrier, ts, seq, back, lh, ls>>

ScanHead(p) ==
    /\ pc[p] = "b_head"
    /\ lh' = [lh EXCEPT ![p] = head]
    /\ ls' = [ls EXCEPT ![p] = lt[p]]
    /\ Goto(p, "b_slot")
    /\ UNCHANGED <<timestamp, tsLock, ledger, barrier, ts, seq, back, lt>>

\* Nothing pending: the fast path passes, a registered waiter leaves.
ScanFalse(p) ==
    IF barrierLock = p
      THEN Goto(p, "b_leave") /\ EndScan(p) /\ UNCHANGED <<ts, seq, back>>
      ELSE Return(p)

\* A pending commit at or below the snapshot: register, or sleep.
ScanTrue(p) ==
    /\ Goto(p, IF barrierLock = p THEN "b_sleep" ELSE "b_park")
    /\ EndScan(p)
    /\ UNCHANGED <<ts, seq, back>>

ScanSlot(p) ==
    LET v == ring[slot(ls[p])] IN
    /\ pc[p] = "b_slot"
    /\ \/ ls[p] = lh[p] /\ ScanFalse(p)
       \/ /\ ls[p] # lh[p] /\ v.st # "pending"
          /\ ls' = [ls EXCEPT ![p] = @ + 1]
          /\ UNCHANGED <<pc, ts, seq, back, lt, lh>>
       \/ ls[p] # lh[p] /\ v.st = "pending" /\ v.ts <= ts[p] /\ ScanTrue(p)
       \/ /\ ls[p] # lh[p] /\ v.st = "pending" /\ v.ts > ts[p]
          /\ Goto(p, "b_valid")
          /\ UNCHANGED <<ts, locals>>
    /\ UNCHANGED <<timestamp, tsLock, ledger, barrier>>

\* Mutant of ScanValidate: an early end of the scan is always believed.
ScanValidateBlind(p) ==
    /\ pc[p] = "b_valid"
    /\ ScanFalse(p)
    /\ UNCHANGED <<timestamp, tsLock, ledger, barrier>>

\* A later commit ended the scan early: sound only if the tail has not moved.
ScanValidate(p) ==
    /\ pc[p] = "b_valid"
    /\ IF tail = lt[p]
         THEN ScanFalse(p)
         ELSE Goto(p, "b_tail") /\ EndScan(p) /\ UNCHANGED <<ts, seq, back>>
    /\ UNCHANGED <<timestamp, tsLock, ledger, barrier>>

\* Mutant of Park: the waiter sleeps without looking again.
ParkNoRecheck(p) ==
    /\ pc[p] = "b_park"
    /\ barrierLock = None
    /\ barrierLock' = p
    /\ barrierWaiters' = barrierWaiters + 1
    /\ Goto(p, "b_sleep")
    /\ UNCHANGED <<timestamp, tsLock, ledger, parked, ts, locals>>

\* snapshot_barrier_slow: take the mutex, register, look again.
Park(p) ==
    /\ pc[p] = "b_park"
    /\ barrierLock = None
    /\ barrierLock' = p
    /\ barrierWaiters' = barrierWaiters + 1
    /\ Goto(p, "b_tail")
    /\ UNCHANGED <<timestamp, tsLock, ledger, parked, ts, locals>>

\* barrier_cv.wait: release the mutex and sleep, in one step.
Sleep(p) ==
    /\ pc[p] = "b_sleep"
    /\ barrierLock' = None
    /\ parked' = parked \cup {p}
    /\ Goto(p, "b_wake")
    /\ UNCHANGED <<timestamp, tsLock, ledger, barrierWaiters, ts, locals>>

Wake(p) ==
    /\ pc[p] = "b_wake"
    /\ p \notin parked
    /\ barrierLock = None
    /\ barrierLock' = p
    /\ Goto(p, "b_tail")
    /\ UNCHANGED <<timestamp, tsLock, ledger, barrierWaiters, parked, ts,
                   locals>>

Leave(p) ==
    /\ pc[p] = "b_leave"
    /\ barrierWaiters' = barrierWaiters - 1
    /\ barrierLock' = None
    /\ Return(p)
    /\ UNCHANGED <<timestamp, tsLock, ledger, parked>>

-----------------------------------------------------------------------------
BeginCommit(p) ==
    RingFull(p) \/ RingSpace(p) \/ StoreSlot(p) \/ CountPending(p) \/ BumpHead(p)

EndCommit(p) ==
    MarkApplied(p) \/ UncountPending(p) \/ SeeWaiters(p) \/ NotifyWaiters(p)

TryReclaim(p) ==
    \/ TryFlag(p) \/ Sweep(p) \/ RaiseWatermark(p) \/ ZeroSlot(p)
    \/ AdvanceTail(p) \/ ReleaseFlag(p) \/ RecheckTail(p) \/ RecheckSlot(p)

Barrier(p) ==
    \/ FastCount(p) \/ FastWatermark(p)
    \/ ScanTail(p) \/ ScanHead(p) \/ ScanSlot(p) \/ ScanValidate(p)
    \/ Park(p) \/ Sleep(p) \/ Wake(p) \/ Leave(p)

CommitStep(p) == BeginCommit(p) \/ EndCommit(p) \/ TryReclaim(p)

Next ==
    \/ \E p \in Committers : AllocCommitTs(p) \/ CommitStep(p)
    \/ \E p \in Readers : TakeSnapshotTs(p) \/ Barrier(p)
    \/ DrainFlag

\* A thread inside a call is scheduled, a commit's batch write ends and a store
\* becomes visible in the end; nobody is obliged to start a commit or a
\* snapshot.
Fairness ==
    /\ WF_vars(DrainFlag)
    /\ \A p \in Committers : WF_vars(CommitStep(p))
    /\ \A p \in Readers : WF_vars(Barrier(p))

Spec == Init /\ [][Next]_vars /\ Fairness
-----------------------------------------------------------------------------
Announced == {"apply"}                        \* visible and not yet applied
Beginning == {"space", "store", "count", "head"}
Reclaiming == {"uncount", "rc_lock", "rc_sweep", "rc_mark", "rc_zero",
               "rc_tail", "rc_unlock", "rc_check", "rc_peek"}
CommitterPC == {"idle", "notify", "wake"} \cup Announced \cup Beginning \cup Reclaiming
ReaderPC == {"idle", "b_count", "b_mark", "b_tail", "b_head", "b_slot",
             "b_valid", "b_park", "b_sleep", "b_wake", "b_leave"}

TypeOK ==
    /\ timestamp \in Nat
    /\ tsLock \in Committers \cup {None}
    /\ ring \in [0 .. RingSize - 1 -> SlotValues]
    /\ head \in Nat
    /\ tail \in Nat
    /\ reclaimFlag \in BOOLEAN
    /\ flagStore \in Committers \cup {None}
    /\ missed \in BOOLEAN
    /\ pendingCount \in Nat
    /\ appliedWatermark \in Nat
    /\ barrierWaiters \in Nat
    /\ barrierLock \in Readers \cup {None}
    /\ parked \subseteq Readers
    /\ pc \in [Threads -> CommitterPC \cup ReaderPC]
    /\ \A x \in {ts, seq, lt, lh, ls} : x \in [Threads -> Nat]

\* A slot is never reused while its commit is pending, whatever wraps around:
\* the CAS of end_commit finds exactly the entry begin_commit stored.
OwnSlot ==
    \A c \in Committers :
      pc[c] \in Announced => ring[slot(seq[c])] = Pending(ts[c])

\* applied_watermark: "highest commit_ts such that every in-flight commit <= it
\* has applied".
WatermarkSound ==
    \A c \in Committers :
      pc[c] \in Announced \cup Beginning => ts[c] > appliedWatermark

\* try_reclaim: entries "never linger applied-at-tail with no reclaimer
\* scheduled", although a loser of the flag returns at once.  The one exception
\* is the race that its comment concedes: the flag was refused to somebody while
\* its release was still on the way, and it ends with the next thread that takes
\* the flag.
NothingLingers ==
    (\A c \in Committers : pc[c] \notin Reclaiming) =>
      tail = head \/ ring[slot(tail)].st = "pending" \/ missed

\* The ring implements the abstract barrier: no snapshot passes while a commit
\* at or below it is announced and unapplied.
Abstract == INSTANCE SnapshotBarrier WITH
    clock <- IF tsLock = None THEN timestamp ELSE timestamp - 1,
    inflight <- [c \in Committers |-> IF pc[c] \in Announced THEN ts[c] ELSE 0],
    waiting <- [r \in Readers |-> ts[r]]

ImplementsBarrier == Abstract!Spec

\* No wakeup is lost between snapshot_barrier_slow and end_commit: every
\* snapshot gets through the barrier.
BarrierEnds == \A r \in Readers : pc[r] = "b_count" ~> pc[r] = "idle"

\* wait_for_ring_space "cannot deadlock": the thread that spins with the
\* timestamp lock held gets its slot.
AnnouncementEnds == \A c \in Committers : pc[c] = "space" ~> pc[c] = "apply"
=============================================================================
