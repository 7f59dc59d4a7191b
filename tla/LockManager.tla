----------------------------- MODULE LockManager -----------------------------
(***************************************************************************)
(* The row-lock manager (storage/lock_manager.rs) under the transactions   *)
(* that use it (storage/transaction.rs).                                   *)
(*                                                                         *)
(* A transaction asks for one row at a time, spins while the row is held   *)
(* by others and keeps its guards until COMMIT or ROLLBACK drops them.  A  *)
(* conflict leaves an edge in the wait-for graph; a cycle or a timeout     *)
(* sweeps the transaction out of every lock entry and fails the statement. *)
(* The session may then only roll back, entirely or to a savepoint.        *)
(*                                                                         *)
(* One step is one hold of an entry's shard lock.  The removal of an empty *)
(* entry is a step of its own, because the code gives up the shard lock    *)
(* before it calls remove.  The depth-first search is one step: it keeps   *)
(* the graph entries on its path locked, so the cycle it reports is there. *)
(***************************************************************************)
EXTENDS Integers, Sequences, FiniteSets, Functions

CONSTANTS
    Txns, Keys,
    Requests,     \* the rows and modes each transaction may ask for
    MaxGuards,    \* bound on the guards a transaction collects
    Savepoints,   \* transactions that can ROLLBACK TO SAVEPOINT
    None          \* no request, no entry to remove

Modes == {"Read", "Write"}
Guard == [key : Keys, mode : Modes]

ASSUME LockAssumption ==
    /\ Requests \in [Txns -> SUBSET Guard]
    /\ MaxGuards \in Nat \ {0}
    /\ Savepoints \subseteq Txns
    /\ None \notin Keys \cup Guard
ASSUME TxnsAssumption == IsFiniteSet(Txns)

(* LockState: the acquisitions each transaction has (a holder has at least *)
(* one), the strongest mode granted, and the transactions queued.          *)
LockState == [count   : [Txns -> 0 .. MaxGuards],
              mode    : Modes \cup {"Free"},
              waiters : SUBSET Txns]
NewState == [count |-> [t \in Txns |-> 0], mode |-> "Free", waiters |-> {}]

VARIABLES
    locks,      \* the lock table: present entries only
    waitGraph,  \* transaction -> those it waits for, {} if it has no entry
    guards,     \* acquired_locks of each transaction, oldest first
    pc,         \* where each transaction is
    want,       \* the request acquire_lock is working on, or None
    sweep,      \* keys cleanup_transaction has yet to visit
    reap,       \* entry it found empty and is about to remove
    raced,      \* history: keys whose entry was removed while in use
    swept       \* history: transactions cleanup_transaction was run for

vars == <<locks, waitGraph, guards, pc, want, sweep, reap, raced, swept>>

Waiting == {"try", "detect", "victim"}

TypeOK ==
    /\ DOMAIN locks \subseteq Keys
    /\ locks \in [DOMAIN locks -> LockState]
    /\ waitGraph \in [Txns -> SUBSET Txns]
    /\ \A t \in Txns : /\ Len(guards[t]) <= MaxGuards
                       /\ \A i \in DOMAIN guards[t] : guards[t][i] \in Guard
    /\ pc \in [Txns -> Waiting \cup {"open", "sweep", "failed", "drop", "done"}]
    /\ want \in [Txns -> Guard \cup {None}]
    /\ sweep \in [Txns -> SUBSET Keys]
    /\ reap \in [Txns -> Keys \cup {None}]
    /\ raced \subseteq Keys
    /\ swept \subseteq Txns

Init ==
    /\ locks = [k \in {} |-> NewState]
    /\ waitGraph = [t \in Txns |-> {}]
    /\ guards = [t \in Txns |-> <<>>]
    /\ pc = [t \in Txns |-> "open"]
    /\ want = [t \in Txns |-> None]
    /\ sweep = [t \in Txns |-> {}]
    /\ reap = [t \in Txns |-> None]
    /\ raced = {}
    /\ swept = {}

(***************************************************************************)
(* LockState                                                               *)
(***************************************************************************)
Entry(k) == IF k \in DOMAIN locks THEN locks[k] ELSE NewState
Holders(s) == {t \in Txns : s.count[t] > 0}
Unused(s) == Holders(s) = {} /\ s.waiters = {}

(* Mutant of CanAcquire: a holder among several may upgrade. *)
CanAcquireAsAnyHolder(s, t, m) ==
    \/ Holders(s) = {}
    \/ t \in Holders(s)
    \/ m = "Read" /\ s.mode = "Read"

CanAcquire(s, t, m) ==
    \/ Holders(s) = {}
    \/ Holders(s) = {t}
    \/ m = "Read" /\ s.mode = "Read"

AddHolder(s, t, m) ==
    [s EXCEPT !.count[t] = @ + 1,
              !.mode = IF @ = "Write" THEN "Write" ELSE m]

RemoveHolder(s, t) ==
    [s EXCEPT !.count[t] = 0,
              !.mode = IF Holders(s) \subseteq {t} THEN "Free" ELSE @]

(* Mutant of ReleaseOnce: re-entrant acquisitions are not counted. *)
ReleaseOnceEntirely(s, t) == RemoveHolder(s, t)

(* Mutant of ReleaseOnce: a stale guard is counted down too. *)
ReleaseOnceUnchecked(s, t) ==
    IF s.count[t] = 1 THEN RemoveHolder(s, t)
    ELSE [s EXCEPT !.count[t] = @ - 1]

ReleaseOnce(s, t) ==
    IF s.count[t] > 1 THEN [s EXCEPT !.count[t] = @ - 1]
    ELSE RemoveHolder(s, t)

AddWaiter(s, t) == [s EXCEPT !.waiters = @ \cup {t}]
RemoveWaiter(s, t) == [s EXCEPT !.waiters = @ \ {t}]

Store(k, s) ==
    [j \in DOMAIN locks \cup {k} |-> IF j = k THEN s ELSE locks[j]]

(***************************************************************************)
(* The wait-for graph                                                      *)
(***************************************************************************)
(* The nodes at the end of a walk of n edges from t.  A cycle is reachable *)
(* from t exactly when there are walks as long as there are transactions.  *)
HasCycle(edges, t) ==
    LET walk[n \in 0 .. Cardinality(Txns)] ==
            IF n = 0 THEN {t} ELSE UNION {edges[u] : u \in walk[n - 1]}
    IN  walk[Cardinality(Txns)] # {}

DetectDeadlock(t) == HasCycle(waitGraph, t)

(***************************************************************************)
(* acquire_lock, from Transaction::put (Write) and Transaction::get (Read) *)
(***************************************************************************)
Request(t, g) ==
    /\ pc[t] = "open"
    /\ Len(guards[t]) < MaxGuards
    /\ pc' = [pc EXCEPT ![t] = "try"]
    /\ want' = [want EXCEPT ![t] = g]
    /\ UNCHANGED <<locks, waitGraph, guards, sweep, reap, raced, swept>>

(* try_acquire_lock grants, and the transaction keeps the guard. *)
Grant(t) ==
    LET k == want[t].key
    IN  /\ pc[t] = "try"
        /\ CanAcquire(Entry(k), t, want[t].mode)
        /\ locks' = Store(k,
               RemoveWaiter(AddHolder(Entry(k), t, want[t].mode), t))
        /\ waitGraph' = [waitGraph EXCEPT ![t] = {}]
        /\ guards' = [guards EXCEPT ![t] = Append(@, want[t])]
        /\ pc' = [pc EXCEPT ![t] = "open"]
        /\ want' = [want EXCEPT ![t] = None]
        /\ UNCHANGED <<sweep, reap, raced, swept>>

(* Mutant of Conflict: a transaction waits for itself. *)
ConflictSelfEdge(t) ==
    LET k == want[t].key
    IN  /\ pc[t] = "try"
        /\ ~ CanAcquire(Entry(k), t, want[t].mode)
        /\ locks' = Store(k, AddWaiter(Entry(k), t))
        /\ waitGraph' = [waitGraph EXCEPT ![t] = Holders(Entry(k))]
        /\ pc' = [pc EXCEPT ![t] = "detect"]
        /\ UNCHANGED <<guards, want, sweep, reap, raced, swept>>

(* Mutant of Conflict: a retry does not refresh the edges. *)
ConflictFirstEdgesStay(t) ==
    LET k == want[t].key
    IN  /\ pc[t] = "try"
        /\ ~ CanAcquire(Entry(k), t, want[t].mode)
        /\ locks' = Store(k, AddWaiter(Entry(k), t))
        /\ waitGraph' = [waitGraph EXCEPT ![t] =
               IF @ # {} THEN @ ELSE Holders(Entry(k)) \ {t}]
        /\ pc' = [pc EXCEPT ![t] = "detect"]
        /\ UNCHANGED <<guards, want, sweep, reap, raced, swept>>

(* try_acquire_lock refuses: queue, and point at the other holders. *)
Conflict(t) ==
    LET k == want[t].key
    IN  /\ pc[t] = "try"
        /\ ~ CanAcquire(Entry(k), t, want[t].mode)
        /\ locks' = Store(k, AddWaiter(Entry(k), t))
        /\ waitGraph' = [waitGraph EXCEPT ![t] = Holders(Entry(k)) \ {t}]
        /\ pc' = [pc EXCEPT ![t] = "detect"]
        /\ UNCHANGED <<guards, want, sweep, reap, raced, swept>>

(* A deadlock, or no deadlock and the timeout, ends the wait. *)
GiveUp(t) ==
    /\ pc' = [pc EXCEPT ![t] = "victim"]
    /\ UNCHANGED <<locks, waitGraph, guards, want, sweep, reap, raced,
                   swept>>

Deadlock(t) == pc[t] = "detect" /\ DetectDeadlock(t) /\ GiveUp(t)
Timeout(t)  == pc[t] = "detect" /\ ~ DetectDeadlock(t) /\ GiveUp(t)

SleepAndRetry(t) ==
    /\ pc[t] = "detect"
    /\ ~ DetectDeadlock(t)
    /\ pc' = [pc EXCEPT ![t] = "try"]
    /\ UNCHANGED <<locks, waitGraph, guards, want, sweep, reap, raced,
                   swept>>

(***************************************************************************)
(* cleanup_transaction                                                     *)
(***************************************************************************)
CleanupStart(t) ==
    /\ pc[t] = "victim"
    /\ waitGraph' = [waitGraph EXCEPT ![t] = {}]
    /\ sweep' = [sweep EXCEPT ![t] = DOMAIN locks]
    /\ pc' = [pc EXCEPT ![t] = "sweep"]
    /\ want' = [want EXCEPT ![t] = None]
    /\ swept' = swept \cup {t}
    /\ UNCHANGED <<locks, guards, reap, raced>>

(* Mutant of CleanupKey: the queue is not cleaned. *)
CleanupKeyHoldersOnly(t, k) ==
    LET s == RemoveHolder(locks[k], t)
    IN  /\ pc[t] = "sweep" /\ reap[t] = None /\ k \in sweep[t]
        /\ sweep' = [sweep EXCEPT ![t] = @ \ {k}]
        /\ IF k \in DOMAIN locks
           THEN /\ locks' = Store(k, s)
                /\ reap' = [reap EXCEPT ![t] = IF Unused(s) THEN k ELSE None]
           ELSE UNCHANGED <<locks, reap>>
        /\ UNCHANGED <<waitGraph, guards, pc, want, raced, swept>>

(* One key: get_mut, remove_holder, remove_waiter, and is it empty now? *)
CleanupKey(t, k) ==
    LET s == RemoveWaiter(RemoveHolder(locks[k], t), t)
    IN  /\ pc[t] = "sweep" /\ reap[t] = None /\ k \in sweep[t]
        /\ sweep' = [sweep EXCEPT ![t] = @ \ {k}]
        /\ IF k \in DOMAIN locks
           THEN /\ locks' = Store(k, s)
                /\ reap' = [reap EXCEPT ![t] = IF Unused(s) THEN k ELSE None]
           ELSE UNCHANGED <<locks, reap>>
        /\ UNCHANGED <<waitGraph, guards, pc, want, raced, swept>>

(* The statement returns its error: the transaction is marked aborted. *)
CleanupEnd(t) ==
    /\ pc[t] = "sweep" /\ reap[t] = None /\ sweep[t] = {}
    /\ pc' = [pc EXCEPT ![t] = "failed"]
    /\ UNCHANGED <<locks, waitGraph, guards, want, sweep, reap, raced,
                   swept>>

(* drop(lock_state); locks.remove(key): whoever took the row in between    *)
(* loses its entry.                                                        *)
RemoveEntry(t) ==
    /\ reap[t] # None
    /\ locks' = Restrict(locks, DOMAIN locks \ {reap[t]})
    /\ raced' = IF Unused(Entry(reap[t])) THEN raced ELSE raced \cup {reap[t]}
    /\ reap' = [reap EXCEPT ![t] = None]
    /\ UNCHANGED <<waitGraph, guards, pc, want, sweep, swept>>

(***************************************************************************)
(* The transaction goes on, or ends and drops its guards                   *)
(***************************************************************************)
(* ROLLBACK TO SAVEPOINT after a failed statement, or the implicit         *)
(* per-statement rollback of a listener that keeps the transaction open:   *)
(* the write set goes back, acquired_locks is left as it is.               *)
RollbackToSavepoint(t) ==
    /\ t \in Savepoints
    /\ pc[t] = "failed"
    /\ pc' = [pc EXCEPT ![t] = "open"]
    /\ UNCHANGED <<locks, waitGraph, guards, want, sweep, reap, raced, swept>>

Finish(t) ==
    /\ pc[t] \in {"open", "failed"}
    /\ pc' = [pc EXCEPT ![t] = "drop"]
    /\ UNCHANGED <<locks, waitGraph, guards, want, sweep, reap, raced,
                   swept>>

(* release_lock_internal, from LockGuard::drop *)
DropGuard(t) ==
    LET k == Head(guards[t]).key
        s == ReleaseOnce(locks[k], t)
    IN  /\ pc[t] = "drop" /\ reap[t] = None /\ guards[t] # <<>>
        /\ guards' = [guards EXCEPT ![t] = Tail(@)]
        /\ IF k \in DOMAIN locks
           THEN /\ locks' = Store(k, s)
                /\ reap' = [reap EXCEPT ![t] =
                       IF locks[k].count[t] > 0 /\ Unused(s)
                       THEN k ELSE None]
           ELSE UNCHANGED <<locks, reap>>
        /\ waitGraph' = [waitGraph EXCEPT ![t] = {}]
        /\ UNCHANGED <<pc, want, sweep, raced, swept>>

DropDone(t) ==
    /\ pc[t] = "drop" /\ reap[t] = None /\ guards[t] = <<>>
    /\ pc' = [pc EXCEPT ![t] = "done"]
    /\ UNCHANGED <<locks, waitGraph, guards, want, sweep, reap, raced,
                   swept>>

(***************************************************************************)
(* Specification                                                           *)
(***************************************************************************)
(* What the code does without waiting for a client or for the clock. *)
Progress(t) ==
    \/ Grant(t) \/ Conflict(t)
    \/ Deadlock(t) \/ SleepAndRetry(t)
    \/ CleanupStart(t) \/ (\E k \in Keys : CleanupKey(t, k)) \/ CleanupEnd(t)
    \/ RemoveEntry(t)
    \/ DropGuard(t) \/ DropDone(t)

Next ==
    \E t \in Txns :
        \/ \E g \in Requests[t] : Request(t, g)
        \/ Timeout(t)
        \/ RollbackToSavepoint(t)
        \/ Finish(t)
        \/ Progress(t)

(* A thread inside the lock manager keeps running.  Nothing is assumed of  *)
(* clients (a transaction may stay open for ever) or of the timeout.       *)
Fairness == \A t \in Txns : WF_vars(Progress(t))

Spec == Init /\ [][Next]_vars
FairSpec == Spec /\ Fairness

(***************************************************************************)
(* Properties                                                              *)
(***************************************************************************)
GuardsOn(t, k) == {i \in DOMAIN guards[t] : guards[t][i].key = k}
Using == {t \in Txns : pc[t] \in Waiting \cup {"open"}}

(* Every guard in acquired_locks is backed by one counted acquisition, so  *)
(* that dropping a re-entrant guard never frees a row that still has       *)
(* others: for transactions that were never swept, on rows whose entry was *)
(* never removed while in use.                                             *)
GuardsBacked ==
    \A t \in Txns \ swept, k \in Keys \ raced :
        Entry(k).count[t] = Cardinality(GuardsOn(t, k))

(* Two transactions that may still use a row both have it for reading:     *)
(* "single holder only" for a write lock, seen from the guards and not     *)
(* from the table.  HoldsFor is what a transaction believes it holds.      *)
HoldsFor(t, m) ==
    {k \in Keys : \E i \in DOMAIN guards[t] :
                    guards[t][i] = [key |-> k, mode |-> m]}
SharedWrite(t, u) ==
    HoldsFor(t, "Write") \cap (HoldsFor(u, "Write") \cup HoldsFor(u, "Read"))

(* Among transactions that were never swept, only the removal of an entry  *)
(* in use can put two on a row that one of them writes.                    *)
ExclusiveUnlessRaced ==
    \A t, u \in Using \ swept : t # u => SharedWrite(t, u) \subseteq raced

(* lock_manager.rs: "Exclusive lock for writes - single holder only". *)
WriteExclusive ==
    \A t, u \in Using : t # u => SharedWrite(t, u) = {}

(* lock_manager.rs: "Locks here are held for the whole transaction (every  *)
(* guard lives in Transaction::acquired_locks until commit/rollback)": a   *)
(* transaction that goes on after a failed statement still holds the rows  *)
(* it has guards for, races on the entry aside.                            *)
SurvivorsKeepTheirLocks ==
    \A t \in Using, k \in Keys \ raced :
        Entry(k).count[t] = Cardinality(GuardsOn(t, k))

(* Who t really waits for, from the lock table rather than the graph. *)
Blockers == [t \in Txns |->
    IF pc[t] \in Waiting /\ ~ CanAcquire(Entry(want[t].key), t, want[t].mode)
    THEN Holders(Entry(want[t].key)) \ {t} ELSE {}]

(* A reported deadlock is one: the edges of the graph are refreshed only   *)
(* on a retry, yet a cycle in it is never made of stale edges.             *)
NoPhantomDeadlock ==
    raced = {} /\ Using \cap swept = {} =>
        \A t \in Txns :
            pc[t] = "detect" /\ DetectDeadlock(t) => HasCycle(Blockers, t)

(* Once every transaction has ended, the lock table, the queues and the    *)
(* wait-for graph are empty: errors and races leave nothing behind.        *)
NothingLeaks ==
    (\A t \in Txns : pc[t] = "done") =>
        DOMAIN locks = {} /\ \A t \in Txns : waitGraph[t] = {}

(* Transactions that wait for each other in a cycle do not wait for ever,  *)
(* even if the timeout never strikes.                                      *)
DeadlockBroken ==
    \A t \in Txns : HasCycle(Blockers, t) ~> ~ HasCycle(Blockers, t)
==============================================================================
