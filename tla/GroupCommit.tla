---------------------------- MODULE GroupCommit ----------------------------
(***************************************************************************)
(* Leader/follower group commit: GroupCommitter::wait_durable of           *)
(* storage/group_commit.rs.                                                *)
(*                                                                         *)
(* A durable committer appends its batch to the RocksDB WAL unsynced and   *)
(* then calls wait_durable.  The first caller of a generation leads it: it *)
(* lets others join for the accumulation window, waits until no flush is   *)
(* in flight, closes the cohort and issues one flush_wal(sync) outside the *)
(* mutex.  Everybody else of the generation sleeps on the condition        *)
(* variable until the generation has completed.                            *)
(*                                                                         *)
(* Every action but Flush and Sync is one critical section of the mutex    *)
(* `state`.  The WAL itself is external (RocksDB): `written` is its length *)
(* in commits and `synced` the prefix that survives a power loss.          *)
(***************************************************************************)
EXTENDS Integers, FiniteSets

CONSTANTS
    Committers,          \* threads that commit durably
    ErrorRetentionGens,  \* generations of flush failures that are kept
    MaxWrites            \* bound: batches ever written to the WAL

ASSUME GroupCommitAssumption ==
    /\ ErrorRetentionGens \in Nat \ {0}
    /\ MaxWrites \in Nat

VARIABLES
    accumulating,     \* generation that accepts joiners
    completed,        \* highest generation whose flush has finished
    leaderPresent,    \* a leader collects the cohort of `accumulating`
    flushInProgress,  \* a flush_wal call is in flight
    failed,           \* recorded generations whose flush failed (keys of the map)
    pc,               \* where each thread is in the commit
    myGen,            \* the generation a thread joined
    parked,           \* threads asleep on the condition variable
    lsn,              \* WAL position of a thread's batch
    outcome,          \* what flush() returned to the leader
    written,          \* external: batches in the RocksDB WAL
    synced,           \* external: the prefix of them on stable storage
    flushTo,          \* external: what the flush in flight covers
    acked             \* history: commits reported durable, [lsn, lag]

vars == <<accumulating, completed, leaderPresent, flushInProgress, failed, pc,
          myGen, parked, lsn, outcome, written, synced, flushTo, acked>>

state == <<accumulating, completed, leaderPresent, flushInProgress, failed>>
wal   == <<written, synced, flushTo>>

Leading  == {"window", "close"}               \* the cohort is open
Flushing == {"flush", "syncing", "publish"}   \* the cohort is closed
PC == {"idle", "written", "follow"} \cup Leading \cup Flushing

Max2(a, b) == IF a >= b THEN a ELSE b

-----------------------------------------------------------------------------
\* GroupCommitter::new
Init ==
    /\ accumulating = 1
    /\ completed = 0
    /\ leaderPresent = FALSE
    /\ flushInProgress = FALSE
    /\ failed = {}
    /\ pc = [p \in Committers |-> "idle"]
    /\ myGen = [p \in Committers |-> 0]
    /\ parked = {}
    /\ lsn = [p \in Committers |-> 0]
    /\ outcome = [p \in Committers |-> "ok"]
    /\ written = 0
    /\ synced = 0
    /\ flushTo = 0
    /\ acked = {}

Goto(p, l) == pc' = [pc EXCEPT ![p] = l]
Awake(p, l) == pc[p] = l /\ p \notin parked

\* p returns to its caller; its locals are gone.
Return(p) ==
    /\ Goto(p, "idle")
    /\ myGen' = [myGen EXCEPT ![p] = 0]
    /\ lsn' = [lsn EXCEPT ![p] = 0]
    /\ outcome' = [outcome EXCEPT ![p] = "ok"]

\* commit_with_timestamp writes the batch without sync before it waits.
Write(p) ==
    /\ pc[p] = "idle"
    /\ written < MaxWrites
    /\ written' = written + 1
    /\ lsn' = [lsn EXCEPT ![p] = written + 1]
    /\ Goto(p, "written")
    /\ UNCHANGED <<state, myGen, parked, outcome, synced, flushTo, acked>>

\* Mutant of Join: the leader does not claim the cohort.
JoinUnclaimed(p) ==
    /\ pc[p] = "written"
    /\ myGen' = [myGen EXCEPT ![p] = accumulating]
    /\ Goto(p, IF leaderPresent THEN "follow" ELSE "window")
    /\ UNCHANGED <<state, parked, lsn, outcome, wal, acked>>

\* Entry of wait_durable: join the open generation, as its leader if there is
\* none.  The leader sleeps the accumulation window without the mutex.
Join(p) ==
    /\ pc[p] = "written"
    /\ myGen' = [myGen EXCEPT ![p] = accumulating]
    /\ leaderPresent' = TRUE
    /\ Goto(p, IF leaderPresent THEN "follow" ELSE "window")
    /\ UNCHANGED <<accumulating, completed, flushInProgress, failed, parked,
                   lsn, outcome, wal, acked>>

\* while st.completed < my_gen { cv.wait }
FollowerWait(p) ==
    /\ Awake(p, "follow")
    /\ completed < myGen[p]
    /\ parked' = parked \cup {p}
    /\ UNCHANGED <<state, pc, myGen, lsn, outcome, wal, acked>>

\* The commit of p is reported as durable; lag is how many generations
\* completed after p's own before p was scheduled.
Acknowledge(p) ==
    acked' = acked \cup {[lsn |-> lsn[p], lag |-> completed' - myGen[p]]}

\* Mutant of FollowerReturn: a wakeup is taken for the own generation's.
FollowerReturnUnchecked(p) ==
    /\ Awake(p, "follow")
    /\ Return(p)
    /\ UNCHANGED <<state, parked, wal>>
    /\ IF myGen[p] \in failed THEN acked' = acked ELSE Acknowledge(p)

\* A follower whose generation has completed looks up that generation's error.
FollowerReturn(p) ==
    /\ Awake(p, "follow")
    /\ completed >= myGen[p]
    /\ Return(p)
    /\ UNCHANGED <<state, parked, wal>>
    /\ IF myGen[p] \in failed THEN acked' = acked ELSE Acknowledge(p)

\* The window is over and the leader has the mutex again.
WindowElapsed(p) ==
    /\ pc[p] = "window"
    /\ Goto(p, "close")
    /\ UNCHANGED <<state, myGen, parked, lsn, outcome, wal, acked>>

\* while st.flush_in_progress { cv.wait }
LeaderWait(p) ==
    /\ Awake(p, "close")
    /\ flushInProgress
    /\ parked' = parked \cup {p}
    /\ UNCHANGED <<state, pc, myGen, lsn, outcome, wal, acked>>

\* Mutant of CloseCohort: the flush in flight is not waited for.
CloseCohortEager(p) ==
    /\ Awake(p, "close")
    /\ accumulating' = myGen[p] + 1
    /\ leaderPresent' = FALSE
    /\ flushInProgress' = TRUE
    /\ Goto(p, "flush")
    /\ UNCHANGED <<completed, failed, myGen, parked, lsn, outcome, wal, acked>>

\* Close the cohort; later arrivals form the next generation.
CloseCohort(p) ==
    /\ Awake(p, "close")
    /\ ~flushInProgress
    /\ accumulating' = myGen[p] + 1
    /\ leaderPresent' = FALSE
    /\ flushInProgress' = TRUE
    /\ Goto(p, "flush")
    /\ UNCHANGED <<completed, failed, myGen, parked, lsn, outcome, wal, acked>>

\* External: flush_wal(true) is called; it covers what has been written.
Flush(p) ==
    /\ pc[p] = "flush"
    /\ flushTo' = written
    /\ Goto(p, "syncing")
    /\ UNCHANGED <<state, myGen, parked, lsn, outcome, written, synced, acked>>

\* External: the call returns.  Ok means everything it covers is on disk.
Sync(p) ==
    /\ pc[p] = "syncing"
    /\ \E r \in {"ok", "err"} :
         /\ outcome' = [outcome EXCEPT ![p] = r]
         /\ synced' = IF r = "ok" THEN flushTo ELSE synced
    /\ Goto(p, "publish")
    /\ UNCHANGED <<state, myGen, parked, lsn, written, flushTo, acked>>

\* Mutant of Retained: failures are forgotten one generation too early.
RetainedShort(g, done) ==
    {f \in failed \cup {g} : f > done - ErrorRetentionGens + 1}

\* What is left of the failures when generation g has just failed and `done`
\* is the highest completed generation.
Retained(g, done) ==
    {f \in failed \cup {g} : f > done - ErrorRetentionGens}

\* Mutant of Publish: notify_one instead of notify_all.
PublishNotifyOne(p) ==
    /\ pc[p] = "publish"
    /\ flushInProgress' = FALSE
    /\ completed' = Max2(completed, myGen[p])
    /\ failed' = IF outcome[p] = "err" THEN Retained(myGen[p], completed')
                                       ELSE failed
    /\ IF parked = {} THEN UNCHANGED parked
                      ELSE \E q \in parked : parked' = parked \ {q}
    /\ Return(p)
    /\ UNCHANGED <<accumulating, leaderPresent, wal>>
    /\ IF outcome[p] = "err" THEN acked' = acked ELSE Acknowledge(p)

\* The leader publishes the result of its flush, wakes everyone and returns.
Publish(p) ==
    /\ pc[p] = "publish"
    /\ flushInProgress' = FALSE
    /\ completed' = Max2(completed, myGen[p])
    /\ failed' = IF outcome[p] = "err" THEN Retained(myGen[p], completed')
                                       ELSE failed
    /\ parked' = {}                     \* cv.notify_all
    /\ Return(p)
    /\ UNCHANGED <<accumulating, leaderPresent, wal>>
    /\ IF outcome[p] = "err" THEN acked' = acked ELSE Acknowledge(p)

Step(p) ==
    \/ Join(p)
    \/ FollowerWait(p)
    \/ FollowerReturn(p)
    \/ WindowElapsed(p)
    \/ LeaderWait(p)
    \/ CloseCohort(p)
    \/ Flush(p)
    \/ Sync(p)
    \/ Publish(p)

Next == \E p \in Committers : Write(p) \/ Step(p)

\* A thread inside wait_durable is scheduled and fsync returns; nobody is
\* obliged to commit.
Fairness == \A p \in Committers : WF_vars(Step(p))

Spec == Init /\ [][Next]_vars /\ Fairness

-----------------------------------------------------------------------------
TypeOK ==
    /\ accumulating \in Nat \ {0}
    /\ completed \in Nat
    /\ leaderPresent \in BOOLEAN
    /\ flushInProgress \in BOOLEAN
    /\ failed \subseteq Nat
    /\ pc \in [Committers -> PC]
    /\ myGen \in [Committers -> Nat]
    /\ parked \subseteq {p \in Committers : pc[p] \in {"follow", "close"}}
    /\ lsn \in [Committers -> Nat]
    /\ outcome \in [Committers -> {"ok", "err"}]
    /\ written \in Nat
    /\ synced \in Nat
    /\ flushTo \in Nat
    /\ acked \subseteq [lsn : Nat, lag : Nat]

\* A commit that wait_durable reported as durable survives a power loss: an
\* fsync that covers its bytes succeeded.  The one exception is the bounded
\* error map: the failure of a generation is forgotten, and its late follower
\* told Ok, only when that follower slept through ERROR_RETENTION_GENS
\* further generations.
AckedDurable ==
    \A a \in acked : a.lsn <= synced \/ a.lag >= ErrorRetentionGens

\* At most one flush_wal is in flight, and flush_in_progress says when.
SingleFlush ==
    /\ flushInProgress <=> \E p \in Committers : pc[p] \in Flushing
    /\ \A p, q \in Committers :
         pc[p] \in Flushing /\ pc[q] \in Flushing => p = q

\* The debug_assert of wait_durable: from joining to closing, the leader's
\* generation is the one that accumulates, and it has no second leader.
LeaderOwnsCohort ==
    \A p, q \in Committers :
      /\ pc[p] \in Leading => myGen[p] = accumulating
      /\ pc[p] \in Leading /\ pc[q] \in Leading => p = q

\* No thread sleeps forever: every commit that reaches wait_durable returns,
\* although followers and waiting leaders depend on a notify_all of others.
EveryCommitReturns ==
    \A p \in Committers : pc[p] = "written" ~> pc[p] = "idle"

=============================================================================
