-------------------------------- MODULE Mvcc --------------------------------
(***************************************************************************)
(* Transactions over the MVCC store: Transaction (storage/transaction.rs)  *)
(* with the write-conflict registry (storage/conflict.rs) and the engine's *)
(* timestamps (storage/engine.rs, lib.rs).                                 *)
(*                                                                         *)
(* A transaction takes a snapshot timestamp, waits at the snapshot barrier *)
(* and buffers writes.  COMMIT allocates a timestamp and announces itself  *)
(* in flight, validates and records its keys one by one in recent_writes,  *)
(* applies one atomic batch and withdraws the announcement.  The barrier   *)
(* is the specification SnapshotBarrier that module CommitRing implements. *)
(*                                                                         *)
(* Four kinds of transaction reach this code:                              *)
(*   embedded  StorageEngine::begin_transaction: validates, no row locks   *)
(*   repeat    session, RepeatableRead or Serializable: validates, locks   *)
(*   read      session, ReadCommitted: records only, locks, refreshes its  *)
(*             snapshot before a statement                                 *)
(*   auto      begin_autocommit_transaction: records only, no locks, and   *)
(*             Transaction::commit uses the snapshot as commit timestamp   *)
(* A transaction identifier is one transaction, not a connection.          *)
(***************************************************************************)
EXTENDS Integers, FiniteSets

CONSTANTS
    Txns, Keys,
    Workloads,      \* initial choices, see the next assumption
    PruneInterval,  \* PRUNE_INTERVAL_COMMITS
    None            \* no row-lock holder

Kinds == {"embedded", "repeat", "read", "auto"}

ASSUME MvccAssumption ==
    /\ Workloads \subseteq [kind   : [Txns -> Kinds],
                            rows   : [Txns -> SUBSET Keys],
                            delete : BOOLEAN]
    /\ PruneInterval \in Nat \ {0}
    /\ None \notin Txns

VARIABLES
    workload,     \* kinds of transactions, rows they write, DELETEs or not
    clock,        \* engine timestamp
    pc,           \* state of each transaction
    snap,         \* snapshot_ts
    cts,          \* commit timestamp
    writes,       \* keys of write_set
    todo,         \* keys validate_and_record has yet to visit
    recorded,     \* what validate_and_record would undo: key -> prior
    recent,       \* recent_writes: key -> last recorded timestamp, 0 if absent
    registered,   \* active_snapshots: validating transactions
    inflight,     \* announced commit timestamps
    versions,     \* key -> timestamps of its applied versions
    rowLock,      \* key -> session transaction holding the write lock
    commitCount,  \* recorded commits, drives pruning
    look,         \* prune: entries of active_snapshots not yet visited
    oldest,       \* prune: least snapshot seen, 0 (u64::MAX) for none
    unprotected   \* history: validating transactions that a prune pass missed,
                  \* and those that ran when one of these undid a record

pruning == <<commitCount, look, oldest>>
records == <<recent, pruning, unprotected>>
registry == <<records, registered>>
vars == <<workload, clock, pc, snap, cts, writes, todo, recorded, registry,
          inflight, versions, rowLock>>

PC == {"idle", "begin", "active", "validate", "undo", "prune", "apply", "end",
       "committed", "lost", "aborted"}
Running == {"begin", "active", "validate", "undo", "prune", "apply", "end"}
Unrecorded == -1

kind(t) == workload.kind[t]
Validates(t) == kind(t) \in {"embedded", "repeat"}  \* conflict_validation
Locks(t) == kind(t) \in {"repeat", "read"}          \* has a lock manager

-----------------------------------------------------------------------------
Init ==
    /\ workload \in Workloads
    /\ clock = 0
    /\ pc = [t \in Txns |-> "idle"]
    /\ snap = [t \in Txns |-> 0]
    /\ cts = [t \in Txns |-> 0]
    /\ writes = [t \in Txns |-> {}]
    /\ todo = [t \in Txns |-> {}]
    /\ recorded = [t \in Txns |-> [k \in Keys |-> Unrecorded]]
    /\ recent = [k \in Keys |-> 0]
    /\ registered = {}
    /\ inflight = {}
    /\ versions = [k \in Keys |-> {}]
    /\ rowLock = [k \in Keys |-> None]
    /\ commitCount = 0
    /\ look = [t \in Txns |-> {}]
    /\ oldest = [t \in Txns |-> 0]
    /\ unprotected = {}

Goto(t, l) == pc' = [pc EXCEPT ![t] = l]
Unlocked(t) == [k \in Keys |-> IF rowLock[k] = t THEN None ELSE rowLock[k]]

\* A prune pass that runs has already visited the place of t.
Missed(t) == \E u \in Txns : pc[u] = "prune" /\ t \notin look[u]

\* next_timestamp, before the Transaction is built.
Begin(t) ==
    /\ pc[t] = "idle"
    /\ clock' = clock + 1
    /\ snap' = [snap EXCEPT ![t] = clock + 1]
    /\ Goto(t, "begin")
    /\ unprotected' = IF Validates(t) /\ Missed(t) THEN unprotected \cup {t}
                                                  ELSE unprotected
    /\ UNCHANGED <<workload, cts, writes, todo, recorded, recent, pruning,
                   registered, inflight, versions, rowLock>>

\* Mutant of PassBarrier: the barrier lets every snapshot through.
PassBarrierOpen(t) ==
    /\ pc[t] = "begin"
    /\ registered' = IF Validates(t) THEN registered \cup {t} ELSE registered
    /\ Goto(t, "active")
    /\ UNCHANGED <<workload, clock, snap, cts, writes, todo, recorded, records, inflight, versions, rowLock>>

\* set_conflict_registry: pass the snapshot barrier, then register if this
\* transaction validates.  refresh_snapshot passes the same barrier.
PassBarrier(t) ==
    /\ pc[t] = "begin"
    /\ \A c \in inflight : c > snap[t]
    /\ registered' = IF Validates(t) THEN registered \cup {t} ELSE registered
    /\ Goto(t, "active")
    /\ UNCHANGED <<workload, clock, snap, cts, writes, todo, recorded, records, inflight, versions, rowLock>>

\* A ReadCommitted statement refreshes the snapshot to current_timestamp.
RefreshSnapshot(t) ==
    /\ pc[t] = "active"
    /\ kind(t) = "read"
    /\ snap[t] < clock
    /\ snap' = [snap EXCEPT ![t] = clock]
    /\ Goto(t, "begin")
    /\ UNCHANGED <<workload, clock, cts, writes, todo, recorded, registry,
                   inflight, versions, rowLock>>

\* put: a session transaction first takes the row's write lock and keeps it
\* until it ends.
Put(t, k) ==
    /\ pc[t] = "active"
    /\ k \in workload.rows[t] \ writes[t]
    /\ Locks(t) => rowLock[k] = None
    /\ rowLock' = IF Locks(t) THEN [rowLock EXCEPT ![k] = t] ELSE rowLock
    /\ writes' = [writes EXCEPT ![t] = @ \cup {k}]
    /\ UNCHANGED <<workload, clock, pc, snap, cts, todo, recorded, registry,
                   inflight, versions>>

\* delete: a tombstone in the write set; no lock is taken.
Delete(t, k) ==
    /\ pc[t] = "active"
    /\ workload.delete
    /\ k \in workload.rows[t] \ writes[t]
    /\ writes' = [writes EXCEPT ![t] = @ \cup {k}]
    /\ UNCHANGED <<workload, clock, pc, snap, cts, todo, recorded, registry,
                   inflight, versions, rowLock>>

\* The transaction is over: locks are released and Drop deregisters it.  Of one
\* that did not commit nothing is left but its commit timestamp (a history).
Finish(t, l) ==
    /\ Goto(t, l)
    /\ rowLock' = Unlocked(t)
    /\ registered' = registered \ {t}
    /\ IF l = "committed"
         THEN UNCHANGED <<writes, snap>>
         ELSE /\ writes' = [writes EXCEPT ![t] = {}]
              /\ snap' = [snap EXCEPT ![t] = 0]
    /\ todo' = [todo EXCEPT ![t] = {}]

Rollback(t) ==
    /\ pc[t] = "active"
    /\ Finish(t, "aborted")
    /\ UNCHANGED <<workload, clock, cts, recorded, records,
                   inflight, versions>>

\* COMMIT of a transaction without tracked writes: a timestamp is allocated
\* (not by an autocommit statement) and nothing is validated or applied.
CommitReadOnly(t) ==
    /\ pc[t] = "active"
    /\ writes[t] = {}
    /\ clock' = IF kind(t) = "auto" THEN clock ELSE clock + 1
    /\ Finish(t, "committed")
    /\ UNCHANGED <<workload, cts, recorded, records, inflight,
                   versions>>

\* next_commit_timestamp allocates and announces in one step; an autocommit
\* transaction commits at its snapshot and announces nothing.
Commit(t) ==
    /\ pc[t] = "active"
    /\ writes[t] # {}
    /\ IF kind(t) = "auto"
         THEN /\ cts' = [cts EXCEPT ![t] = snap[t]]
              /\ UNCHANGED <<clock, inflight>>
         ELSE /\ clock' = clock + 1
              /\ cts' = [cts EXCEPT ![t] = clock + 1]
              /\ inflight' = inflight \cup {clock + 1}
    /\ todo' = [todo EXCEPT ![t] = writes[t]]
    /\ Goto(t, "validate")
    /\ UNCHANGED <<workload, snap, writes, recorded, registry, versions, rowLock>>

\* Mutant of RecordKey: the prior record is compared with the commit timestamp.
RecordKeyAgainstCommit(t, k) ==
    /\ pc[t] = "validate"
    /\ k \in todo[t]
    /\ ~(Validates(t) /\ recent[k] > cts[t])
    /\ recent' = [recent EXCEPT ![k] = cts[t]]
    /\ recorded' = [recorded EXCEPT ![t][k] = recent[k]]
    /\ todo' = [todo EXCEPT ![t] = @ \ {k}]
    /\ UNCHANGED <<workload, clock, pc, snap, cts, writes, registered,
                   pruning, unprotected, inflight, versions, rowLock>>

\* validate_and_record, one key: atomic under the entry of that key.
RecordKey(t, k) ==
    /\ pc[t] = "validate"
    /\ k \in todo[t]
    /\ ~(Validates(t) /\ recent[k] > snap[t])
    /\ recent' = [recent EXCEPT ![k] = cts[t]]
    /\ recorded' = [recorded EXCEPT ![t][k] = recent[k]]
    /\ todo' = [todo EXCEPT ![t] = @ \ {k}]
    /\ UNCHANGED <<workload, clock, pc, snap, cts, writes, registered,
                   pruning, unprotected, inflight, versions, rowLock>>

Conflict(t, k) ==
    /\ pc[t] = "validate"
    /\ k \in todo[t]
    /\ Validates(t) /\ recent[k] > snap[t]
    /\ Goto(t, "undo")
    /\ UNCHANGED <<workload, clock, snap, cts, writes, todo, recorded, registry,
                   inflight, versions, rowLock>>

\* The undo of a transaction whose records may be pruned can put a stale record
\* over another commit's.
Undone(t) ==
    unprotected' = IF t \in unprotected
                     THEN unprotected \cup
                            {u \in Txns : Validates(u) /\ pc[u] \in Running}
                     ELSE unprotected

\* Mutant of UndoKey: the prior value is forgotten before it is put back.
UndoKeySwapped(t, k) ==
    /\ pc[t] = "undo"
    /\ recorded[t][k] # Unrecorded
    /\ recorded' = [recorded EXCEPT ![t][k] = Unrecorded]
    /\ recent' = [recent EXCEPT ![k] = recorded'[t][k]]
    /\ Undone(t)
    /\ UNCHANGED <<workload, clock, pc, snap, cts, writes, todo, registered,
                   pruning, inflight, versions, rowLock>>

\* The loser puts back the prior value of a key it had recorded, or removes
\* the entry it had created.
UndoKey(t, k) ==
    /\ pc[t] = "undo"
    /\ recorded[t][k] # Unrecorded
    /\ recent' = [recent EXCEPT ![k] = recorded[t][k]]
    /\ recorded' = [recorded EXCEPT ![t][k] = Unrecorded]
    /\ Undone(t)
    /\ UNCHANGED <<workload, clock, pc, snap, cts, writes, todo, registered,
                   pruning, inflight, versions, rowLock>>

\* Mutant of Lose: the partial records are not undone.
LoseWithoutUndo(t) ==
    /\ pc[t] = "undo"
    /\ inflight' = inflight \ {cts[t]}
    /\ Finish(t, "lost")
    /\ UNCHANGED <<workload, clock, cts, recorded, records,
                   versions>>

\* Mutant of Lose: the conflict path forgets end_commit.
LoseWithoutEnd(t) ==
    /\ pc[t] = "undo"
    /\ \A k \in Keys : recorded[t][k] = Unrecorded
    /\ Finish(t, "lost")
    /\ UNCHANGED <<workload, clock, cts, recorded, records,
                   inflight, versions>>

\* The conflict path of commit_with_timestamp ends: end_commit, error.
Lose(t) ==
    /\ pc[t] = "undo"
    /\ \A k \in Keys : recorded[t][k] = Unrecorded
    /\ inflight' = inflight \ {cts[t]}
    /\ Finish(t, "lost")
    /\ UNCHANGED <<workload, clock, cts, recorded, records,
                   versions>>

\* All keys are recorded; every PruneInterval-th recorded commit prunes.
Validated(t) ==
    /\ pc[t] = "validate"
    /\ todo[t] = {}
    /\ commitCount' = commitCount + 1
    /\ recorded' = [recorded EXCEPT ![t] = [k \in Keys |-> Unrecorded]]
    /\ IF commitCount' % PruneInterval = 0
         THEN /\ look' = [look EXCEPT ![t] = {u \in Txns : Validates(u)}]
              /\ todo' = [todo EXCEPT ![t] = Keys]
              /\ Goto(t, "prune")
         ELSE /\ Goto(t, "apply")
              /\ UNCHANGED <<look, todo>>
    /\ UNCHANGED <<workload, clock, snap, cts, writes, recent, oldest, unprotected,
                   registered, inflight, versions, rowLock>>

\* prune, first pass: the minimum over active_snapshots, entry by entry.
LookAt(t, u) ==
    /\ pc[t] = "prune"
    /\ u \in look[t]
    /\ look' = [look EXCEPT ![t] = @ \ {u}]
    /\ oldest' = IF u \in registered /\ (oldest[t] = 0 \/ snap[u] < oldest[t])
                   THEN [oldest EXCEPT ![t] = snap[u]] ELSE oldest
    /\ unprotected' = IF pc[u] = "begin" THEN unprotected \cup {u} ELSE unprotected
    /\ UNCHANGED <<workload, clock, pc, snap, cts, writes, todo, recorded, recent,
                   commitCount, registered, inflight, versions, rowLock>>

\* prune, second pass: drop the entry of k if it is older than the minimum.
RetainKey(t, k) ==
    /\ pc[t] = "prune"
    /\ look[t] = {}
    /\ k \in todo[t]
    /\ recent' = IF oldest[t] = 0 \/ recent[k] < oldest[t]
                   THEN [recent EXCEPT ![k] = 0] ELSE recent
    /\ todo' = [todo EXCEPT ![t] = @ \ {k}]
    /\ UNCHANGED <<workload, clock, pc, snap, cts, writes, recorded, pruning,
                   unprotected, registered, inflight, versions, rowLock>>

PruneEnds(t) ==
    /\ pc[t] = "prune"
    /\ look[t] = {}
    /\ todo[t] = {}
    /\ oldest' = [oldest EXCEPT ![t] = 0]
    /\ Goto(t, "apply")
    /\ UNCHANGED <<workload, clock, snap, cts, writes, todo, recorded, recent,
                   commitCount, look, unprotected, registered, inflight, versions,
                   rowLock>>

\* The write batch reaches RocksDB, as a whole.
Apply(t) ==
    /\ pc[t] = "apply"
    /\ versions' = [k \in Keys |-> IF k \in writes[t] THEN versions[k] \cup {cts[t]}
                                                      ELSE versions[k]]
    /\ Goto(t, "end")
    /\ UNCHANGED <<workload, clock, snap, cts, writes, todo, recorded, registry,
                   inflight, rowLock>>

\* abort_partial_commit, a WAL staging error or a failed batch write: the
\* announcement is withdrawn, the recorded keys stay.
CommitFails(t) ==
    /\ pc[t] = "apply"
    /\ inflight' = inflight \ {cts[t]}
    /\ Finish(t, "aborted")
    /\ UNCHANGED <<workload, clock, cts, recorded, records,
                   versions>>

\* materialize_copy_marker_row or materialize_elided_latest_version fails: `?`
\* leaves commit_with_timestamp past every end_commit.
PreimageFails(t) ==
    /\ pc[t] = "apply"
    /\ Finish(t, "aborted")
    /\ UNCHANGED <<workload, clock, cts, recorded, records,
                   inflight, versions>>

\* end_commit lifts the barrier, then the locks are released.
EndCommit(t) ==
    /\ pc[t] = "end"
    /\ inflight' = inflight \ {cts[t]}
    /\ Finish(t, "committed")
    /\ UNCHANGED <<workload, clock, cts, recorded, records,
                   versions>>

-----------------------------------------------------------------------------
CommitStep(t) ==
    \/ \E k \in Keys : RecordKey(t, k) \/ Conflict(t, k) \/ UndoKey(t, k)
    \/ Lose(t)
    \/ Validated(t)
    \/ \E u \in Txns : LookAt(t, u)
    \/ \E k \in Keys : RetainKey(t, k)
    \/ PruneEnds(t)
    \/ Apply(t)
    \/ CommitFails(t)
    \/ PreimageFails(t)
    \/ EndCommit(t)

Next ==
    \E t \in Txns :
      \/ Begin(t)
      \/ PassBarrier(t)
      \/ RefreshSnapshot(t)
      \/ \E k \in Keys : Put(t, k) \/ Delete(t, k)
      \/ Rollback(t)
      \/ Commit(t) \/ CommitReadOnly(t)
      \/ CommitStep(t)

\* A commit that has started runs to its end, and a thread at the barrier
\* passes once it may; clients are free to stop.
Fairness ==
    \A t \in Txns : WF_vars(CommitStep(t)) /\ WF_vars(PassBarrier(t))

Spec == Init /\ [][Next]_vars /\ Fairness

-----------------------------------------------------------------------------
TypeOK ==
    /\ workload \in Workloads
    /\ clock \in Nat
    /\ pc \in [Txns -> PC]
    /\ snap \in [Txns -> 0 .. clock]
    /\ cts \in [Txns -> 0 .. clock]
    /\ writes \in [Txns -> SUBSET Keys]
    /\ todo \in [Txns -> SUBSET Keys]
    /\ recorded \in [Txns -> [Keys -> Nat \cup {Unrecorded}]]
    /\ recent \in [Keys -> 0 .. clock]
    /\ registered \subseteq Txns
    /\ inflight \subseteq 1 .. clock
    /\ versions \in [Keys -> SUBSET (1 .. clock)]
    /\ rowLock \in [Keys -> Txns \cup {None}]
    /\ commitCount \in Nat
    /\ look \in [Txns -> SUBSET Txns]
    /\ oldest \in [Txns -> 0 .. clock]
    /\ unprotected \subseteq Txns

\* The version of k that a snapshot s sees (0: none).
VisibleAt(k, s) ==
    LET seen == {v \in versions[k] : v <= s}
    IN  IF seen = {} THEN 0 ELSE CHOOSE v \in seen : \A w \in seen : w <= v

\* t committed over a version that u committed after t's snapshot.
LosesUpdate(t, u) ==
    /\ t # u
    /\ pc[t] \in {"end", "committed"}
    /\ pc[u] \in {"end", "committed"}
    /\ writes[t] \cap writes[u] # {}
    /\ snap[t] < cts[u] /\ cts[u] < cts[t]

\* First committer wins: no validating transaction overwrites a commit that it
\* has not seen.  Left out are the transactions a prune pass missed (it read
\* active_snapshots before they registered and had not ended when they drew
\* their snapshot) and those that ran when such a transaction undid a record.
FirstCommitterWins ==
    \A t, u \in Txns \ unprotected : Validates(t) => ~LosesUpdate(t, u)

\* conflict.rs says it without that exception.
NoLostUpdate == \A t, u \in Txns : Validates(t) => ~LosesUpdate(t, u)

\* A losing commit "leaves no trace": its timestamp is not in recent_writes,
\* however its undo interleaves with other committers.
LoserLeavesNoTrace ==
    \A t \in Txns : pc[t] = "lost" => \A k \in Keys : recent[k] # cts[t]

\* A snapshot is stable: from the moment a transaction has passed the barrier,
\* what its snapshot shows of any key never changes.
SnapshotStable ==
    [][\A t \in Txns, k \in Keys :
         pc[t] = "active" /\ snap'[t] = snap[t] =>
           VisibleAt(k, snap[t])' = VisibleAt(k, snap[t])]_vars

\* A commit that is over and still announced.
Leaked == \E t \in Txns : pc[t] = "aborted" /\ cts[t] \in inflight

\* The barrier is lifted: a transaction that has taken its snapshot timestamp
\* becomes active, unless a failed pre-image read left an announcement behind.
BarrierLifts == \A t \in Txns : pc[t] = "begin" ~> pc[t] = "active" \/ Leaked

\* transaction.rs and conflict.rs say it without that exception: end_commit
\* is called on every path.
BarrierAlwaysLifts == \A t \in Txns : pc[t] = "begin" ~> pc[t] = "active"
=============================================================================
