----------------------------- MODULE MvccProofs -----------------------------
(***************************************************************************)
(* Proofs about Mvcc, for any number of transactions and rows and for any  *)
(* workload: a losing commit leaves no trace in recent_writes, a snapshot  *)
(* is stable while nobody commits at its snapshot, and the first committer *)
(* wins wherever a row is written only by transactions that validate, or   *)
(* only by sessions that lock it.                                          *)
(*                                                                         *)
(* Inv has three layers:                                                   *)
(*   - Phases, Distinct, Barrier: what a transaction has drawn, recorded   *)
(*     and announced in each of its states, and that a snapshot past the   *)
(*     barrier is below every announced commit;                            *)
(*   - Traces: recent_writes holds the timestamp of an undecided commit    *)
(*     only for keys the commit will undo;                                 *)
(*   - for a covered row, Watched: a commit that has claimed the row shows *)
(*     in recent_writes to every transaction it endangers; Priors and      *)
(*     Sole: also after any undo; Shielded: also after a prune pass, whose *)
(*     minimum is not above the snapshots it has to keep records for;      *)
(*     Ordered: row locks order the commits.                               *)
(***************************************************************************)
EXTENDS Mvcc, TLAPS

Past(t) == pc[t] \in {"active", "validate", "undo", "prune", "apply", "end"}
Begun(t) == pc[t] = "begin" \/ Past(t)
Committing(t) == pc[t] \in {"validate", "undo", "prune", "apply", "end"}

Typed ==
    /\ workload \in Workloads
    /\ clock \in Nat
    /\ pc \in [Txns -> PC]
    /\ snap \in [Txns -> Nat]
    /\ cts \in [Txns -> Nat]
    /\ writes \in [Txns -> SUBSET Keys]
    /\ todo \in [Txns -> SUBSET Keys]
    /\ recorded \in [Txns -> [Keys -> Nat \cup {Unrecorded}]]
    /\ recent \in [Keys -> Nat]
    /\ registered \subseteq Txns
    /\ inflight \subseteq Nat
    /\ versions \in [Keys -> SUBSET Nat]
    /\ rowLock \in [Keys -> Txns \cup {None}]
    /\ commitCount \in Nat
    /\ look \in [Txns -> SUBSET Txns]
    /\ oldest \in [Txns -> Nat]
    /\ unprotected \subseteq Txns

\* No timestamp is ahead of the clock.
Drawn ==
    /\ \A t \in Txns : snap[t] <= clock /\ cts[t] <= clock /\ oldest[t] <= clock
    /\ \A k \in Keys : recent[k] <= clock
    /\ \A t \in Txns, k \in Keys : recorded[t][k] <= clock
    /\ \A c \in inflight : 0 < c /\ c <= clock
    /\ \A k \in Keys : \A v \in versions[k] : 0 < v /\ v <= clock

Phase(t) ==
    /\ Begun(t) => 0 < snap[t]
    /\ Committing(t) \/ pc[t] = "lost" => 0 < cts[t]
    /\ pc[t] \in {"idle", "begin", "active"} => cts[t] = 0
    /\ Committing(t) /\ kind(t) = "auto" => cts[t] = snap[t]
    /\ Committing(t) /\ kind(t) # "auto" => snap[t] < cts[t] /\ cts[t] \in inflight
    /\ pc[t] \in {"undo", "lost"} => Validates(t)
    /\ pc[t] = "idle" => writes[t] = {}
    /\ writes[t] \subseteq workload.rows[t]
    /\ t \in registered <=> Validates(t) /\ Past(t)

\* What validate_and_record has recorded and not undone.
Book(t) ==
    /\ pc[t] \notin {"validate", "undo"} => \A k \in Keys : recorded[t][k] = Unrecorded
    /\ pc[t] = "validate" =>
         /\ todo[t] \subseteq writes[t]
         /\ \A k \in Keys : recorded[t][k] # Unrecorded <=> k \in writes[t] \ todo[t]
    /\ pc[t] = "undo" => \A k \in Keys : recorded[t][k] # Unrecorded => k \in writes[t]
    /\ Validates(t) => \A k \in Keys : recorded[t][k] <= snap[t]

Phases == \A t \in Txns : Phase(t) /\ Book(t)

\* The timestamps that are t's alone.
Own(t) == {cts[t]} \cup (IF kind(t) = "auto" THEN {snap[t]} ELSE {})
Distinct == \A t, u \in Txns : t # u => \A a \in Own(t) \cap Own(u) : a = 0

Barrier == \A t \in Txns : Past(t) => \A c \in inflight : snap[t] < c

Traces ==
    \A t \in Txns, k \in Keys :
      /\ Validates(t) /\ pc[t] \in {"validate", "undo"} /\ recent[k] = cts[t] =>
           recorded[t][k] # Unrecorded
      /\ pc[t] = "lost" =>
           /\ recent[k] # cts[t]
           /\ \A u \in Txns : Validates(u) => recorded[u][k] # cts[t]

\* Every transaction that writes the row validates, or every one locks it.
Locked(k) ==
    ~workload.delete /\ \A t \in Txns : k \in workload.rows[t] => Locks(t)
Covered(k) ==
    Locked(k) \/ \A t \in Txns : k \in workload.rows[t] => Validates(t)

\* t has recorded its write of k and has not undone it.
Claimed(t, k) ==
    \/ pc[t] \in {"validate", "undo"} /\ recorded[t][k] # Unrecorded
    \/ pc[t] \in {"prune", "apply", "end", "committed"} /\ k \in writes[t]

\* u must not commit a row that t has claimed, and recent_writes can tell.
Exposed(t, u) ==
    t # u /\ Validates(u) /\ u \notin unprotected /\ Begun(u) /\ snap[u] < cts[t]

\* t may still undo its record of k.
Undoable(t, k) ==
    Validates(t) /\ t \notin unprotected /\ recorded[t][k] # Unrecorded

Watched(k) ==
    \A t, u \in Txns : Claimed(t, k) /\ Exposed(t, u) => snap[u] < recent[k]
Priors(k) ==
    \A v, t, u \in Txns :
      Undoable(v, k) /\ t # v /\ Claimed(t, k) /\ Exposed(t, u) =>
        snap[u] < recorded[v][k]
Sole(k) ==
    \A v \in Txns : Undoable(v, k) => recent[k] = cts[v]
Ordered(k) ==
    Locked(k) =>
      /\ \A t \in Txns : Begun(t) /\ k \in writes[t] => rowLock[k] = t
      /\ \A t, u \in Txns :
           pc[t] = "committed" /\ k \in writes[t] /\ Committing(u) /\ k \in writes[u] =>
             cts[t] < cts[u]
Won(k) ==
    \A t, u \in Txns \ unprotected :
      t # u /\ Validates(t) /\ Claimed(t, k) /\ Claimed(u, k) =>
        ~(snap[t] < cts[u] /\ cts[u] < cts[t])

Rows == \A k \in Keys : Covered(k) =>
          Watched(k) /\ Priors(k) /\ Sole(k) /\ Ordered(k) /\ Won(k)

\* A prune pass has yet to look at u, or its minimum is not above u's snapshot.
Shielded ==
    \A p, u \in Txns :
      pc[p] = "prune" /\ Validates(u) /\ Begun(u) /\ u \notin unprotected =>
        u \in look[p] \/ (0 < oldest[p] /\ oldest[p] <= snap[u])

Inv == Typed /\ Drawn /\ Phases /\ Distinct /\ Barrier /\ Traces /\ Shielded /\ Rows

\* One step of transaction t.
Step(t) ==
    \/ Begin(t)
    \/ PassBarrier(t)
    \/ RefreshSnapshot(t)
    \/ \E k \in Keys : Put(t, k) \/ Delete(t, k)
    \/ Rollback(t)
    \/ Commit(t) \/ CommitReadOnly(t)
    \/ CommitStep(t)

\* A step that does not touch transaction u.
Same(u) ==
    /\ pc'[u] = pc[u] /\ snap'[u] = snap[u] /\ cts'[u] = cts[u]
    /\ writes'[u] = writes[u] /\ todo'[u] = todo[u] /\ recorded'[u] = recorded[u]
    /\ (u \in registered' <=> u \in registered)
    /\ look'[u] = look[u] /\ oldest'[u] = oldest[u]

-----------------------------------------------------------------------------
(* What a step touches.                                                    *)

\* The initial state: nobody has begun.
LEMMA InitInv == Init => Inv
  <1> SUFFICES ASSUME Init PROVE Inv
      OBVIOUS
  <1> USE DEF Init, Unrecorded
  <1>1. workload.rows \in [Txns -> SUBSET Keys] BY MvccAssumption
  <1>2. Typed BY DEF Typed, PC
  <1>3. Drawn BY DEF Drawn
  <1>4. Phases BY <1>1 DEF Phases, Phase, Book, Begun, Past, Committing
  <1>5. Distinct BY DEF Distinct, Own
  <1>6. Barrier BY DEF Barrier
  <1>7. Traces BY DEF Traces
  <1>8. Rows
    BY DEF Rows, Watched, Priors, Sole, Ordered, Won, Claimed, Exposed, Undoable, Begun,
           Past, Committing
  <1>9. Shielded BY DEF Shielded
  <1> QED BY <1>2, <1>3, <1>4, <1>5, <1>6, <1>7, <1>8, <1>9 DEF Inv

\* A step of t leaves the others' variables, and the workload, alone.
LEMMA Frame ==
  ASSUME Typed, NEW t \in Txns, Step(t)
  PROVE  workload' = workload /\ \A u \in Txns : u # t => Same(u)
  <1> USE DEF Typed, Goto, Finish, registry, records, pruning
  <1> USE DEF Same
  <1>1. CASE Begin(t) BY <1>1 DEF Begin
  <1>2. CASE PassBarrier(t) BY <1>2 DEF PassBarrier
  <1>3. CASE RefreshSnapshot(t) BY <1>3 DEF RefreshSnapshot
  <1>4. CASE \E k \in Keys : Put(t, k) \/ Delete(t, k) BY <1>4 DEF Put, Delete
  <1>5. CASE Rollback(t) BY <1>5 DEF Rollback
  <1>6. CASE Commit(t) BY <1>6 DEF Commit
  <1>7. CASE CommitReadOnly(t) BY <1>7 DEF CommitReadOnly
  <1>8. CASE \E k \in Keys : RecordKey(t, k) BY <1>8 DEF RecordKey
  <1>9. CASE \E k \in Keys : Conflict(t, k) BY <1>9 DEF Conflict
  <1>10. CASE \E k \in Keys : UndoKey(t, k) BY <1>10 DEF UndoKey, Undone
  <1>11. CASE Lose(t) BY <1>11 DEF Lose
  <1>12. CASE Validated(t) BY <1>12 DEF Validated
  <1>13. CASE Apply(t) BY <1>13 DEF Apply
  <1>14. CASE CommitFails(t) BY <1>14 DEF CommitFails
  <1>15. CASE PreimageFails(t) BY <1>15 DEF PreimageFails
  <1>16. CASE EndCommit(t) BY <1>16 DEF EndCommit
  <1>17. CASE \E u \in Txns : LookAt(t, u) BY <1>17 DEF LookAt
  <1>18. CASE \E k \in Keys : RetainKey(t, k) BY <1>18 DEF RetainKey
  <1>19. CASE PruneEnds(t) BY <1>19 DEF PruneEnds
  <1> QED BY <1>1, <1>2, <1>3, <1>4, <1>5, <1>6, <1>7, <1>8, <1>9, <1>10, <1>11,
             <1>12, <1>13, <1>14, <1>15, <1>16, <1>17, <1>18, <1>19 DEF Step, CommitStep

\* The end of a transaction keeps the types.
LEMMA FinishTyped ==
  ASSUME Typed, NEW t \in Txns, NEW l \in PC, Finish(t, l)
  PROVE  /\ pc' \in [Txns -> PC] /\ snap' \in [Txns -> Nat]
         /\ writes' \in [Txns -> SUBSET Keys] /\ todo' \in [Txns -> SUBSET Keys]
         /\ registered' \subseteq Txns /\ rowLock' \in [Keys -> Txns \cup {None}]
  <1>1. pc' \in [Txns -> PC] BY DEF Typed, Finish, Goto
  <1>2. snap' \in [Txns -> Nat]
    <2>1. snap' = snap \/ snap' = [snap EXCEPT ![t] = 0] BY DEF Finish
    <2> QED BY <2>1 DEF Typed
  <1>3. {} \in SUBSET Keys OBVIOUS
  <1>4. writes' \in [Txns -> SUBSET Keys] BY <1>3 DEF Typed, Finish
  <1>5. todo' \in [Txns -> SUBSET Keys] BY <1>3 DEF Typed, Finish
  <1>6. registered' \subseteq Txns BY DEF Typed, Finish
  <1>7. rowLock' \in [Keys -> Txns \cup {None}] BY DEF Typed, Finish, Unlocked
  <1> QED BY <1>1, <1>2, <1>4, <1>5, <1>6, <1>7

\* Every step keeps the types.
LEMMA TypedStep ==
  ASSUME Inv, NEW t \in Txns, Step(t)
  PROVE  Typed'
  <1> USE DEF Inv, Typed, PC, Goto, registry, records, pruning
  <1>1. CASE Begin(t) BY <1>1 DEF Begin
  <1>2. CASE PassBarrier(t) BY <1>2 DEF PassBarrier
  <1>3. CASE RefreshSnapshot(t) BY <1>3 DEF RefreshSnapshot
  <1>4. CASE \E k \in Keys : Put(t, k) \/ Delete(t, k)
    <2>1. PICK k \in Keys : Put(t, k) \/ Delete(t, k) BY <1>4
    <2>2. writes[t] \cup {k} \in SUBSET Keys OBVIOUS
    <2>3. writes' \in [Txns -> SUBSET Keys] BY <2>1, <2>2 DEF Put, Delete
    <2>4. rowLock' \in [Keys -> Txns \cup {None}] BY <2>1 DEF Put, Delete
    <2> QED BY <2>1, <2>3, <2>4 DEF Put, Delete
  <1>5. CASE Rollback(t) BY <1>5, FinishTyped DEF Rollback
  <1>6. CASE Commit(t)
    <2>1. /\ todo' = [todo EXCEPT ![t] = writes[t]] /\ Goto(t, "validate")
          /\ cts' = [cts EXCEPT ![t] = snap[t]] \/ cts' = [cts EXCEPT ![t] = clock + 1]
          /\ clock' = clock \/ clock' = clock + 1
          /\ inflight' = inflight \/ inflight' = inflight \cup {clock + 1}
      BY <1>6 DEF Commit
    <2>2. snap[t] \in Nat /\ clock + 1 \in Nat OBVIOUS
    <2>3. clock' \in Nat BY <2>1, <2>2
    <2>4. cts' \in [Txns -> Nat] BY <2>1, <2>2
    <2>5. inflight' \subseteq Nat
      <3>1. \A c \in inflight' : c \in inflight \/ c = clock + 1 BY <2>1
      <3> QED BY <2>2, <3>1
    <2>6. todo' \in [Txns -> SUBSET Keys] BY <2>1
    <2> QED BY <1>6, <2>3, <2>4, <2>5, <2>6 DEF Commit
  <1>7. CASE CommitReadOnly(t) BY <1>7, FinishTyped DEF CommitReadOnly
  <1>8. CASE \E k \in Keys : RecordKey(t, k) BY <1>8 DEF RecordKey
  <1>9. CASE \E k \in Keys : Conflict(t, k) BY <1>9 DEF Conflict
  <1>10. CASE \E k \in Keys : UndoKey(t, k)
    <2>1. PICK k \in Keys : UndoKey(t, k) BY <1>10
    <2>2. recorded[t][k] \in Nat BY <2>1 DEF UndoKey
    <2>3. unprotected' \subseteq Txns BY <2>1 DEF UndoKey, Undone
    <2> QED BY <2>1, <2>2, <2>3 DEF UndoKey
  <1>11. CASE Lose(t) BY <1>11, FinishTyped DEF Lose
  <1>12. CASE Validated(t)
    <2>1. Keys \in SUBSET Keys /\ {u \in Txns : Validates(u)} \in SUBSET Txns OBVIOUS
    <2>2. todo' \in [Txns -> SUBSET Keys] /\ look' \in [Txns -> SUBSET Txns]
      <3>1. /\ todo' = todo \/ todo' = [todo EXCEPT ![t] = Keys]
            /\ look' = look \/ look' = [look EXCEPT ![t] = {u \in Txns : Validates(u)}]
        BY <1>12 DEF Validated
      <3>2. todo' \in [Txns -> SUBSET Keys] BY <2>1, <3>1
      <3>3. look' \in [Txns -> SUBSET Txns] BY <2>1, <3>1
      <3> QED BY <3>2, <3>3
    <2>3. pc' \in [Txns -> PC] BY <1>12 DEF Validated
    <2> QED BY <1>12, <2>2, <2>3 DEF Validated
  <1>13. CASE Apply(t) BY <1>13 DEF Apply
  <1>14. CASE CommitFails(t) BY <1>14, FinishTyped DEF CommitFails
  <1>15. CASE PreimageFails(t) BY <1>15, FinishTyped DEF PreimageFails
  <1>16. CASE EndCommit(t) BY <1>16, FinishTyped DEF EndCommit
  <1>17. CASE \E u \in Txns : LookAt(t, u)
    <2>1. PICK u \in Txns : LookAt(t, u) BY <1>17
    <2>2. look[t] \ {u} \in SUBSET Txns OBVIOUS
    <2>3. look' \in [Txns -> SUBSET Txns] BY <2>1, <2>2 DEF LookAt
    <2>4. oldest' \in [Txns -> Nat] /\ unprotected' \subseteq Txns BY <2>1 DEF LookAt
    <2> QED BY <2>1, <2>3, <2>4 DEF LookAt
  <1>18. CASE \E k \in Keys : RetainKey(t, k)
    <2>1. PICK k \in Keys : RetainKey(t, k) BY <1>18
    <2>2. todo[t] \ {k} \in SUBSET Keys OBVIOUS
    <2>3. todo' \in [Txns -> SUBSET Keys] BY <2>1, <2>2 DEF RetainKey
    <2>4. recent' \in [Keys -> Nat] BY <2>1 DEF RetainKey
    <2> QED BY <2>1, <2>3, <2>4 DEF RetainKey
  <1>19. CASE PruneEnds(t) BY <1>19 DEF PruneEnds
  <1> QED BY <1>1, <1>2, <1>3, <1>4, <1>5, <1>6, <1>7, <1>8, <1>9, <1>10,
             <1>11, <1>12, <1>13, <1>14, <1>15, <1>16, <1>17, <1>18, <1>19 DEF Step, CommitStep

\* The clock, and the snapshot and commit timestamp that a step gives t.
LEMMA Stamps ==
  ASSUME Inv, NEW t \in Txns, Step(t)
  PROVE  /\ clock' = clock \/ clock' = clock + 1
         /\ snap'[t] = snap[t] \/ snap'[t] = clock' \/ snap'[t] = 0
         /\ snap'[t] # snap[t] /\ snap'[t] # 0 /\ kind(t) = "auto" => clock' = clock + 1
         /\ snap'[t] # snap[t] => ~Past(t)' 
         /\ \/ cts'[t] = cts[t]
            \/ cts'[t] = snap[t] /\ kind(t) = "auto" /\ snap'[t] = snap[t]
            \/ cts'[t] = clock' /\ clock' = clock + 1
         /\ \/ inflight' = inflight
            \/ inflight' = inflight \ {cts[t]} /\ ~Committing(t)'
            \/ inflight' = inflight \cup {clock'} /\ clock' = clock + 1
  <1> USE DEF Inv, Typed, PC, Goto, Finish, registry, records, pruning, Past, Committing
  <1>1. CASE Begin(t) BY <1>1 DEF Begin
  <1>2. CASE PassBarrier(t) BY <1>2 DEF PassBarrier
  <1>3. CASE RefreshSnapshot(t) BY <1>3 DEF RefreshSnapshot
  <1>4. CASE \E k \in Keys : Put(t, k) \/ Delete(t, k) BY <1>4 DEF Put, Delete
  <1>5. CASE Rollback(t) BY <1>5 DEF Rollback
  <1>6. CASE Commit(t) BY <1>6 DEF Commit
  <1>7. CASE CommitReadOnly(t) BY <1>7 DEF CommitReadOnly
  <1>8. CASE \E k \in Keys : RecordKey(t, k) BY <1>8 DEF RecordKey
  <1>9. CASE \E k \in Keys : Conflict(t, k) BY <1>9 DEF Conflict
  <1>10. CASE \E k \in Keys : UndoKey(t, k) BY <1>10 DEF UndoKey, Undone
  <1>11. CASE Lose(t) BY <1>11 DEF Lose
  <1>12. CASE Validated(t) BY <1>12 DEF Validated
  <1>13. CASE Apply(t) BY <1>13 DEF Apply
  <1>14. CASE CommitFails(t) BY <1>14 DEF CommitFails
  <1>15. CASE PreimageFails(t) BY <1>15 DEF PreimageFails
  <1>16. CASE EndCommit(t) BY <1>16 DEF EndCommit
  <1>17. CASE \E u \in Txns : LookAt(t, u) BY <1>17 DEF LookAt
  <1>18. CASE \E k \in Keys : RetainKey(t, k) BY <1>18 DEF RetainKey
  <1>19. CASE PruneEnds(t) BY <1>19 DEF PruneEnds
  <1> QED BY <1>1, <1>2, <1>3, <1>4, <1>5, <1>6, <1>7, <1>8, <1>9, <1>10,
             <1>11, <1>12, <1>13, <1>14, <1>15, <1>16, <1>17, <1>18, <1>19 DEF Step, CommitStep

\* What a step does to the records of the keys.
LEMMA Records ==
  ASSUME Inv, NEW t \in Txns, Step(t)
  PROVE  \/ /\ recent' = recent /\ recorded' = recorded
            /\ unprotected' = unprotected \/ Begin(t) \/ \E u \in Txns : LookAt(t, u)
         \/ \E k \in Keys : RecordKey(t, k) \/ UndoKey(t, k)
         \/ \E k \in Keys : RetainKey(t, k)
         \/ Validated(t)
  BY DEF Step, CommitStep, Begin, PassBarrier, RefreshSnapshot, Put, Delete, Rollback,
         Commit, CommitReadOnly, Conflict, Lose, Apply, CommitFails, PreimageFails,
         EndCommit, LookAt, PruneEnds, registry, records, pruning

\* A transaction stays out of a prune pass's reach for good.
LEMMA StaysUnprotected ==
  ASSUME Inv, NEW t \in Txns, Step(t)
  PROVE  unprotected \subseteq unprotected'
  BY DEF Step, CommitStep, Begin, PassBarrier, RefreshSnapshot, Put, Delete, Rollback,
         Commit, CommitReadOnly, RecordKey, Conflict, UndoKey, Undone, Lose, Validated,
         LookAt, RetainKey, PruneEnds, Apply, CommitFails, PreimageFails, EndCommit,
         registry, records

\* The least snapshot a prune pass has seen was drawn.
LEMMA OldestStep ==
  ASSUME Inv, NEW t \in Txns, Step(t)
  PROVE  \A u \in Txns : \/ oldest'[u] = oldest[u] \/ oldest'[u] = 0
                          \/ \E v \in Txns : oldest'[u] = snap[v]
  <1> USE DEF Inv, Typed
  <1>1. CASE \E u \in Txns : LookAt(t, u) BY <1>1 DEF LookAt
  <1>2. CASE PruneEnds(t) BY <1>2 DEF PruneEnds
  <1>3. oldest' = oldest \/ (\E u \in Txns : LookAt(t, u)) \/ PruneEnds(t)
    BY DEF Step, CommitStep, Begin, PassBarrier, RefreshSnapshot, Put, Delete, Rollback,
           Commit, CommitReadOnly, RecordKey, Conflict, UndoKey, Lose, Validated,
           RetainKey, Apply, CommitFails, PreimageFails, EndCommit, registry, records,
           pruning
  <1> QED BY <1>1, <1>2, <1>3

\* No timestamp is ahead of the clock.
LEMMA DrawnStep ==
  ASSUME Inv, NEW t \in Txns, Step(t)
  PROVE  Drawn'
  <1> USE DEF Inv
  <1>1. clock' = clock \/ clock' = clock + 1 BY Stamps
  <1>2. \A x \in Nat \cup {Unrecorded} : x <= clock => x <= clock'
    BY <1>1 DEF Typed, Unrecorded
  <1>3. 0 <= clock' /\ clock' <= clock' BY <1>1 DEF Typed
  <1>4. ASSUME NEW u \in Txns PROVE snap'[u] <= clock' /\ cts'[u] <= clock'
    <2>1. /\ snap[u] <= clock' /\ cts[u] <= clock'
      BY <1>2 DEF Typed, Drawn
    <2>2. CASE u # t
      <3>1. snap'[u] = snap[u] /\ cts'[u] = cts[u] BY <2>2, Frame DEF Same
      <3> QED BY <2>1, <3>1
    <2>3. CASE u = t
      <3>1. snap'[t] = snap[t] \/ snap'[t] = clock' \/ snap'[t] = 0 BY Stamps
      <3>2. cts'[t] = cts[t] \/ cts'[t] = snap[t] \/ cts'[t] = clock' BY Stamps
      <3> QED BY <1>3, <2>1, <2>3, <3>1, <3>2
    <2> QED BY <2>2, <2>3
  <1>5. \A c \in inflight' : 0 < c /\ c <= clock'
    <2>1. \A c \in inflight : 0 < c /\ c <= clock' BY <1>2 DEF Drawn, Typed
    <2>2. \A c \in inflight' : c \in inflight \/ (c = clock' /\ clock' = clock + 1) BY Stamps
    <2>3. clock' = clock + 1 => 0 < clock' BY DEF Typed
    <2> QED BY <1>3, <2>1, <2>2, <2>3
  <1>6. \A k \in Keys : recent[k] <= clock' BY <1>2 DEF Drawn, Typed
  <1>7. \A u \in Txns, k \in Keys : recorded[u][k] <= clock'
    <2>1. \A u \in Txns, k \in Keys : recorded[u][k] \in Nat \cup {Unrecorded}
      BY DEF Typed
    <2> QED BY <1>2, <2>1 DEF Drawn
  <1>8. /\ \A k \in Keys : recent'[k] <= clock'
        /\ \A u \in Txns, k \in Keys : recorded'[u][k] <= clock'
    <2>1. CASE recent' = recent /\ recorded' = recorded BY <1>6, <1>7, <2>1
    <2>2. ASSUME NEW k \in Keys, RecordKey(t, k) PROVE <1>8
      <3>1. /\ recent' = [recent EXCEPT ![k] = cts[t]]
            /\ recorded' = [recorded EXCEPT ![t][k] = recent[k]]
        BY <2>2 DEF RecordKey
      <3>2. cts[t] <= clock' BY <1>2 DEF Drawn, Typed
      <3> QED BY <1>6, <1>7, <3>1, <3>2 DEF Typed
    <2>3. ASSUME NEW k \in Keys, UndoKey(t, k) PROVE <1>8
      <3>1. /\ recent' = [recent EXCEPT ![k] = recorded[t][k]]
            /\ recorded' = [recorded EXCEPT ![t][k] = Unrecorded]
        BY <2>3 DEF UndoKey
      <3>2. Unrecorded <= clock' BY <1>2, <1>3 DEF Typed, Unrecorded
      <3> QED BY <1>6, <1>7, <3>1, <3>2 DEF Typed
    <2>4. CASE Validated(t)
      <3>1. /\ recent' = recent
            /\ recorded' = [recorded EXCEPT ![t] = [k \in Keys |-> Unrecorded]]
        BY <2>4 DEF Validated
      <3>2. Unrecorded <= clock' BY <1>2, <1>3 DEF Typed, Unrecorded
      <3> QED BY <1>6, <1>7, <3>1, <3>2 DEF Typed
    <2>5. ASSUME NEW k \in Keys, RetainKey(t, k) PROVE <1>8
      <3>1. /\ recent' = [recent EXCEPT ![k] = 0] \/ recent' = recent
            /\ recorded' = recorded
        BY <2>5 DEF RetainKey
      <3> QED BY <1>3, <1>6, <1>7, <3>1 DEF Typed
    <2> QED BY <2>1, <2>2, <2>3, <2>4, <2>5, Records
  <1>9. \A k \in Keys : \A v \in versions'[k] : 0 < v /\ v <= clock'
    <2>1. \A k \in Keys : \A v \in versions[k] : 0 < v /\ v <= clock'
      BY <1>2 DEF Drawn, Typed
    <2>2. CASE versions' = versions BY <2>1, <2>2
    <2>3. CASE Apply(t)
      <3>1. versions' = [k \in Keys |-> IF k \in writes[t] THEN versions[k] \cup {cts[t]}
                                                           ELSE versions[k]]
        BY <2>3 DEF Apply
      <3>2. 0 < cts[t] /\ cts[t] <= clock'
        BY <1>2, <2>3 DEF Apply, Phases, Phase, Committing, Drawn, Typed
      <3> QED BY <2>1, <3>1, <3>2
    <2> QED BY <2>2, <2>3
            DEF Step, CommitStep, Begin, PassBarrier, RefreshSnapshot, Put, Delete,
                Rollback, Commit, CommitReadOnly, RecordKey, Conflict, UndoKey, Lose,
                Validated, LookAt, RetainKey, PruneEnds, CommitFails, PreimageFails,
                EndCommit
  <1>10. \A u \in Txns : oldest'[u] <= clock'
    <2>1. \A u \in Txns : oldest[u] <= clock' /\ snap[u] <= clock'
      BY <1>2 DEF Drawn, Typed
    <2> QED BY <1>3, <2>1, OldestStep
  <1> QED BY <1>4, <1>5, <1>8, <1>9, <1>10 DEF Drawn

-----------------------------------------------------------------------------
(* The transactions' phases and timestamps.                                *)

\* Timestamps of different transactions stay different.
LEMMA DistinctStep ==
  ASSUME Inv, NEW t \in Txns, Step(t)
  PROVE  Distinct'
  <1> USE DEF Inv
  <1>1. clock \in Nat BY DEF Typed
  <1>2. \A u \in Txns : kind(u)' = kind(u) BY Frame DEF kind
  <1>3. ASSUME NEW u \in Txns, u # t PROVE Own(u)' = Own(u)
    BY <1>2, <1>3, Frame DEF Own, Same
  <1>4. \A a \in Own(t)' : a \in Own(t) \/ a = 0 \/ a = clock + 1
    <2>1. \A a \in Own(t)' : a = cts'[t] \/ (a = snap'[t] /\ kind(t) = "auto")
      BY <1>2 DEF Own
    <2>2. cts'[t] \in Own(t) \/ cts'[t] = clock + 1 BY Stamps DEF Own
    <2>3. kind(t) = "auto" => snap'[t] \in Own(t) \/ snap'[t] = 0 \/ snap'[t] = clock + 1
      BY Stamps DEF Own
    <2> QED BY <2>1, <2>2, <2>3
  <1>5. \A u \in Txns : \A a \in Own(u) : a # clock + 1
    <2>1. \A u \in Txns : \A a \in Own(u) : a \in Nat /\ a <= clock
      BY DEF Own, Drawn, Typed
    <2> QED BY <1>1, <2>1
  <1>6. ASSUME NEW u \in Txns, u # t PROVE \A a \in Own(t)' \cap Own(u)' : a = 0
    BY <1>3, <1>4, <1>5, <1>6 DEF Distinct
  <1>7. ASSUME NEW u \in Txns, NEW v \in Txns, u # v PROVE \A a \in Own(u)' \cap Own(v)' : a = 0
    <2>1. CASE u = t BY <1>6, <1>7, <2>1
    <2>2. CASE v = t BY <1>6, <1>7, <2>2
    <2>3. CASE u # t /\ v # t BY <1>3, <1>7, <2>3 DEF Distinct
    <2> QED BY <2>1, <2>2, <2>3
  <1> QED BY <1>7 DEF Distinct

\* A snapshot past the barrier stays below the announced commits.
LEMMA BarrierStep ==
  ASSUME Inv, NEW t \in Txns, Step(t)
  PROVE  Barrier'
  <1> USE DEF Inv
  <1>1. clock \in Nat /\ \A u \in Txns : snap[u] \in Nat /\ snap[u] <= clock
    BY DEF Typed, Drawn
  <1>2. \A c \in inflight' : c \in inflight \/ c = clock + 1 BY Stamps
  <1>3. \A u \in Txns : Past(u) => \A c \in inflight' : snap[u] < c
    BY <1>1, <1>2 DEF Barrier
  <1>4. ASSUME NEW u \in Txns, u # t, Past(u)' PROVE \A c \in inflight' : snap'[u] < c
    BY <1>3, <1>4, Frame DEF Same, Past
  <1>5. ASSUME Past(t)' PROVE \A c \in inflight' : snap'[t] < c
    <2>1. snap'[t] = snap[t] BY <1>5, Stamps
    <2>2. CASE Past(t) BY <1>3, <2>1, <2>2
    <2>3. CASE PassBarrier(t)
      <3>1. inflight' = inflight /\ \A c \in inflight : c > snap[t] BY <2>3 DEF PassBarrier
      <3>2. \A c \in inflight : c \in Nat BY DEF Typed
      <3> QED BY <1>1, <2>1, <3>1, <3>2
    <2>4. Past(t) \/ PassBarrier(t) \/ Begin(t)
      BY DEF Step, CommitStep, Past, RefreshSnapshot, Put, Delete, Rollback, Commit,
             CommitReadOnly, RecordKey, Conflict, UndoKey, Lose, Validated, LookAt,
             RetainKey, PruneEnds, Apply, CommitFails, PreimageFails, EndCommit
    <2>5. ~Begin(t) BY <1>5 DEF Begin, Goto, Past, Typed
    <2> QED BY <2>2, <2>3, <2>4, <2>5
  <1> QED BY <1>4, <1>5 DEF Barrier

\* An announcement is withdrawn by nobody else.
LEMMA StaysAnnounced ==
  ASSUME Inv, NEW t \in Txns, Step(t), NEW u \in Txns, u # t, 0 < cts[u],
         cts[u] \in inflight
  PROVE  cts[u] \in inflight'
  <1> USE DEF Inv
  <1>1. cts[u] \in Own(u) /\ cts[t] \in Own(t) BY DEF Own
  <1>2. cts[u] # 0 BY DEF Typed
  <1>3. cts[u] # cts[t] BY <1>1, <1>2 DEF Distinct
  <1> QED BY <1>3, Stamps

\* The phases of the others.
LEMMA OthersPhases ==
  ASSUME Inv, NEW t \in Txns, Step(t), NEW u \in Txns, u # t
  PROVE  Phase(u)' /\ Book(u)'
  <1> USE DEF Inv
  <1>1. workload' = workload /\ Same(u) BY Frame
  <1>2. Phase(u) /\ Book(u) BY DEF Phases
  <1>3. Committing(u) /\ kind(u) # "auto" => cts[u] \in inflight'
    BY <1>2, StaysAnnounced DEF Phase
  <1>4. Phase(u)'
    BY <1>1, <1>2, <1>3 DEF Same, Phase, Begun, Past, Committing, Validates, kind
  <1>5. Book(u)' BY <1>1, <1>2 DEF Same, Book, Validates, kind
  <1> QED BY <1>4, <1>5

\* What the end of a transaction leaves of it.
LEMMA FinishPhases ==
  ASSUME Inv, NEW t \in Txns, NEW l \in {"committed", "aborted", "lost"}, Finish(t, l),
         workload' = workload, cts' = cts, recorded' = recorded,
         \A k \in Keys : recorded[t][k] = Unrecorded,
         l = "lost" => Validates(t) /\ 0 < cts[t]
  PROVE  Phase(t)' /\ Book(t)'
  <1> USE DEF Inv
  <1>1. /\ pc'[t] = l /\ t \notin registered'
        /\ snap'[t] = snap[t] \/ snap'[t] = 0
        /\ writes'[t] \subseteq writes[t]
    BY DEF Finish, Goto, Typed
  <1>2. Phase(t) BY DEF Phases
  <1>3. Phase(t)'
    BY <1>1, <1>2 DEF Phase, Begun, Past, Committing, Validates, kind
  <1>4. snap[t] \in Nat BY DEF Typed
  <1>5. Unrecorded <= snap[t] /\ Unrecorded <= 0 BY <1>4 DEF Unrecorded
  <1>6. Book(t)' BY <1>1, <1>5 DEF Book
  <1> QED BY <1>3, <1>6

\* The phase of the transaction that takes the step.
LEMMA OwnPhase ==
  ASSUME Inv, NEW t \in Txns, Step(t)
  PROVE  Phase(t)' /\ Book(t)'
  <1> USE DEF Inv
  <1>1. workload' = workload BY Frame
  <1>2. Phase(t) /\ Book(t) BY DEF Phases
  <1>3. /\ Validates(t)' <=> Validates(t)
        /\ kind(t)' = kind(t)
        /\ Validates(t) => kind(t) # "auto" /\ kind(t) # "read"
    BY <1>1 DEF Validates, kind
  <1>4. clock \in Nat /\ snap[t] \in Nat /\ cts[t] \in Nat /\ snap[t] <= clock
    BY DEF Typed, Drawn
  <1>5. \A k \in Keys : recorded[t][k] \in Nat \cup {Unrecorded} BY DEF Typed
  <1>6. \A x \in Nat : Unrecorded <= x BY DEF Unrecorded
  <1>7. CASE Begin(t)
    <2>1. /\ pc[t] = "idle" /\ pc'[t] = "begin" /\ snap'[t] = clock + 1
          /\ cts'[t] = cts[t] /\ writes'[t] = writes[t] /\ recorded'[t] = recorded[t]
          /\ registered' = registered
      BY <1>7 DEF Begin, Goto, Typed, registry, records, pruning
    <2>2. 0 < clock + 1 /\ clock + 1 \in Nat BY <1>4
    <2>3. Phase(t)' BY <1>1, <1>2, <1>3, <2>1, <2>2 DEF Phase, Begun, Past, Committing
    <2>4. Book(t)' BY <1>2, <1>3, <1>6, <2>1, <2>2 DEF Book
    <2> QED BY <2>3, <2>4
  <1>8. CASE PassBarrier(t)
    <2>1. /\ pc[t] = "begin" /\ pc'[t] = "active" /\ snap'[t] = snap[t]
          /\ cts'[t] = cts[t] /\ writes'[t] = writes[t] /\ recorded'[t] = recorded[t]
          /\ registered' = IF Validates(t) THEN registered \cup {t} ELSE registered
      BY <1>8 DEF PassBarrier, Goto, Typed
    <2>2. Phase(t)' BY <1>1, <1>2, <1>3, <2>1 DEF Phase, Begun, Past, Committing
    <2>3. Book(t)' BY <1>2, <1>3, <2>1 DEF Book
    <2> QED BY <2>2, <2>3
  <1>9. CASE RefreshSnapshot(t)
    <2>1. /\ pc[t] = "active" /\ pc'[t] = "begin" /\ snap'[t] = clock /\ snap[t] < clock
          /\ cts'[t] = cts[t] /\ writes'[t] = writes[t] /\ recorded'[t] = recorded[t]
          /\ registered' = registered /\ kind(t) = "read"
      BY <1>9 DEF RefreshSnapshot, Goto, Typed, registry, records, pruning
    <2>2. 0 < clock /\ ~Validates(t) BY <1>3, <1>4, <2>1
    <2>3. Phase(t)' BY <1>1, <1>2, <1>3, <2>1, <2>2 DEF Phase, Begun, Past, Committing
    <2>4. Book(t)' BY <1>2, <1>3, <2>1, <2>2 DEF Book
    <2> QED BY <2>3, <2>4
  <1>10. CASE \E k \in Keys : Put(t, k) \/ Delete(t, k)
    <2>1. PICK k \in Keys : Put(t, k) \/ Delete(t, k) BY <1>10
    <2>2. /\ pc[t] = "active" /\ pc' = pc /\ snap' = snap /\ k \in workload.rows[t]
          /\ cts' = cts /\ writes'[t] = writes[t] \cup {k} /\ recorded' = recorded
          /\ registered' = registered /\ inflight' = inflight
      BY <2>1 DEF Put, Delete, Typed, registry, records, pruning
    <2>3. Phase(t)' BY <1>1, <1>2, <1>3, <2>2 DEF Phase, Begun, Past, Committing
    <2>4. Book(t)' BY <1>2, <1>3, <2>2 DEF Book
    <2> QED BY <2>3, <2>4
  <1>11. CASE Rollback(t)
    <2>1. /\ pc[t] = "active" /\ Finish(t, "aborted") /\ cts' = cts /\ recorded' = recorded
      BY <1>11 DEF Rollback
    <2>2. \A k \in Keys : recorded[t][k] = Unrecorded BY <1>2, <2>1 DEF Book
    <2> QED BY <1>1, <2>1, <2>2, FinishPhases
  <1>12. CASE CommitReadOnly(t)
    <2>1. /\ pc[t] = "active" /\ Finish(t, "committed") /\ cts' = cts /\ recorded' = recorded
      BY <1>12 DEF CommitReadOnly
    <2>2. \A k \in Keys : recorded[t][k] = Unrecorded BY <1>2, <2>1 DEF Book
    <2> QED BY <1>1, <2>1, <2>2, FinishPhases
  <1>13. CASE Commit(t)
    <2>1. /\ pc[t] = "active" /\ pc'[t] = "validate" /\ snap' = snap /\ writes' = writes
          /\ todo'[t] = writes[t] /\ recorded' = recorded /\ registered' = registered
          /\ kind(t) = "auto" => cts'[t] = snap[t]
          /\ kind(t) # "auto" => cts'[t] = clock + 1 /\ clock + 1 \in inflight'
      BY <1>13 DEF Commit, Goto, Typed, registry, records, pruning
    <2>2. snap[t] < clock + 1 /\ 0 < clock + 1 BY <1>4
    <2>3. Phase(t)' BY <1>1, <1>2, <1>3, <2>1, <2>2 DEF Phase, Begun, Past, Committing
    <2>4. Book(t)' BY <1>2, <1>3, <2>1 DEF Book
    <2> QED BY <2>3, <2>4
  <1>14. CASE \E k \in Keys : RecordKey(t, k)
    <2>1. PICK k \in Keys : RecordKey(t, k) BY <1>14
    <2>2. /\ pc[t] = "validate" /\ pc' = pc /\ snap' = snap /\ writes' = writes
          /\ cts' = cts /\ registered' = registered /\ inflight' = inflight
          /\ todo'[t] = todo[t] \ {k} /\ k \in todo[t]
          /\ recorded'[t] = [recorded[t] EXCEPT ![k] = recent[k]]
          /\ ~(Validates(t) /\ recent[k] > snap[t])
      BY <2>1 DEF RecordKey, Typed
    <2>3. /\ recorded'[t][k] = recent[k]
          /\ \A j \in Keys : j # k => recorded'[t][j] = recorded[t][j]
      BY <2>2 DEF Typed
    <2>4. recent[k] \in Nat /\ recent[k] # Unrecorded BY DEF Typed, Unrecorded
    <2>5. Validates(t) => recent[k] <= snap[t] BY <1>4, <2>2, <2>4
    <2>6. Phase(t)' BY <1>1, <1>2, <1>3, <2>2 DEF Phase, Begun, Past, Committing
    <2>7. k \in writes[t] /\ todo'[t] \subseteq writes[t] BY <1>2, <2>2 DEF Book
    <2>8. Book(t)'
      <3>1. \A j \in Keys : recorded'[t][j] # Unrecorded <=> j \in writes'[t] \ todo'[t]
        BY <1>2, <2>2, <2>3, <2>4, <2>7 DEF Book
      <3>2. Validates(t) => \A j \in Keys : recorded'[t][j] <= snap[t]
        BY <1>2, <2>3, <2>5 DEF Book
      <3> QED BY <1>3, <2>2, <2>7, <3>1, <3>2 DEF Book
    <2> QED BY <2>6, <2>8
  <1>15. CASE \E k \in Keys : Conflict(t, k)
    <2>1. /\ pc[t] = "validate" /\ pc'[t] = "undo" /\ snap' = snap /\ writes' = writes
          /\ cts' = cts /\ registered' = registered /\ inflight' = inflight
          /\ recorded' = recorded /\ Validates(t)
      BY <1>15 DEF Conflict, Goto, Typed, registry, records, pruning
    <2>2. Phase(t)' BY <1>1, <1>2, <1>3, <2>1 DEF Phase, Begun, Past, Committing
    <2>3. Book(t)' BY <1>2, <1>3, <2>1 DEF Book
    <2> QED BY <2>2, <2>3
  <1>16. CASE \E k \in Keys : UndoKey(t, k)
    <2>1. PICK k \in Keys : UndoKey(t, k) BY <1>16
    <2>2. /\ pc[t] = "undo" /\ pc' = pc /\ snap' = snap /\ writes' = writes
          /\ cts' = cts /\ registered' = registered /\ inflight' = inflight
          /\ \A j \in Keys : recorded'[t][j] = IF j = k THEN Unrecorded ELSE recorded[t][j]
      BY <2>1 DEF UndoKey, Typed
    <2>3. Phase(t)' BY <1>1, <1>2, <1>3, <2>2 DEF Phase, Begun, Past, Committing
    <2>4. Book(t)' BY <1>2, <1>3, <1>4, <1>6, <2>2 DEF Book
    <2> QED BY <2>3, <2>4
  <1>17. CASE Lose(t)
    <2>1. /\ pc[t] = "undo" /\ Finish(t, "lost") /\ cts' = cts /\ recorded' = recorded
          /\ \A k \in Keys : recorded[t][k] = Unrecorded
      BY <1>17 DEF Lose
    <2>2. Validates(t) /\ 0 < cts[t] BY <1>2, <2>1 DEF Phase, Committing
    <2> QED BY <1>1, <2>1, <2>2, FinishPhases
  <1>18. CASE Validated(t)
    <2>1. /\ pc[t] = "validate" /\ pc'[t] \in {"prune", "apply"} /\ snap' = snap
          /\ writes' = writes /\ cts' = cts /\ registered' = registered
          /\ inflight' = inflight /\ \A k \in Keys : recorded'[t][k] = Unrecorded
      BY <1>18 DEF Validated, Goto, Typed
    <2>2. Phase(t)' BY <1>1, <1>2, <1>3, <2>1 DEF Phase, Begun, Past, Committing
    <2>3. Book(t)' BY <1>3, <1>4, <1>6, <2>1 DEF Book
    <2> QED BY <2>2, <2>3
  <1>19. CASE Apply(t)
    <2>1. /\ pc[t] = "apply" /\ pc'[t] = "end" /\ snap' = snap /\ writes' = writes
          /\ cts' = cts /\ registered' = registered /\ inflight' = inflight
          /\ recorded' = recorded
      BY <1>19 DEF Apply, Goto, Typed, registry, records, pruning
    <2>2. Phase(t)' BY <1>1, <1>2, <1>3, <2>1 DEF Phase, Begun, Past, Committing
    <2>3. Book(t)' BY <1>2, <1>3, <2>1 DEF Book
    <2> QED BY <2>2, <2>3
  <1>20. CASE CommitFails(t) \/ PreimageFails(t)
    <2>1. /\ pc[t] = "apply" /\ Finish(t, "aborted") /\ cts' = cts /\ recorded' = recorded
      BY <1>20 DEF CommitFails, PreimageFails
    <2>2. \A k \in Keys : recorded[t][k] = Unrecorded BY <1>2, <2>1 DEF Book
    <2> QED BY <1>1, <2>1, <2>2, FinishPhases
  <1>21. CASE EndCommit(t)
    <2>1. /\ pc[t] = "end" /\ Finish(t, "committed") /\ cts' = cts /\ recorded' = recorded
      BY <1>21 DEF EndCommit
    <2>2. \A k \in Keys : recorded[t][k] = Unrecorded BY <1>2, <2>1 DEF Book
    <2> QED BY <1>1, <2>1, <2>2, FinishPhases
  <1>22. CASE \/ \E u \in Txns : LookAt(t, u)
              \/ \E k \in Keys : RetainKey(t, k)
              \/ PruneEnds(t)
    <2>1. /\ pc[t] = "prune" /\ pc'[t] \in {"prune", "apply"} /\ snap' = snap
          /\ writes' = writes /\ cts' = cts /\ registered' = registered
          /\ inflight' = inflight /\ recorded' = recorded
      BY <1>22 DEF LookAt, RetainKey, PruneEnds, Goto, Typed
    <2>2. Phase(t)' BY <1>1, <1>2, <1>3, <2>1 DEF Phase, Begun, Past, Committing
    <2>3. Book(t)' BY <1>2, <1>3, <2>1 DEF Book
    <2> QED BY <2>2, <2>3
  <1> QED BY <1>7, <1>8, <1>9, <1>10, <1>11, <1>12, <1>13, <1>14, <1>15, <1>16,
             <1>17, <1>18, <1>19, <1>20, <1>21, <1>22 DEF Step, CommitStep

\* Transactions past the barrier have older snapshots than any other commit
\* that is under way.
LEMMA Behind ==
  ASSUME Inv, NEW t \in Txns, NEW u \in Txns, Past(t), Committing(u), kind(u) # "auto"
  PROVE  snap[t] < cts[u]
  BY DEF Inv, Phases, Phase, Barrier

\* Commit timestamps are positive once drawn, and belong to one transaction.
LEMMA Apart ==
  ASSUME Inv, NEW t \in Txns, NEW u \in Txns, t # u, 0 < cts[t]
  PROVE  cts[t] # cts[u]
  <1>1. cts[t] # 0 /\ cts[t] \in Own(t) /\ cts[u] \in Own(u) BY DEF Inv, Typed, Own
  <1> QED BY <1>1 DEF Inv, Distinct

-----------------------------------------------------------------------------
(* Losers leave no trace.                                                  *)

\* An undo that interleaves with other commits puts back nothing of a loser.
LEMMA TracesStep ==
  ASSUME Inv, NEW t \in Txns, Step(t)
  PROVE  Traces'
  <1> USE DEF Inv
  <1>1. workload' = workload BY Frame
  <1>2. \A u \in Txns : (Validates(u)' <=> Validates(u)) /\ (Validates(u) => kind(u) # "auto")
    BY <1>1 DEF Validates, kind
  <1>3. \A u \in Txns : u # t =>
          /\ pc'[u] = pc[u] /\ cts'[u] = cts[u] /\ recorded'[u] = recorded[u]
    BY Frame DEF Same
  <1>4. \A u \in Txns : Committing(u) \/ pc[u] = "lost" => 0 < cts[u]
    BY DEF Phases, Phase
  <1>5. \A u \in Txns : cts[u] \in Nat /\ cts[u] # Unrecorded BY DEF Typed, Unrecorded
  <1>6. \A k \in Keys : recent[k] \in Nat /\ recent[k] # Unrecorded BY DEF Typed, Unrecorded
  <1>7. \A u \in Txns, k \in Keys :
          Validates(u) /\ recorded[u][k] # Unrecorded =>
            Past(u) /\ recorded[u][k] \in Nat /\ recorded[u][k] <= snap[u]
    <2>1. \A u \in Txns, k \in Keys : recorded[u][k] \in Nat \cup {Unrecorded} BY DEF Typed
    <2> QED BY <2>1 DEF Phases, Book, Past
  <1>8. ASSUME NEW u \in Txns, NEW v \in Txns, NEW k \in Keys,
               Validates(u), recorded[u][k] # Unrecorded, Validates(v), Committing(v)
        PROVE  recorded[u][k] # cts[v]
    <2>1. snap[u] < cts[v] BY <1>2, <1>7, <1>8, Behind
    <2>2. recorded[u][k] \in Nat /\ recorded[u][k] <= snap[u] BY <1>7, <1>8
    <2>3. snap[u] \in Nat /\ cts[v] \in Nat BY DEF Typed
    <2> QED BY <2>1, <2>2, <2>3
  <1>9. ASSUME NEW u \in Txns, NEW k \in Keys
        PROVE  /\ Validates(u) /\ pc'[u] \in {"validate", "undo"} /\ recent'[k] = cts'[u] =>
                    recorded'[u][k] # Unrecorded
               /\ pc'[u] = "lost" =>
                    /\ recent'[k] # cts'[u]
                    /\ \A v \in Txns : Validates(v) => recorded'[v][k] # cts'[u]
    <2> DEFINE Kept ==
               /\ Validates(u) /\ pc'[u] \in {"validate", "undo"} /\ recent'[k] = cts'[u] =>
                    recorded'[u][k] # Unrecorded
               /\ pc'[u] = "lost" =>
                    /\ recent'[k] # cts'[u]
                    /\ \A v \in Txns : Validates(v) => recorded'[v][k] # cts'[u]
    <2>1. /\ Validates(u) /\ pc[u] \in {"validate", "undo"} /\ recent[k] = cts[u] =>
               recorded[u][k] # Unrecorded
          /\ pc[u] = "lost" =>
               /\ recent[k] # cts[u]
               /\ \A v \in Txns : Validates(v) => recorded[v][k] # cts[u]
      BY DEF Traces
    <2>2. CASE recent' = recent /\ recorded' = recorded
      <3>1. CASE u # t BY <1>3, <2>1, <2>2, <3>1
      <3>2. CASE u = t
        <4>1. \/ pc'[t] = pc[t] /\ cts'[t] = cts[t]
              \/ pc'[t] \notin {"validate", "undo", "lost"}
              \/ Commit(t) \/ (\E j \in Keys : Conflict(t, j)) \/ Lose(t)
          BY DEF Step, CommitStep, Begin, PassBarrier, RefreshSnapshot, Put, Delete,
                 Rollback, CommitReadOnly, RecordKey, UndoKey, Validated, LookAt,
                 RetainKey, PruneEnds, Apply, CommitFails, PreimageFails, EndCommit,
                 Finish, Goto, Typed
        <4>2. CASE pc'[t] = pc[t] /\ cts'[t] = cts[t] BY <2>1, <2>2, <3>2, <4>2
        <4>3. CASE pc'[t] \notin {"validate", "undo", "lost"} BY <3>2, <4>3
        <4>4. CASE Commit(t)
          <5>1. pc'[t] = "validate" /\ (kind(t) # "auto" => cts'[t] = clock + 1)
            BY <4>4 DEF Commit, Goto, Typed
          <5>2. recent[k] # clock + 1 BY DEF Drawn, Typed
          <5> QED BY <1>2, <2>2, <3>2, <5>1, <5>2
        <4>5. CASE \E j \in Keys : Conflict(t, j)
          <5>1. pc[t] = "validate" /\ pc'[t] = "undo" /\ cts'[t] = cts[t]
            BY <4>5 DEF Conflict, Goto, Typed
          <5> QED BY <2>1, <2>2, <3>2, <5>1
        <4>6. CASE Lose(t)
          <5>1. /\ pc[t] = "undo" /\ cts'[t] = cts[t] /\ pc'[t] = "lost"
                /\ \A j \in Keys : recorded[t][j] = Unrecorded
            BY <4>6 DEF Lose, Finish, Goto, Typed
          <5>2. Validates(t) /\ Committing(t) BY <5>1 DEF Phases, Phase, Committing
          <5>3. recent[k] # cts[t] BY <2>1, <3>2, <5>1, <5>2
          <5>4. \A v \in Txns : Validates(v) => recorded[v][k] # cts[t]
            BY <1>5, <1>8, <5>2
          <5> QED BY <2>2, <3>2, <5>1, <5>3, <5>4
        <4> QED BY <4>1, <4>2, <4>3, <4>4, <4>5, <4>6
      <3> QED BY <3>1, <3>2
    <2>3. ASSUME NEW j \in Keys, RecordKey(t, j) PROVE Kept
      <3>1. /\ recent'[j] = cts[t] /\ \A i \in Keys : i # j => recent'[i] = recent[i]
            /\ recorded'[t][j] = recent[j] /\ pc' = pc /\ cts' = cts
            /\ \A i \in Keys : i # j => recorded'[t][i] = recorded[t][i]
            /\ pc[t] = "validate"
        BY <2>3 DEF RecordKey, Typed
      <3>2. pc[u] \in {"validate", "undo", "lost"} /\ u # t => cts[u] # cts[t]
        BY <1>4, Apart DEF Committing
      <3>3. CASE k = j
        <4>1. CASE u = t BY <1>6, <3>1, <3>3, <4>1
        <4>2. CASE u # t
          <5>1. pc[u] = "lost" => \A v \in Txns : Validates(v) => recorded'[v][k] # cts[u]
            BY <1>3, <2>1, <3>1, <3>3
          <5> QED BY <1>3, <3>1, <3>2, <3>3, <4>2, <5>1
        <4> QED BY <4>1, <4>2
      <3>4. CASE k # j
        <4>1. \A v \in Txns : recorded'[v][k] = recorded[v][k] BY <1>3, <3>1, <3>4
        <4> QED BY <2>1, <3>1, <3>4, <4>1
      <3> QED BY <3>3, <3>4
    <2>4. ASSUME NEW j \in Keys, UndoKey(t, j) PROVE Kept
      <3>1. /\ recent'[j] = recorded[t][j] /\ \A i \in Keys : i # j => recent'[i] = recent[i]
            /\ recorded'[t][j] = Unrecorded /\ pc' = pc /\ cts' = cts
            /\ \A i \in Keys : i # j => recorded'[t][i] = recorded[t][i]
            /\ pc[t] = "undo" /\ recorded[t][j] # Unrecorded
        BY <2>4 DEF UndoKey, Typed
      <3>2. Validates(t) BY <3>1 DEF Phases, Phase
      <3>3. CASE k = j
        <4>1. Validates(u) /\ pc[u] \in {"validate", "undo"} => recorded[t][j] # cts[u]
          BY <1>8, <3>1, <3>2 DEF Committing
        <4>2. pc[u] = "lost" => \A v \in Txns : Validates(v) => recorded'[v][k] # cts[u]
          BY <1>3, <1>5, <2>1, <3>1, <3>3
        <4>3. pc[u] = "lost" => recorded[t][j] # cts[u] BY <2>1, <3>2, <3>3
        <4> QED BY <3>1, <3>3, <4>1, <4>2, <4>3
      <3>4. CASE k # j
        <4>1. \A v \in Txns : recorded'[v][k] = recorded[v][k] BY <1>3, <3>1, <3>4
        <4> QED BY <2>1, <3>1, <3>4, <4>1
      <3> QED BY <3>3, <3>4
    <2>5. CASE Validated(t)
      <3>1. /\ recent'[k] = recent[k]
            /\ recorded'[t][k] = Unrecorded /\ pc'[t] \in {"prune", "apply"} /\ cts' = cts
        BY <2>5 DEF Validated, Goto, Typed
      <3>2. CASE u = t BY <3>1, <3>2
      <3>3. CASE u # t
        <4>1. pc[u] = "lost" => \A v \in Txns : Validates(v) => recorded'[v][k] # cts[u]
          BY <1>3, <1>5, <2>1, <3>1
        <4> QED BY <1>3, <2>1, <3>1, <3>3, <4>1
      <3> QED BY <3>2, <3>3
    <2>6. CASE \E j \in Keys : RetainKey(t, j)
      <3>1. /\ recent'[k] = recent[k] \/ recent'[k] = 0
            /\ recorded' = recorded /\ pc' = pc /\ cts' = cts
        BY <2>6 DEF RetainKey, Typed
      <3>2. pc[u] \in {"validate", "undo", "lost"} => 0 # cts[u]
        BY <1>4, <1>5 DEF Committing
      <3> QED BY <2>1, <3>1, <3>2
    <2> QED BY <2>2, <2>3, <2>4, <2>5, <2>6, Records
  <1> QED BY <1>2, <1>9 DEF Traces

-----------------------------------------------------------------------------
(* Covered rows.                                                           *)

\* Row locks are kept until the end, and order the commits of a locked row.
LEMMA OrderedStep ==
  ASSUME Inv, NEW t \in Txns, Step(t), NEW k \in Keys, Ordered(k), Locked(k)
  PROVE  Ordered(k)'
  <1> USE DEF Inv
  <1>1. workload' = workload BY Frame
  <1>2. \A u \in Txns : u # t => /\ pc'[u] = pc[u] /\ cts'[u] = cts[u]
                                 /\ writes'[u] = writes[u]
    BY Frame DEF Same
  <1>3. /\ \A u \in Txns : Begun(u) /\ k \in writes[u] => rowLock[k] = u
        /\ \A u, v \in Txns :
             pc[u] = "committed" /\ k \in writes[u] /\ Committing(v) /\ k \in writes[v] =>
               cts[u] < cts[v]
    BY DEF Ordered
  <1>4. ~workload.delete /\ \A u \in Txns : k \in workload.rows[u] => Locks(u) BY DEF Locked
  <1>5. \A u \in Txns : writes[u] \subseteq workload.rows[u] /\ (pc[u] = "idle" => writes[u] = {})
    BY DEF Phases, Phase
  <1>6. None \notin Txns BY MvccAssumption
  <1>7. /\ Begun(t)' /\ k \in writes'[t] => rowLock'[k] = t
        /\ \A u \in Txns : u # t /\ rowLock[k] = u => rowLock'[k] = u
    <2>1. CASE \E j \in Keys : Put(t, j)
      <3>1. PICK j \in Keys : Put(t, j) BY <2>1
      <3>2. /\ pc' = pc /\ pc[t] = "active" /\ j \in workload.rows[t]
            /\ Locks(t) => rowLock[j] = None
            /\ rowLock' = IF Locks(t) THEN [rowLock EXCEPT ![j] = t] ELSE rowLock
            /\ writes'[t] = writes[t] \cup {j}
        BY <3>1 DEF Put, Typed
      <3>3. CASE j = k
        <4>1. Locks(t) BY <1>4, <3>2, <3>3
        <4> QED BY <1>6, <3>2, <3>3, <4>1 DEF Typed
      <3>4. CASE j # k
        <4>1. rowLock'[k] = rowLock[k] BY <3>2, <3>4 DEF Typed
        <4> QED BY <1>3, <3>2, <3>4, <4>1 DEF Begun, Past
      <3> QED BY <3>3, <3>4
    <2>2. CASE \E l \in {"committed", "aborted", "lost"} : Finish(t, l)
      <3>1. pc'[t] \in {"committed", "aborted", "lost"} /\ rowLock' = Unlocked(t)
        BY <2>2 DEF Finish, Goto, Typed
      <3> QED BY <3>1 DEF Unlocked, Begun, Past
    <2>3. ASSUME rowLock' = rowLock, writes'[t] = writes[t], Begun(t) \/ Begin(t)
          PROVE  <1>7!1 /\ <1>7!2
      <3>1. Begin(t) => writes[t] = {} BY <1>5 DEF Begin
      <3> QED BY <1>3, <2>3, <3>1
    <2> QED BY <1>4, <2>1, <2>2, <2>3
            DEF Step, CommitStep, Begin, PassBarrier, RefreshSnapshot, Delete, Rollback,
                Commit, CommitReadOnly, RecordKey, Conflict, UndoKey, Lose, Validated,
                LookAt, RetainKey, PruneEnds, Apply, CommitFails, PreimageFails,
                EndCommit, Begun, Past, Typed
  <1>8. \A u \in Txns : Begun(u)' /\ k \in writes'[u] => rowLock'[k] = u
    BY <1>2, <1>3, <1>7 DEF Begun, Past
  <1>9. /\ pc[t] # "committed"
        /\ pc'[t] = "committed" /\ k \in writes'[t] => Committing(t) /\ k \in writes[t]
        /\ Committing(t)' =>
             /\ writes'[t] = writes[t]
             /\ (Committing(t) /\ cts'[t] = cts[t]) \/ Commit(t)
    BY DEF Step, CommitStep, Begin, PassBarrier, RefreshSnapshot, Put, Delete, Rollback,
           Commit, CommitReadOnly, RecordKey, Conflict, UndoKey, Lose, Validated,
           LookAt, RetainKey, PruneEnds, Apply, CommitFails, PreimageFails, EndCommit,
           Committing, Finish, Goto, Typed
  <1>10. ASSUME NEW u \in Txns, NEW v \in Txns, pc'[u] = "committed", k \in writes'[u],
                Committing(v)', k \in writes'[v]
         PROVE  cts'[u] < cts'[v]
    <2>1. u # v BY <1>10 DEF Committing
    <2>2. CASE u = t
      <3>1. Begun(t) /\ k \in writes[t] BY <1>9, <1>10, <2>2 DEF Committing, Begun, Past
      <3>2. Begun(v) /\ k \in writes[v]
        BY <1>2, <1>10, <2>1, <2>2 DEF Committing, Begun, Past
      <3> QED BY <1>3, <2>1, <2>2, <3>1, <3>2
    <2>3. CASE u # t /\ v # t
      BY <1>2, <1>3, <1>10, <2>3 DEF Committing
    <2>4. CASE u # t /\ v = t
      <3>1. pc[u] = "committed" /\ k \in writes[u] /\ cts'[u] = cts[u]
        BY <1>2, <1>10, <2>4
      <3>2. k \in writes[t] BY <1>9, <1>10, <2>4
      <3>3. CASE Committing(t) /\ cts'[t] = cts[t] BY <1>3, <2>4, <3>1, <3>2, <3>3
      <3>4. CASE Commit(t)
        <4>1. kind(t) # "auto" BY <1>4, <1>5, <3>2 DEF Locks
        <4>2. cts'[t] = clock + 1 BY <3>4, <4>1 DEF Commit, Typed
        <4>3. cts[u] < clock + 1 BY DEF Drawn, Typed
        <4> QED BY <2>4, <3>1, <4>2, <4>3
      <3> QED BY <1>9, <1>10, <2>4, <3>3, <3>4
    <2> QED BY <2>2, <2>3, <2>4
  <1> QED BY <1>8, <1>10 DEF Ordered

\* What a step must keep of a row for its claims to stay visible.
LEMMA RowFrame ==
  ASSUME NEW k \in Keys, Watched(k), Priors(k), Sole(k), Won(k), workload' = workload,
         recent'[k] = recent[k],
         \A u \in Txns : recorded'[u][k] = recorded[u][k],
         \A u \in Txns : recorded[u][k] # Unrecorded => cts'[u] = cts[u],
         \A u \in Txns : Claimed(u, k)' =>
           Claimed(u, k) /\ cts'[u] = cts[u] /\ snap'[u] = snap[u],
         \A u, v \in Txns : Claimed(u, k)' /\ Exposed(u, v)' =>
           Exposed(u, v) /\ snap'[v] = snap[v],
         unprotected \subseteq unprotected'
  PROVE  Watched(k)' /\ Priors(k)' /\ Sole(k)' /\ Won(k)'
  <1>1. \A u \in Txns : Validates(u)' <=> Validates(u) BY DEF Validates, kind
  <1>2. \A u \in Txns : Undoable(u, k)' => Undoable(u, k) BY <1>1 DEF Undoable
  <1>3. Watched(k)' BY DEF Watched
  <1>4. Priors(k)' BY <1>2 DEF Priors
  <1>5. Sole(k)' BY <1>2 DEF Sole, Undoable
  <1>6. Won(k)' BY <1>1 DEF Won
  <1> QED BY <1>3, <1>4, <1>5, <1>6

\* A commit that has claimed a row has drawn its timestamp.
LEMMA ClaimsDrawn ==
  ASSUME Inv, NEW u \in Txns, NEW k \in Keys, Claimed(u, k)
  PROVE  cts[u] \in Nat /\ cts[u] <= clock /\ k \in writes[u] /\ k \in workload.rows[u]
  <1>1. cts[u] \in Nat /\ cts[u] <= clock BY DEF Inv, Typed, Drawn
  <1>2. k \in writes[u] BY DEF Inv, Phases, Book, Claimed
  <1>3. k \in workload.rows[u] BY <1>2 DEF Inv, Phases, Phase
  <1> QED BY <1>1, <1>2, <1>3

\* Steps that neither record nor undo a key make no new claim and expose nobody.
LEMMA QuietKeepsRow ==
  ASSUME Inv, NEW t \in Txns, Step(t), NEW k \in Keys,
         Watched(k), Priors(k), Sole(k), Won(k),
         recent' = recent, recorded' = recorded
  PROVE  Watched(k)' /\ Priors(k)' /\ Sole(k)' /\ Won(k)'
  <1> USE DEF Inv
  <1>1. workload' = workload BY Frame
  <1>2. \A u \in Txns : u # t => /\ pc'[u] = pc[u] /\ cts'[u] = cts[u]
                                 /\ writes'[u] = writes[u] /\ snap'[u] = snap[u]
    BY Frame DEF Same
  <1>3. \A u \in Txns : Validates(u)' <=> Validates(u) BY <1>1 DEF Validates, kind
  <1>4. Book(t) BY DEF Phases
  <1>5. \/ /\ snap'[t] = snap[t] /\ cts'[t] = cts[t] /\ writes'[t] = writes[t]
           /\ \/ pc[t] \in {"validate", "undo"} /\ pc'[t] \in {"validate", "undo"}
              \/ /\ pc[t] \in {"prune", "apply", "end"}
                 /\ pc'[t] \in {"prune", "apply", "end", "committed"}
        \/ /\ snap'[t] = snap[t] /\ cts'[t] = cts[t]
           /\ pc[t] \in {"begin", "active"} /\ pc'[t] = "active"
        \/ /\ pc[t] = "active" /\ pc'[t] = "committed" /\ writes'[t] = {}
        \/ pc'[t] \in {"aborted", "lost"}
        \/ Begin(t) \/ RefreshSnapshot(t) \/ Commit(t)
        \/ Validated(t) \/ \E j \in Keys : RecordKey(t, j) \/ UndoKey(t, j)
    BY DEF Step, CommitStep, PassBarrier, Put, Delete, Rollback, CommitReadOnly,
           Conflict, Lose, LookAt, RetainKey, PruneEnds, Apply, CommitFails,
           PreimageFails, EndCommit, Finish, Goto, Typed
  <1>6. ~(\E j \in Keys : RecordKey(t, j) \/ UndoKey(t, j))
    <2>1. ASSUME NEW j \in Keys, RecordKey(t, j) PROVE FALSE
      <3>1. recorded'[t][j] = recent[j] /\ pc[t] = "validate" /\ j \in todo[t]
        BY <2>1 DEF RecordKey, Typed
      <3>2. recent[j] # Unrecorded BY DEF Typed, Unrecorded
      <3>3. recorded[t][j] = Unrecorded BY <1>4, <3>1 DEF Book
      <3> QED BY <3>1, <3>2, <3>3
    <2>2. ASSUME NEW j \in Keys, UndoKey(t, j) PROVE FALSE
      BY <2>2 DEF UndoKey, Typed
    <2> QED BY <2>1, <2>2
  <1>7. Validated(t) => /\ pc[t] = "validate" /\ pc'[t] \in {"prune", "apply"}
                        /\ snap' = snap /\ cts' = cts /\ writes' = writes
                        /\ todo[t] = {} /\ recorded'[t][k] = Unrecorded
    BY DEF Validated, Goto, Typed
  <1>8. Begin(t) => pc'[t] = "begin" /\ snap'[t] = clock + 1 /\ cts'[t] = cts[t]
    BY DEF Begin, Goto, Typed
  <1>9. RefreshSnapshot(t) => pc'[t] = "begin" /\ cts'[t] = cts[t] /\ ~Validates(t)
    BY DEF RefreshSnapshot, Goto, Typed, Validates
  <1>10. Commit(t) => /\ pc[t] = "active" /\ pc'[t] = "validate" /\ snap'[t] = snap[t]
                      /\ (Validates(t) => cts'[t] = clock + 1)
    BY DEF Commit, Goto, Typed, Validates
  <1>11. pc[t] \in {"idle", "begin", "active"} => recorded[t][k] = Unrecorded
    BY <1>4 DEF Book
  <1>12. Claimed(t, k)' => /\ Claimed(t, k) /\ cts'[t] = cts[t] /\ snap'[t] = snap[t]
    <2>1. CASE Validated(t) BY <1>4, <1>7, <2>1 DEF Claimed, Book
    <2>2. CASE ~Validated(t)
      BY <1>5, <1>6, <1>8, <1>9, <1>10, <1>11, <2>2 DEF Claimed
    <2> QED BY <2>1, <2>2
  <1>13. ASSUME NEW u \in Txns, Claimed(u, k)'
         PROVE  Claimed(u, k) /\ cts'[u] = cts[u] /\ snap'[u] = snap[u]
    BY <1>2, <1>12, <1>13 DEF Claimed
  <1>14. ASSUME NEW u \in Txns, recorded[u][k] # Unrecorded PROVE cts'[u] = cts[u]
    <2>1. CASE u # t BY <1>2, <2>1
    <2>2. CASE u = t
      <3>1. pc[t] \in {"validate", "undo"} BY <1>4, <1>14, <2>2 DEF Book
      <3>2. cts'[t] = cts[t]
        BY <3>1 DEF Step, CommitStep, Begin, PassBarrier, RefreshSnapshot, Put, Delete,
                    Rollback, Commit, CommitReadOnly, RecordKey, Conflict, UndoKey, Lose,
                    Validated, LookAt, RetainKey, PruneEnds, Apply, CommitFails,
                    PreimageFails, EndCommit
      <3> QED BY <2>2, <3>2
    <2> QED BY <2>1, <2>2
  <1>15. ASSUME NEW u \in Txns, NEW v \in Txns, Claimed(u, k)', Exposed(u, v)'
         PROVE  Exposed(u, v) /\ snap'[v] = snap[v]
    <2>1. Claimed(u, k) /\ cts'[u] = cts[u] BY <1>13, <1>15
    <2>2. cts[u] \in Nat /\ cts[u] <= clock /\ clock \in Nat BY <2>1, ClaimsDrawn DEF Typed
    <2>3. v \notin unprotected BY <1>15, StaysUnprotected DEF Exposed
    <2>4. CASE v # t
      BY <1>2, <1>3, <1>15, <2>1, <2>3, <2>4 DEF Exposed, Begun, Past
    <2>5. CASE v = t
      <3>1. u # t /\ Validates(t) /\ snap'[t] < cts[u] /\ Begun(t)'
        BY <1>3, <1>15, <2>1, <2>5 DEF Exposed
      <3>2. ~(clock + 1 < cts[u]) BY <2>2
      <3>3. ~Begin(t) BY <1>8, <3>1, <3>2
      <3>4. ~RefreshSnapshot(t) BY <1>9, <3>1
      <3>5. Begun(t) /\ snap'[t] = snap[t]
        BY <1>5, <1>6, <1>7, <1>10, <3>1, <3>3, <3>4 DEF Begun, Past
      <3> QED BY <2>3, <2>5, <3>1, <3>5 DEF Exposed
    <2> QED BY <2>4, <2>5
  <1>16. \A u \in Txns : recorded'[u][k] = recorded[u][k] OBVIOUS
  <1> QED BY <1>1, <1>13, <1>14, <1>15, <1>16, RowFrame, StaysUnprotected

\* Only transactions that validate, or that lock the row, claim a covered row.
LEMMA CoveredKinds ==
  ASSUME Inv, NEW t \in Txns, NEW k \in Keys, Covered(k), k \in writes[t]
  PROVE  kind(t) # "auto" /\ (Validates(t) \/ Locked(k))
  <1>1. k \in workload.rows[t] BY DEF Inv, Phases, Phase
  <1> QED BY <1>1 DEF Covered, Locked, Locks, Validates

\* A protected commit records a covered row after every other that has claimed it,
\* in the order of their timestamps.
LEMMA ClaimsAscend ==
  ASSUME Inv, NEW t \in Txns, NEW u \in Txns, t # u, NEW k \in Keys, Covered(k),
         RecordKey(t, k), Claimed(u, k), Validates(t) => t \notin unprotected
  PROVE  cts[u] < cts[t]
  <1> USE DEF Inv
  <1>1. pc[t] = "validate" /\ k \in todo[t] /\ ~(Validates(t) /\ recent[k] > snap[t])
    BY DEF RecordKey
  <1>2. k \in writes[t] /\ 0 < cts[t]
    BY <1>1 DEF Phases, Phase, Book, Committing
  <1>3. kind(t) # "auto" /\ (Validates(t) \/ Locked(k)) BY <1>2, CoveredKinds
  <1>4. snap[t] < cts[t] BY <1>1, <1>3 DEF Phases, Phase, Committing
  <1>5. /\ cts[t] \in Nat /\ snap[t] \in Nat /\ cts[u] \in Nat /\ recent[k] \in Nat
    BY DEF Typed
  <1>6. cts[t] # cts[u] BY <1>2, Apart
  <1>7. k \in writes[u] BY ClaimsDrawn
  <1>8. Watched(k) /\ Ordered(k) BY DEF Rows
  <1>9. CASE Validates(t)
    <2> SUFFICES ASSUME ~(cts[u] < cts[t]) PROVE FALSE
        OBVIOUS
    <2>1. cts[t] < cts[u] /\ snap[t] < cts[u] BY <1>4, <1>5, <1>6
    <2>2. Exposed(u, t) BY <1>1, <1>9, <2>1 DEF Exposed, Begun, Past
    <2>3. snap[t] < recent[k] BY <1>8, <2>2 DEF Watched
    <2> QED BY <1>1, <1>5, <1>9, <2>3
  <1>10. CASE ~Validates(t)
    <2>1. Locked(k) BY <1>3, <1>10
    <2>2. rowLock[k] = t BY <1>1, <1>2, <1>8, <2>1 DEF Ordered, Begun, Past
    <2>3. ~Begun(u) BY <1>7, <1>8, <2>1, <2>2 DEF Ordered
    <2>4. pc[u] = "committed" BY <2>3 DEF Claimed, Begun, Past
    <2>5. Committing(t) BY <1>1 DEF Committing
    <2> QED BY <1>2, <1>7, <1>8, <2>1, <2>4, <2>5 DEF Ordered
  <1> QED BY <1>9, <1>10

\* While a validating commit may still undo its record, nobody records the row.
LEMMA SoleRecorder ==
  ASSUME Inv, NEW t \in Txns, NEW v \in Txns, NEW k \in Keys, Covered(k),
         RecordKey(t, k), Undoable(v, k)
  PROVE  FALSE
  <1> USE DEF Inv, Undoable
  <1>1. pc[t] = "validate" /\ k \in todo[t] /\ ~(Validates(t) /\ recent[k] > snap[t])
    BY DEF RecordKey
  <1>2. k \in writes[t] /\ recorded[t][k] = Unrecorded BY <1>1 DEF Phases, Book
  <1>3. v # t BY <1>2
  <1>4. pc[v] \in {"validate", "undo"} /\ k \in writes[v] BY DEF Phases, Book
  <1>5. Sole(k) /\ Ordered(k) BY DEF Rows
  <1>6. recent[k] = cts[v] BY <1>5 DEF Sole
  <1>7. CASE Validates(t)
    <2>1. Past(t) /\ Committing(v) /\ kind(v) # "auto"
      BY <1>1, <1>4 DEF Past, Committing, Validates
    <2>2. snap[t] < cts[v] BY <2>1, Behind
    <2>3. snap[t] \in Nat /\ cts[v] \in Nat BY DEF Typed
    <2> QED BY <1>1, <1>6, <1>7, <2>2, <2>3
  <1>8. CASE ~Validates(t)
    <2>1. Locked(k) BY <1>2, <1>8, CoveredKinds
    <2>2. Begun(t) /\ Begun(v) BY <1>1, <1>4 DEF Begun, Past
    <2> QED BY <1>2, <1>3, <1>4, <1>5, <2>1, <2>2 DEF Ordered
  <1> QED BY <1>7, <1>8

\* A new claim of the row.
LEMMA RecordRow ==
  ASSUME Inv, NEW t \in Txns, NEW k \in Keys, Covered(k), RecordKey(t, k)
  PROVE  Watched(k)' /\ Priors(k)' /\ Sole(k)' /\ Won(k)'
  <1> USE DEF Inv
  <1>1. /\ recent'[k] = cts[t] /\ recorded'[t][k] = recent[k]
        /\ \A u \in Txns : u # t => recorded'[u] = recorded[u]
        /\ pc' = pc /\ cts' = cts /\ snap' = snap /\ writes' = writes
        /\ workload' = workload /\ unprotected' = unprotected
        /\ pc[t] = "validate" /\ ~(Validates(t) /\ recent[k] > snap[t])
    BY DEF RecordKey, Typed
  <1>2. \A u \in Txns : Validates(u)' <=> Validates(u) BY <1>1 DEF Validates, kind
  <1>3. \A u \in Txns : u # t /\ Claimed(u, k)' => Claimed(u, k) BY <1>1 DEF Claimed
  <1>4. \A u, v \in Txns : Exposed(u, v)' => Exposed(u, v)
    BY <1>1, <1>2 DEF Exposed, Begun, Past, Committing
  <1>5. \A u \in Txns : snap[u] \in Nat /\ cts[u] \in Nat BY DEF Typed
  <1>6. \A u \in Txns : u # t /\ Claimed(u, k) /\ (Validates(t) => t \notin unprotected) =>
          cts[u] < cts[t]
    BY ClaimsAscend
  <1>7. \A v \in Txns : Undoable(v, k)' => v = t
    <2>1. \A v \in Txns : ~Undoable(v, k) BY SoleRecorder
    <2> QED BY <1>1, <1>2, <2>1 DEF Undoable
  <1>8. Watched(k) /\ Won(k) BY DEF Rows
  <1>9. Watched(k)'
    <2> SUFFICES ASSUME NEW u \in Txns, NEW v \in Txns, Claimed(u, k)', Exposed(u, v)'
                 PROVE  snap[v] < cts[t]
        BY <1>1 DEF Watched
    <2>1. snap[v] < cts[u] BY <1>4 DEF Exposed
    <2>2. CASE u = t BY <2>1, <2>2
    <2>3. CASE u # t /\ ~Validates(t)
      <3>1. cts[u] < cts[t] BY <1>3, <1>6, <2>3
      <3> QED BY <1>5, <2>1, <3>1
    <2>4. CASE u # t /\ Validates(t)
      <3>1. snap[v] < recent[k] BY <1>3, <1>4, <1>8, <2>4 DEF Watched
      <3>2. snap[t] < cts[t]
        BY <1>1, <2>4 DEF Phases, Phase, Committing, Validates
      <3>3. recent[k] \in Nat BY DEF Typed
      <3> QED BY <1>1, <1>5, <2>4, <3>1, <3>2, <3>3
    <2> QED BY <2>2, <2>3, <2>4
  <1>10. Priors(k)'
    <2> SUFFICES ASSUME NEW v \in Txns, NEW u \in Txns, NEW x \in Txns, Undoable(v, k)',
                        u # v, Claimed(u, k)', Exposed(u, x)'
                 PROVE  snap[x] < recorded'[v][k]
        BY <1>1 DEF Priors
    <2>1. v = t BY <1>7
    <2>2. Claimed(u, k) /\ Exposed(u, x) BY <1>3, <1>4, <2>1
    <2>3. snap[x] < recent[k] BY <1>8, <2>2 DEF Watched
    <2> QED BY <1>1, <2>1, <2>3
  <1>11. Sole(k)' BY <1>1, <1>7 DEF Sole
  <1>12. Won(k)'
    <2> SUFFICES ASSUME NEW x \in Txns \ unprotected, NEW y \in Txns \ unprotected, x # y,
                        Validates(x), Claimed(x, k)', Claimed(y, k)',
                        snap[x] < cts[y], cts[y] < cts[x]
                 PROVE  FALSE
        BY <1>1, <1>2 DEF Won
    <2>1. CASE x = t
      <3>1. Claimed(y, k) BY <1>3, <2>1
      <3>2. Exposed(y, t) BY <1>1, <2>1 DEF Exposed, Begun, Past
      <3>3. snap[t] < recent[k] BY <1>8, <3>1, <3>2 DEF Watched
      <3>4. recent[k] \in Nat BY DEF Typed
      <3> QED BY <1>1, <1>5, <2>1, <3>3, <3>4
    <2>2. CASE y = t
      <3>1. cts[x] < cts[t] BY <1>3, <1>6, <2>2
      <3> QED BY <1>5, <2>2, <3>1
    <2>3. CASE x # t /\ y # t BY <1>3, <1>8, <2>3 DEF Won
    <2> QED BY <2>1, <2>2, <2>3
  <1> QED BY <1>9, <1>10, <1>11, <1>12

\* The loser takes its claim of the row back.
LEMMA UndoRow ==
  ASSUME Inv, NEW t \in Txns, NEW k \in Keys, Covered(k), UndoKey(t, k)
  PROVE  Watched(k)' /\ Priors(k)' /\ Sole(k)' /\ Won(k)'
  <1> USE DEF Inv
  <1>1. /\ recent'[k] = recorded[t][k] /\ recorded'[t][k] = Unrecorded
        /\ \A u \in Txns : u # t => recorded'[u] = recorded[u]
        /\ pc' = pc /\ cts' = cts /\ snap' = snap /\ writes' = writes
        /\ workload' = workload /\ unprotected \subseteq unprotected'
        /\ pc[t] = "undo" /\ recorded[t][k] # Unrecorded
    BY DEF UndoKey, Undone, Typed
  <1>2. \A u \in Txns : Validates(u)' <=> Validates(u) BY <1>1 DEF Validates, kind
  <1>3. \A u \in Txns : Claimed(u, k)' => u # t /\ Claimed(u, k) BY <1>1 DEF Claimed
  <1>4. \A u, v \in Txns : Exposed(u, v)' => Exposed(u, v)
    BY <1>1, <1>2 DEF Exposed, Begun, Past
  <1>5. Validates(t) /\ 0 < cts[t] BY <1>1 DEF Phases, Phase, Committing
  <1>6. Priors(k) /\ Sole(k) /\ Won(k) BY DEF Rows
  <1>7. Won(k)' BY <1>1, <1>2, <1>3, <1>6 DEF Won
  <1>8. CASE t \notin unprotected
    <2>1. Undoable(t, k) BY <1>1, <1>5, <1>8 DEF Undoable
    <2>2. \A v \in Txns : v # t => ~Undoable(v, k) BY <1>5, <1>6, <2>1, Apart DEF Sole
    <2>3. \A v \in Txns : ~Undoable(v, k)' BY <1>1, <1>2, <2>2 DEF Undoable
    <2>4. Watched(k)' BY <1>1, <1>3, <1>4, <1>6, <2>1 DEF Watched, Priors
    <2> QED BY <1>7, <2>3, <2>4 DEF Priors, Sole
  <1>9. CASE t \in unprotected
    <2>1. unprotected' = unprotected \cup {u \in Txns : Validates(u) /\ pc[u] \in Running}
      BY <1>9 DEF UndoKey, Undone
    <2>2. \A u, v \in Txns : ~Exposed(u, v)'
      BY <1>1, <1>2, <2>1 DEF Exposed, Begun, Past, Running
    <2>3. \A v \in Txns : recorded'[v][k] # Unrecorded => pc[v] \in Running
      BY <1>1 DEF Phases, Book, Running
    <2>4. \A v \in Txns : ~Undoable(v, k)' BY <1>2, <2>1, <2>3 DEF Undoable
    <2> QED BY <1>7, <2>2, <2>4 DEF Watched, Priors, Sole
  <1> QED BY <1>8, <1>9

\* Recording, undoing or dropping another row.
LEMMA OtherRow ==
  ASSUME Inv, NEW t \in Txns, NEW k \in Keys, NEW j \in Keys, j # k, Covered(k),
         RecordKey(t, j) \/ UndoKey(t, j) \/ RetainKey(t, j)
  PROVE  Watched(k)' /\ Priors(k)' /\ Sole(k)' /\ Won(k)'
  <1>1. /\ recent'[k] = recent[k] /\ \A u \in Txns : recorded'[u][k] = recorded[u][k]
        /\ pc' = pc /\ cts' = cts /\ snap' = snap /\ writes' = writes
        /\ workload' = workload /\ unprotected \subseteq unprotected'
    BY DEF RecordKey, UndoKey, Undone, RetainKey, Inv, Typed
  <1>2. \A u \in Txns : Claimed(u, k)' => Claimed(u, k) BY <1>1 DEF Claimed
  <1>3. \A u, v \in Txns : Exposed(u, v)' => Exposed(u, v)
    BY <1>1 DEF Exposed, Begun, Past, Validates, kind
  <1>4. Watched(k) /\ Priors(k) /\ Sole(k) /\ Won(k) BY DEF Inv, Rows
  <1> QED BY <1>1, <1>2, <1>3, <1>4, RowFrame

\* All keys are recorded: nothing can be undone any more.
LEMMA ValidatedRow ==
  ASSUME Inv, NEW t \in Txns, NEW k \in Keys, Covered(k), Validated(t)
  PROVE  Watched(k)' /\ Priors(k)' /\ Sole(k)' /\ Won(k)'
  <1> USE DEF Inv
  <1>1. /\ recorded'[t][k] = Unrecorded /\ \A u \in Txns : u # t => recorded'[u] = recorded[u]
        /\ pc[t] = "validate" /\ todo[t] = {} /\ pc'[t] \in {"prune", "apply"}
        /\ \A u \in Txns : u # t => pc'[u] = pc[u]
        /\ cts' = cts /\ snap' = snap /\ writes' = writes /\ workload' = workload
        /\ recent' = recent /\ unprotected' = unprotected
    BY DEF Validated, Goto, Typed
  <1>2. \A u \in Txns : Validates(u)' <=> Validates(u) BY <1>1 DEF Validates, kind
  <1>3. \A u \in Txns : Claimed(u, k)' => Claimed(u, k)
    BY <1>1 DEF Claimed, Phases, Book
  <1>4. \A u, v \in Txns : Exposed(u, v)' => Exposed(u, v)
    BY <1>1, <1>2 DEF Exposed, Begun, Past
  <1>5. \A u \in Txns : Undoable(u, k)' => u # t /\ Undoable(u, k) BY <1>1, <1>2 DEF Undoable
  <1>6. Watched(k) /\ Priors(k) /\ Sole(k) /\ Won(k) BY DEF Rows
  <1>7. Watched(k)' BY <1>1, <1>3, <1>4, <1>6 DEF Watched
  <1>8. Priors(k)' BY <1>1, <1>3, <1>4, <1>5, <1>6 DEF Priors
  <1>9. Sole(k)' BY <1>1, <1>5, <1>6 DEF Sole
  <1>10. Won(k)' BY <1>1, <1>2, <1>3, <1>6 DEF Won
  <1> QED BY <1>7, <1>8, <1>9, <1>10

\* A prune pass drops nothing that an exposed transaction needs to see.
LEMMA RetainRow ==
  ASSUME Inv, NEW t \in Txns, NEW k \in Keys, Covered(k), RetainKey(t, k)
  PROVE  Watched(k)' /\ Priors(k)' /\ Sole(k)' /\ Won(k)'
  <1> USE DEF Inv
  <1>1. /\ recorded' = recorded /\ unprotected' = unprotected /\ workload' = workload
        /\ pc' = pc /\ cts' = cts /\ snap' = snap /\ writes' = writes
        /\ pc[t] = "prune" /\ look[t] = {}
        /\ recent'[k] = IF oldest[t] = 0 \/ recent[k] < oldest[t] THEN 0 ELSE recent[k]
    BY DEF RetainKey, Typed
  <1>2. \A u \in Txns : Validates(u)' <=> Validates(u) BY <1>1 DEF Validates, kind
  <1>3. \A u \in Txns : Claimed(u, k)' <=> Claimed(u, k) BY <1>1 DEF Claimed
  <1>4. \A u, v \in Txns : Exposed(u, v)' <=> Exposed(u, v)
    BY <1>1, <1>2 DEF Exposed, Begun, Past
  <1>5. \A u \in Txns : Undoable(u, k)' <=> Undoable(u, k) BY <1>1, <1>2 DEF Undoable
  <1>6. recent[k] \in Nat /\ \A u \in Txns : snap[u] \in Nat /\ cts[u] \in Nat /\ oldest[u] \in Nat
    BY DEF Typed
  <1>7. ASSUME NEW v \in Txns, Validates(v), Begun(v), v \notin unprotected, snap[v] < recent[k]
        PROVE  recent'[k] = recent[k]
    <2>1. 0 < oldest[t] /\ oldest[t] <= snap[v] BY <1>1, <1>7 DEF Shielded
    <2>2. ~(oldest[t] = 0 \/ recent[k] < oldest[t]) BY <1>6, <1>7, <2>1
    <2> QED BY <1>1, <2>2
  <1>8. Watched(k) /\ Priors(k) /\ Sole(k) /\ Won(k) BY DEF Rows
  <1>9. Watched(k)'
    <2> SUFFICES ASSUME NEW u \in Txns, NEW v \in Txns, Claimed(u, k), Exposed(u, v)
                 PROVE  snap[v] < recent'[k]
        BY <1>1, <1>3, <1>4 DEF Watched
    <2>1. snap[v] < recent[k] BY <1>8 DEF Watched
    <2>2. recent'[k] = recent[k] BY <1>7, <2>1 DEF Exposed
    <2> QED BY <2>1, <2>2
  <1>10. Priors(k)' BY <1>1, <1>3, <1>4, <1>5, <1>8 DEF Priors
  <1>11. Sole(k)'
    <2> SUFFICES ASSUME NEW v \in Txns, Undoable(v, k)
                 PROVE  recent'[k] = cts[v]
        BY <1>1, <1>5 DEF Sole
    <2>1. recent[k] = cts[v] BY <1>8 DEF Sole
    <2>2. pc[v] \in {"validate", "undo"} BY DEF Phases, Book, Undoable
    <2>3. Begun(v) /\ snap[v] < cts[v]
      BY <2>2 DEF Begun, Past, Phases, Phase, Committing, Validates, Undoable
    <2> QED BY <1>7, <2>1, <2>3 DEF Undoable
  <1>12. Won(k)' BY <1>1, <1>2, <1>3, <1>8 DEF Won
  <1> QED BY <1>9, <1>10, <1>11, <1>12

\* A prune pass that has looked at a transaction keeps below its snapshot; one
\* that begins behind its back is unprotected.
LEMMA ShieldedStep ==
  ASSUME Inv, NEW t \in Txns, Step(t)
  PROVE  Shielded'
  <1> USE DEF Inv
  <1>1. workload' = workload BY Frame
  <1>2. \A u \in Txns : u # t => Same(u) BY Frame
  <1>3. \A u \in Txns : Validates(u)' <=> Validates(u) BY <1>1 DEF Validates, kind
  <1>4. unprotected \subseteq unprotected' BY StaysUnprotected
  <1>5. \A u \in Txns : Validates(u) => kind(u) # "read" BY DEF Validates
  <1> SUFFICES ASSUME NEW p \in Txns, NEW u \in Txns, pc'[p] = "prune", Validates(u),
                      Begun(u)', u \notin unprotected'
               PROVE  u \in look'[p] \/ (0 < oldest'[p] /\ oldest'[p] <= snap'[u])
      BY <1>3 DEF Shielded
  <1>6. u \notin unprotected BY <1>4
  <1>7. CASE Validated(t) /\ p = t
    <2>1. look'[t] = {x \in Txns : Validates(x)} \/ pc'[t] = "apply"
      BY <1>7 DEF Validated, Goto, Typed
    <2> QED BY <1>7, <2>1
  <1>8. CASE \E v \in Txns : LookAt(t, v)
    <2>1. PICK v \in Txns : LookAt(t, v) BY <1>8
    <2>2. /\ pc' = pc /\ snap' = snap /\ pc[t] = "prune"
          /\ look'[t] = look[t] \ {v}
          /\ oldest'[t] = IF v \in registered /\ (oldest[t] = 0 \/ snap[v] < oldest[t])
                            THEN snap[v] ELSE oldest[t]
          /\ pc[v] = "begin" => v \in unprotected'
      BY <2>1 DEF LookAt, Typed
    <2>3. Begun(u) BY <2>2 DEF Begun, Past
    <2>4. u \in look[p] \/ (0 < oldest[p] /\ oldest[p] <= snap[u])
      BY <1>6, <2>2, <2>3 DEF Shielded
    <2>5. CASE p # t BY <1>2, <2>2, <2>4, <2>5 DEF Same
    <2>6. CASE p = t
      <3>1. /\ snap[u] \in Nat /\ snap[v] \in Nat /\ oldest[t] \in Nat BY DEF Typed
      <3>2. v \in registered => 0 < snap[v] BY DEF Phases, Phase, Begun
      <3>3. CASE u = v
        <4>1. u \in registered BY <2>2, <2>3, <3>3 DEF Phases, Phase, Begun
        <4> QED BY <2>2, <2>6, <3>1, <3>2, <3>3, <4>1
      <3>4. CASE u # v
        <4>1. CASE u \in look[t] BY <2>2, <2>6, <3>4, <4>1
        <4>2. CASE 0 < oldest[t] /\ oldest[t] <= snap[u]
          BY <2>2, <2>6, <3>1, <3>2, <4>2
        <4> QED BY <2>4, <2>6, <4>1, <4>2
      <3> QED BY <3>3, <3>4
    <2> QED BY <2>5, <2>6
  <1>9. CASE ~(\E v \in Txns : LookAt(t, v)) /\ ~(Validated(t) /\ p = t)
    <2>1. pc[p] = "prune" /\ look'[p] = look[p] /\ oldest'[p] = oldest[p]
      <3>1. CASE p # t BY <1>2, <3>1 DEF Same
      <3>2. CASE p = t
        BY <1>9, <3>2 DEF Step, CommitStep, Begin, PassBarrier, RefreshSnapshot, Put,
               Delete, Rollback, Commit, CommitReadOnly, RecordKey, Conflict, UndoKey,
               Lose, RetainKey, PruneEnds, Apply, CommitFails, PreimageFails, EndCommit,
               Finish, Goto, Typed, registry, records, pruning
      <3> QED BY <3>1, <3>2
    <2>2. CASE Begin(t) /\ u = t
      <3>1. u \in look[p] BY <2>1, <2>2 DEF Begin, Missed
      <3> QED BY <2>1, <3>1
    <2>3. CASE ~(Begin(t) /\ u = t)
      <3>1. Begun(u) /\ snap'[u] = snap[u]
        <4>1. CASE u # t BY <1>2, <4>1 DEF Same, Begun, Past
        <4>2. CASE u = t
          <5>1. pc'[t] \in {"begin", "active", "validate", "undo", "prune", "apply", "end"}
            BY <4>2 DEF Begun, Past
          <5>2. kind(t) # "read" BY <1>5, <4>2
          <5>3. Begun(t) /\ snap'[t] = snap[t]
            BY <2>3, <4>2, <5>1, <5>2
               DEF Step, CommitStep, PassBarrier, RefreshSnapshot, Put, Delete, Rollback,
                   Commit, CommitReadOnly, RecordKey, Conflict, UndoKey, Lose, Validated,
                   LookAt, RetainKey, PruneEnds, Apply, CommitFails, PreimageFails,
                   EndCommit, Finish, Goto, Typed, Begun, Past
          <5> QED BY <4>2, <5>3
        <4> QED BY <4>1, <4>2
      <3> QED BY <1>6, <2>1, <3>1 DEF Shielded
    <2> QED BY <2>2, <2>3
  <1> QED BY <1>7, <1>8, <1>9

-----------------------------------------------------------------------------
(* The specification.                                                      *)

\* Every step of every transaction keeps the invariant.
LEMMA InvStep == Inv /\ [Next]_vars => Inv'
  <1> SUFFICES ASSUME Inv, [Next]_vars PROVE Inv'
      OBVIOUS
  <1>1. CASE UNCHANGED vars
    <2>1. /\ UNCHANGED <<workload, clock, pc, snap, cts, writes, todo, recorded>>
          /\ UNCHANGED <<recent, registered, inflight, versions, rowLock, commitCount>>
          /\ UNCHANGED <<look, oldest, unprotected>>
      BY <1>1 DEF vars, registry, records, pruning
    <2>2. Typed' /\ Drawn' BY <2>1 DEF Inv, Typed, Drawn
    <2>3. Phases'
      BY <2>1 DEF Inv, Phases, Phase, Book, Begun, Past, Committing, Validates, kind
    <2>4. Distinct' /\ Barrier' BY <2>1 DEF Inv, Distinct, Own, kind, Barrier, Past
    <2>5. Traces' BY <2>1 DEF Inv, Traces, Validates, kind
    <2>6. \A k \in Keys : Covered(k)' <=> Covered(k)
      BY <2>1 DEF Covered, Locked, Locks, Validates, kind
    <2>7. ASSUME NEW k \in Keys, Watched(k), Priors(k), Sole(k), Ordered(k), Won(k)
          PROVE  (Watched(k) /\ Priors(k) /\ Sole(k) /\ Ordered(k) /\ Won(k))'
      BY <2>1, <2>7 DEF Watched, Priors, Sole, Ordered, Won, Claimed, Exposed, Undoable,
             Begun, Past, Committing, Validates, kind, Locked, Locks
    <2>8. Rows' BY <2>6, <2>7 DEF Inv, Rows
    <2>9. Shielded' BY <2>1 DEF Inv, Shielded, Begun, Past, Validates, kind
    <2> QED BY <2>2, <2>3, <2>4, <2>5, <2>8, <2>9 DEF Inv
  <1>2. ASSUME NEW t \in Txns, Step(t) PROVE Inv'
    <2>1. Typed' /\ Drawn' BY <1>2, TypedStep, DrawnStep
    <2>2. Phases' BY <1>2, OwnPhase, OthersPhases DEF Phases
    <2>3. Distinct' /\ Barrier' /\ Traces' BY <1>2, DistinctStep, BarrierStep, TracesStep
    <2>4. workload' = workload BY <1>2, Frame DEF Inv
    <2>5. \A k \in Keys : (Covered(k)' <=> Covered(k)) /\ (Locked(k)' <=> Locked(k))
      BY <2>4 DEF Covered, Locked, Locks, Validates, kind
    <2>6. ASSUME NEW k \in Keys, Covered(k)
          PROVE  Watched(k)' /\ Priors(k)' /\ Sole(k)' /\ Won(k)'
      <3>1. Watched(k) /\ Priors(k) /\ Sole(k) /\ Won(k) BY <2>6 DEF Inv, Rows
      <3>2. CASE recent' = recent /\ recorded' = recorded
        BY <1>2, <3>1, <3>2, QuietKeepsRow
      <3>3. ASSUME NEW j \in Keys, RecordKey(t, j) \/ UndoKey(t, j) \/ RetainKey(t, j)
            PROVE  Watched(k)' /\ Priors(k)' /\ Sole(k)' /\ Won(k)'
        <4>1. CASE j = k BY <2>6, <3>3, <4>1, RecordRow, UndoRow, RetainRow
        <4>2. CASE j # k BY <2>6, <3>3, <4>2, OtherRow
        <4> QED BY <4>1, <4>2
      <3>4. CASE Validated(t) BY <2>6, <3>4, ValidatedRow
      <3> QED BY <1>2, <3>2, <3>3, <3>4, Records
    <2>7. ASSUME NEW k \in Keys, Covered(k) PROVE Ordered(k)'
      <3>1. Ordered(k) BY <2>7 DEF Inv, Rows
      <3>2. CASE Locked(k) BY <1>2, <3>1, <3>2, OrderedStep
      <3>3. CASE ~Locked(k) BY <2>5, <3>3 DEF Ordered
      <3> QED BY <3>2, <3>3
    <2>8. Rows' BY <2>5, <2>6, <2>7 DEF Rows
    <2>9. Shielded' BY <1>2, ShieldedStep
    <2> QED BY <2>1, <2>2, <2>3, <2>8, <2>9 DEF Inv
  <1> QED BY <1>1, <1>2 DEF Next, Step

\* Inv holds throughout, in every workload.
THEOREM MvccInvariance == Spec => []Inv
  <1> QED BY InitInv, InvStep, PTL DEF Spec

\* Every variable keeps its type; no timestamp is ahead of the engine's clock.
THEOREM MvccTypeCorrect == Spec => []TypeOK
  <1>1. Inv => TypeOK
    <2> SUFFICES ASSUME Inv PROVE TypeOK
        OBVIOUS
    <2> USE DEF Inv
    <2>1. /\ snap \in [Txns -> 0 .. clock] /\ cts \in [Txns -> 0 .. clock]
          /\ recent \in [Keys -> 0 .. clock] /\ oldest \in [Txns -> 0 .. clock]
      BY DEF Typed, Drawn
    <2>2. inflight \subseteq 1 .. clock BY DEF Typed, Drawn
    <2>3. versions \in [Keys -> SUBSET (1 .. clock)]
      <3>1. \A k \in Keys : \A v \in versions[k] : v \in 1 .. clock BY DEF Typed, Drawn
      <3>2. \A k \in Keys : versions[k] \in SUBSET (1 .. clock) BY <3>1
      <3> QED BY <3>2 DEF Typed
    <2> QED BY <2>1, <2>2, <2>3 DEF Typed, TypeOK
  <1> QED BY <1>1, MvccInvariance, PTL

\* conflict.rs: a losing commit leaves no trace in recent_writes, in any workload
\* and however its undo interleaves with other commits, prunes and undos.
THEOREM LosersGone == Spec => []LoserLeavesNoTrace
  <1>1. Inv => LoserLeavesNoTrace BY DEF Inv, Traces, LoserLeavesNoTrace
  <1> QED BY <1>1, MvccInvariance, PTL

\* Each row is written only by transactions that validate, or only by sessions,
\* whose put takes its lock, and never by DELETE, which takes none.  Rows outside
\* this are left out because the property is false there (MvccDelete.cfg): a
\* ReadCommitted DELETE allocates its timestamp without the row lock, a
\* RepeatableRead commit overtakes it and validates clean, and both commit.
Disciplined == \A k \in Keys : Covered(k)

\* conflict.rs, first committer wins: in a disciplined workload no validating
\* transaction loses an update, however records, undos and the two unlocked
\* passes of prune interleave.  Left out are the transactions a pass missed and
\* those that ran when one of these undid a record (unprotected).
THEOREM FirstCommitters == Spec => [](Disciplined => FirstCommitterWins)
  <1>1. Inv => (Disciplined => FirstCommitterWins)
    <2> SUFFICES ASSUME Inv, Disciplined, NEW t \in Txns \ unprotected,
                        NEW u \in Txns \ unprotected, Validates(t), LosesUpdate(t, u)
                 PROVE  FALSE
        BY DEF FirstCommitterWins
    <2>1. PICK k \in Keys : k \in writes[t] /\ k \in writes[u]
      BY DEF Inv, Typed, LosesUpdate
    <2>2. Claimed(t, k) /\ Claimed(u, k) BY <2>1 DEF Claimed, LosesUpdate
    <2>3. Won(k) BY DEF Inv, Rows, Disciplined
    <2> QED BY <2>2, <2>3 DEF Won, LosesUpdate
  <1> QED BY <1>1, MvccInvariance, PTL

\* No autocommit statement writes.
OnlyAnnounced ==
    \A w \in Workloads : \A t \in Txns : w.kind[t] = "auto" => w.rows[t] = {}

\* Every commit that reaches the store while a transaction reads is announced
\* above its snapshot: what the snapshot shows of a key does not change.
LEMMA StableStep ==
  ASSUME OnlyAnnounced, Inv, [Next]_vars, NEW t \in Txns, NEW k \in Keys,
         pc[t] = "active", snap'[t] = snap[t]
  PROVE  VisibleAt(k, snap[t])' = VisibleAt(k, snap[t])
  <1> DEFINE Latest(Q) == IF Q = {} THEN 0 ELSE CHOOSE v \in Q : \A w \in Q : w <= v
             before == {v \in versions[k] : v <= snap[t]}
             after == {v \in versions'[k] : v <= snap'[t]}
  <1>1. ASSUME {v \in versions'[k] : v <= snap[t]} = before
        PROVE  VisibleAt(k, snap[t])' = VisibleAt(k, snap[t])
    <2>1. VisibleAt(k, snap[t]) = Latest(before) BY DEF VisibleAt
    <2>2. VisibleAt(k, snap[t])' = Latest(after) BY DEF VisibleAt
    <2>3. after = before BY <1>1
    <2> HIDE DEF Latest, before, after
    <2> QED BY <2>1, <2>2, <2>3
  <1>2. CASE versions' = versions BY <1>1, <1>2
  <1>3. ASSUME NEW u \in Txns, Apply(u) PROVE VisibleAt(k, snap[t])' = VisibleAt(k, snap[t])
    <2>1. /\ pc[u] = "apply"
          /\ versions'[k] = IF k \in writes[u] THEN versions[k] \cup {cts[u]} ELSE versions[k]
      BY <1>3 DEF Apply
    <2>2. CASE k \notin writes[u] BY <1>1, <2>1, <2>2
    <2>3. CASE k \in writes[u]
      <3>1. k \in workload.rows[u] /\ workload \in Workloads
        BY <2>3 DEF Inv, Phases, Phase, Typed
      <3>2. kind(u) # "auto" BY <3>1 DEF OnlyAnnounced, kind
      <3>3. snap[t] < cts[u] BY <2>1, <3>2, Behind DEF Past, Committing
      <3>4. ~(cts[u] <= snap[t]) BY <3>3 DEF Inv, Typed
      <3>5. versions'[k] = versions[k] \cup {cts[u]} BY <2>1, <2>3
      <3>6. {v \in versions'[k] : v <= snap[t]} = {v \in versions[k] : v <= snap[t]}
        BY <3>4, <3>5
      <3> QED BY <1>1, <3>6
    <2> QED BY <2>2, <2>3
  <1>4. versions' = versions \/ \E u \in Txns : Apply(u)
    BY DEF Next, CommitStep, Begin, PassBarrier, RefreshSnapshot, Put, Delete, Rollback,
           Commit, CommitReadOnly, RecordKey, Conflict, UndoKey, Lose, Validated,
           LookAt, RetainKey, PruneEnds, CommitFails, PreimageFails, EndCommit, vars
  <1> QED BY <1>2, <1>3, <1>4

\* Snapshots are stable where every writer announces its commit.
THEOREM SnapshotsStable == OnlyAnnounced => (Spec => SnapshotStable)
  <1> SUFFICES ASSUME OnlyAnnounced PROVE Spec => SnapshotStable
      OBVIOUS
  <1>1. Inv /\ [Next]_vars =>
          [\A t \in Txns, k \in Keys :
             pc[t] = "active" /\ snap'[t] = snap[t] =>
               VisibleAt(k, snap[t])' = VisibleAt(k, snap[t])]_vars
    BY StableStep
  <1> QED BY <1>1, MvccInvariance, PTL DEF Spec, SnapshotStable

=============================================================================
