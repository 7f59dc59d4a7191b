------------------------- MODULE GroupCommitProofs -------------------------
(***************************************************************************)
(* Proofs about GroupCommit for any set of committers, any retention and   *)
(* any number of writes.  AckedDurable is not inductive: whether an        *)
(* acknowledgement is sound depends on what the flush of its generation    *)
(* covers, which was fixed when the cohort was closed.  IInv adds          *)
(*   - Generations: which generation flushes, which have completed;        *)
(*   - Covered: a flush in flight covers every member of its cohort;       *)
(*   - Settled: a member of a completed generation is on disk, or its      *)
(*     failure is still recorded, or the member is too late.               *)
(***************************************************************************)
EXTENDS GroupCommit, TLAPS

\* The generations in order: completed, flushing (if any), accumulating.
Generations ==
    /\ completed = accumulating - (IF flushInProgress THEN 2 ELSE 1)
    /\ leaderPresent <=> \E p \in Committers : pc[p] \in Leading
    /\ \A p \in Committers :
         /\ pc[p] \in Flushing => myGen[p] = accumulating - 1
         /\ pc[p] = "follow" => myGen[p] >= 1 /\ myGen[p] <= accumulating
    /\ leaderPresent \/ \A p \in Committers :
         pc[p] = "follow" => myGen[p] < accumulating

\* A thread that waits for the result of its generation's flush.
Member(p, g) ==
    /\ pc[p] \in {"follow"} \cup Flushing
    /\ myGen[p] = g

\* The flush in flight covers every member of the cohort it was issued for.
Covered ==
    /\ synced <= written
    /\ \A p \in Committers : lsn[p] <= written
    /\ \A p, q \in Committers :
         Member(p, myGen[q]) =>
           /\ pc[q] = "syncing" => lsn[p] <= flushTo
           /\ pc[q] = "publish" /\ outcome[q] = "ok" => lsn[p] <= synced
    /\ \A q \in Committers : pc[q] = "syncing" => synced <= flushTo /\ flushTo <= written

\* A follower of a completed generation gets the right answer.
Settled ==
    \A p \in Committers :
      pc[p] = "follow" /\ myGen[p] <= completed =>
        \/ lsn[p] <= synced
        \/ myGen[p] \in failed
        \/ completed - myGen[p] >= ErrorRetentionGens

IInv ==
    /\ TypeOK
    /\ SingleFlush
    /\ LeaderOwnsCohort
    /\ Generations
    /\ Covered
    /\ Settled
    /\ AckedDurable

-----------------------------------------------------------------------------
\* The committer starts with every generation settled.
LEMMA InitIInv == Init => IInv
  <1> SUFFICES ASSUME Init PROVE IInv
      OBVIOUS
  <1> USE DEF Init, PC, Leading, Flushing
  <1>1. TypeOK
    <2>1. /\ accumulating \in Nat \ {0}
          /\ completed \in Nat
          /\ written \in Nat /\ synced \in Nat /\ flushTo \in Nat
      OBVIOUS
    <2>2. /\ pc \in [Committers -> PC]
          /\ outcome \in [Committers -> {"ok", "err"}]
          /\ myGen \in [Committers -> Nat]
          /\ lsn \in [Committers -> Nat]
      OBVIOUS
    <2>3. /\ leaderPresent \in BOOLEAN /\ flushInProgress \in BOOLEAN
          /\ failed \subseteq Nat
          /\ parked \subseteq {p \in Committers : pc[p] \in {"follow", "close"}}
          /\ acked \subseteq [lsn : Nat, lag : Nat]
      OBVIOUS
    <2> QED BY <2>1, <2>2, <2>3 DEF TypeOK
  <1>2. SingleFlush /\ LeaderOwnsCohort BY DEF SingleFlush, LeaderOwnsCohort
  <1>3. Generations BY DEF Generations
  <1>4. Covered BY DEF Covered, Member
  <1>5. Settled /\ AckedDurable BY DEF Settled, AckedDurable
  <1> QED BY <1>1, <1>2, <1>3, <1>4, <1>5 DEF IInv

\* Write preserves the invariant: a fresh batch is beyond every flush and joins no cohort yet.
LEMMA WriteIInv ==
  ASSUME IInv, NEW p \in Committers, Write(p)
  PROVE  IInv'
  <1> USE DEF IInv, Write, Goto, state, PC, Leading, Flushing
  <1>1. TypeOK' BY DEF TypeOK
  <1>2. SingleFlush' BY DEF TypeOK, SingleFlush
  <1>3. LeaderOwnsCohort' BY DEF TypeOK, LeaderOwnsCohort, Generations
  <1>4. Generations'
    BY DEF TypeOK, SingleFlush, LeaderOwnsCohort, Generations
  <1>5. Covered'
    BY DEF TypeOK, SingleFlush, LeaderOwnsCohort, Generations, Covered, Member
  <1>6. Settled'
    BY DEF TypeOK, SingleFlush, Generations, Covered, Settled, Member
  <1>7. AckedDurable' BY DEF AckedDurable
  <1> QED BY <1>1, <1>2, <1>3, <1>4, <1>5, <1>6, <1>7

\* Join preserves the invariant: the joiner's batch was written before, so the cohort's later flush covers it.
LEMMA JoinIInv ==
  ASSUME IInv, NEW p \in Committers, Join(p)
  PROVE  IInv'
  <1> USE DEF IInv, Join, Goto, wal, PC, Leading, Flushing
  <1>1. TypeOK' BY DEF TypeOK
  <1>2. SingleFlush' BY DEF TypeOK, SingleFlush
  <1>3. LeaderOwnsCohort' BY DEF TypeOK, LeaderOwnsCohort, Generations
  <1>4. Generations'
    BY DEF TypeOK, SingleFlush, LeaderOwnsCohort, Generations
  <1>5. Covered'
    BY DEF TypeOK, SingleFlush, LeaderOwnsCohort, Generations, Covered, Member
  <1>6. Settled'
    BY DEF TypeOK, SingleFlush, Generations, Covered, Settled, Member
  <1>7. AckedDurable' BY DEF AckedDurable
  <1> QED BY <1>1, <1>2, <1>3, <1>4, <1>5, <1>6, <1>7

\* FollowerWait preserves the invariant: sleeping changes nothing but the wait set.
LEMMA FollowerWaitIInv ==
  ASSUME IInv, NEW p \in Committers, FollowerWait(p)
  PROVE  IInv'
  <1> USE DEF IInv, FollowerWait, Awake, state, wal, Leading, Flushing
  <1>1. TypeOK' BY DEF TypeOK
  <1>2. SingleFlush' /\ LeaderOwnsCohort' BY DEF SingleFlush, LeaderOwnsCohort
  <1>3. Generations' BY DEF Generations
  <1>4. Covered' BY DEF Covered, Member
  <1>5. Settled' /\ AckedDurable' BY DEF Settled, AckedDurable
  <1> QED BY <1>1, <1>2, <1>3, <1>4, <1>5

\* FollowerReturn preserves the invariant: the answer a follower reads is the settled one.
LEMMA FollowerReturnIInv ==
  ASSUME IInv, NEW p \in Committers, FollowerReturn(p)
  PROVE  IInv'
  <1> USE DEF IInv, FollowerReturn, Acknowledge, Return, Awake, Goto, state,
              wal, PC, Leading, Flushing
  <1>1. TypeOK' BY DEF TypeOK, Generations
  <1>2. SingleFlush' BY DEF TypeOK, SingleFlush
  <1>3. LeaderOwnsCohort' BY DEF TypeOK, LeaderOwnsCohort, Generations
  <1>4. Generations'
    BY DEF TypeOK, SingleFlush, LeaderOwnsCohort, Generations
  <1>5. Covered'
    BY DEF TypeOK, SingleFlush, LeaderOwnsCohort, Generations, Covered, Member
  <1>6. Settled'
    BY GroupCommitAssumption DEF TypeOK, SingleFlush, Generations, Covered, Settled, Member
  <1>7. AckedDurable'
    BY GroupCommitAssumption DEF TypeOK, Covered, Generations, SingleFlush, Settled, AckedDurable, Member
  <1> QED BY <1>1, <1>2, <1>3, <1>4, <1>5, <1>6, <1>7

\* WindowElapsed preserves the invariant: the leader keeps its cohort open.
LEMMA WindowElapsedIInv ==
  ASSUME IInv, NEW p \in Committers, WindowElapsed(p)
  PROVE  IInv'
  <1> USE DEF IInv, WindowElapsed, Goto, state, wal, PC, Leading, Flushing
  <1>1. TypeOK' BY DEF TypeOK
  <1>2. SingleFlush' BY DEF TypeOK, SingleFlush
  <1>3. LeaderOwnsCohort' BY DEF TypeOK, LeaderOwnsCohort, Generations
  <1>4. Generations'
    BY DEF TypeOK, SingleFlush, LeaderOwnsCohort, Generations
  <1>5. Covered'
    BY DEF TypeOK, SingleFlush, LeaderOwnsCohort, Generations, Covered, Member
  <1>6. Settled'
    BY DEF TypeOK, SingleFlush, Generations, Covered, Settled, Member
  <1>7. AckedDurable' BY DEF AckedDurable
  <1> QED BY <1>1, <1>2, <1>3, <1>4, <1>5, <1>6, <1>7

\* LeaderWait preserves the invariant: sleeping changes nothing but the wait set.
LEMMA LeaderWaitIInv ==
  ASSUME IInv, NEW p \in Committers, LeaderWait(p)
  PROVE  IInv'
  <1> USE DEF IInv, LeaderWait, Awake, state, wal, Leading, Flushing
  <1>1. TypeOK' BY DEF TypeOK
  <1>2. SingleFlush' /\ LeaderOwnsCohort' BY DEF SingleFlush, LeaderOwnsCohort
  <1>3. Generations' BY DEF Generations
  <1>4. Covered' BY DEF Covered, Member
  <1>5. Settled' /\ AckedDurable' BY DEF Settled, AckedDurable
  <1> QED BY <1>1, <1>2, <1>3, <1>4, <1>5

\* CloseCohort preserves the invariant: the closed generation becomes the flushing one.
LEMMA CloseCohortIInv ==
  ASSUME IInv, NEW p \in Committers, CloseCohort(p)
  PROVE  IInv'
  <1> USE DEF IInv, CloseCohort, Awake, Goto, wal, PC, Leading, Flushing
  <1>1. TypeOK'
    <2>1. accumulating' \in Nat \ {0}
      BY DEF TypeOK
    <2>2. pc' \in [Committers -> PC]
      BY DEF TypeOK
    <2>3. parked' \subseteq {q \in Committers : pc'[q] \in {"follow", "close"}}
      BY DEF TypeOK
    <2> QED BY <2>1, <2>2, <2>3 DEF TypeOK
  <1>2. SingleFlush' BY DEF TypeOK, SingleFlush
  <1>3. LeaderOwnsCohort' BY DEF TypeOK, LeaderOwnsCohort, Generations
  <1>4. Generations'
    BY DEF TypeOK, SingleFlush, LeaderOwnsCohort, Generations
  <1>5. Covered'
    BY DEF TypeOK, SingleFlush, LeaderOwnsCohort, Generations, Covered, Member
  <1>6. Settled'
    BY DEF TypeOK, SingleFlush, Generations, Covered, Settled, Member
  <1>7. AckedDurable' BY DEF AckedDurable
  <1> QED BY <1>1, <1>2, <1>3, <1>4, <1>5, <1>6, <1>7

\* Flush preserves the invariant: flush_wal covers every batch written so far, the cohort's among them.
LEMMA FlushIInv ==
  ASSUME IInv, NEW p \in Committers, Flush(p)
  PROVE  IInv'
  <1> USE DEF IInv, Flush, Goto, state, PC, Leading, Flushing
  <1>1. TypeOK' BY DEF TypeOK
  <1>2. SingleFlush' BY DEF TypeOK, SingleFlush
  <1>3. LeaderOwnsCohort' BY DEF TypeOK, LeaderOwnsCohort, Generations
  <1>4. Generations'
    BY DEF TypeOK, SingleFlush, LeaderOwnsCohort, Generations
  <1>5. Covered'
    BY DEF TypeOK, SingleFlush, LeaderOwnsCohort, Generations, Covered, Member
  <1>6. Settled'
    BY DEF TypeOK, SingleFlush, Generations, Covered, Settled, Member
  <1>7. AckedDurable' BY DEF AckedDurable
  <1> QED BY <1>1, <1>2, <1>3, <1>4, <1>5, <1>6, <1>7

\* Sync preserves the invariant: a successful fsync puts the cohort on disk.
LEMMA SyncIInv ==
  ASSUME IInv, NEW p \in Committers, Sync(p)
  PROVE  IInv'
  <1> USE DEF IInv, Sync, Goto, state, PC, Leading, Flushing
  <1>1. TypeOK' BY DEF TypeOK
  <1>2. SingleFlush' BY DEF TypeOK, SingleFlush
  <1>3. LeaderOwnsCohort' BY DEF TypeOK, LeaderOwnsCohort, Generations
  <1>4. Generations'
    BY DEF TypeOK, SingleFlush, LeaderOwnsCohort, Generations
  <1>5. Covered'
    BY DEF TypeOK, SingleFlush, LeaderOwnsCohort, Generations, Covered, Member
  <1>6. Settled'
    BY DEF TypeOK, SingleFlush, Generations, Covered, Settled, Member
  <1>7. AckedDurable'
    BY DEF TypeOK, Covered, Generations, SingleFlush, Settled, AckedDurable, Member
  <1> QED BY <1>1, <1>2, <1>3, <1>4, <1>5, <1>6, <1>7

\* Publish preserves the invariant: the flushing generation is settled, the prune spares recent failures.
LEMMA PublishIInv ==
  ASSUME IInv, NEW p \in Committers, Publish(p)
  PROVE  IInv'
  <1> USE DEF IInv, Publish, Acknowledge, Return, Goto, Retained, Max2, wal, PC, Leading, Flushing
  <1>1. TypeOK'
    <2>1. completed' \in Nat /\ completed' >= myGen[p]
      BY DEF TypeOK, Publish, Max2
    <2>2. failed' \subseteq Nat
      BY DEF TypeOK, Publish, Retained
    <2>3. acked' \subseteq [lsn : Nat, lag : Nat]
      BY <2>1 DEF IInv, TypeOK, Publish, Acknowledge
    <2>4. pc' \in [Committers -> PC]
      BY DEF TypeOK, Publish, Return, Goto, PC
    <2>5. myGen' \in [Committers -> Nat] /\ lsn' \in [Committers -> Nat]
      BY DEF TypeOK, Publish, Return
    <2>6. outcome' \in [Committers -> {"ok", "err"}]
      BY DEF TypeOK, Publish, Return
    <2> QED BY <2>1, <2>2, <2>3, <2>4, <2>5, <2>6
            DEF IInv, TypeOK, Publish, wal
  <1>2. SingleFlush' BY DEF TypeOK, SingleFlush
  <1>3. LeaderOwnsCohort' BY DEF TypeOK, LeaderOwnsCohort, Generations
  <1>4. Generations'
    BY DEF TypeOK, SingleFlush, LeaderOwnsCohort, Generations
  <1>5. Covered'
    BY DEF TypeOK, SingleFlush, LeaderOwnsCohort, Generations, Covered, Member
  <1>6. Settled'
    BY GroupCommitAssumption DEF TypeOK, SingleFlush, Generations, Covered, Settled, Member
  <1>7. AckedDurable'
    BY GroupCommitAssumption DEF TypeOK, Covered, Generations, SingleFlush, Settled, AckedDurable, Member
  <1> QED BY <1>1, <1>2, <1>3, <1>4, <1>5, <1>6, <1>7

\* One step of anybody, or of nobody, preserves the invariant.
LEMMA NextIInv == IInv /\ [Next]_vars => IInv'
  <1> SUFFICES ASSUME IInv, [Next]_vars PROVE IInv'
      OBVIOUS
  <1>1. CASE UNCHANGED vars
      BY <1>1 DEF IInv, TypeOK, SingleFlush, LeaderOwnsCohort, Generations,
                  Covered, Settled, AckedDurable, Member, vars
  <1>2. CASE Next
      BY <1>2, WriteIInv, JoinIInv, FollowerWaitIInv, FollowerReturnIInv,
         WindowElapsedIInv, LeaderWaitIInv, CloseCohortIInv, FlushIInv,
         SyncIInv, PublishIInv DEF Next, Step
  <1> QED BY <1>1, <1>2

\* The inductive invariant holds in every reachable state.
THEOREM Invariance == Spec => []IInv
  BY InitIInv, NextIInv, PTL DEF Spec

\* Type correctness of the committer.
THEOREM TypeCorrect == Spec => []TypeOK
  <1>1. IInv => TypeOK BY DEF IInv
  <1> QED BY Invariance, <1>1, PTL

\* A commit reported as durable is covered by a successful fsync, unless its
\* thread slept through ERROR_RETENTION_GENS further generations.
THEOREM Durability == Spec => []AckedDurable
  <1>1. IInv => AckedDurable BY DEF IInv
  <1> QED BY Invariance, <1>1, PTL

\* There is never more than one flush_wal in flight.
THEOREM OneFlush == Spec => []SingleFlush
  <1>1. IInv => SingleFlush BY DEF IInv
  <1> QED BY Invariance, <1>1, PTL

\* The debug_assert of wait_durable never fires.
THEOREM LeaderAssertion == Spec => []LeaderOwnsCohort
  <1>1. IInv => LeaderOwnsCohort BY DEF IInv
  <1> QED BY Invariance, <1>1, PTL
=============================================================================
