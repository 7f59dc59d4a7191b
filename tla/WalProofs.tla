----------------------------- MODULE WalProofs ------------------------------
(***************************************************************************)
(* Proofs about Wal for any set of writers, any number of LSNs, sessions   *)
(* and checkpoints.  PublishedInOrder and PrunedIsCheckpointed are not     *)
(* inductive; WalInv adds                                                  *)
(*   - Spans: the LSNs of an unresolved commit are an interval;            *)
(*   - Owned: they are reserved, and no two commits share one;             *)
(*   - Window: only LSNs between next and current have a slot;             *)
(*   - Logged: what a slot and a writer say of an LSN is what the disk     *)
(*     holds for this session, and the entries on disk were logged;        *)
(*   - Together: entries and rows of a staged commit appear together, and  *)
(*     a row still to be written belongs to a statement that logs apart;   *)
(*   - Fresh: without a reuse, an LSN to be written was never used;        *)
(*   - Surveyed: a checkpoint deletes nothing above its own LSN.           *)
(***************************************************************************)
EXTENDS Wal, WellFoundedInduction, TLAPS

\* A commit whose LSNs are not resolved.
Unresolved == {"staged", "append", "written", "void"}

Spans ==
    \A w \in Writers : pc[w] \in Unresolved =>
      \E a, b \in Lsns : a <= b /\ span[w] = a .. b

Owned ==
    /\ \A w \in Writers : pc[w] \in Unresolved =>
         \A l \in span[w] : slots[l] = "reserved"
    /\ \A v, w \in Writers :
         pc[v] \in Unresolved /\ pc[w] \in Unresolved /\ v # w =>
           span[v] \cap span[w] = {}

Window ==
    /\ next <= current + 1
    /\ \A l \in Lsns : slots[l] # "none" => next <= l /\ l <= current

Logged ==
    /\ \A op \in logged : op.session <= session
    /\ \A op \in logged : op.session = session => op.lsn <= current
    /\ \A l \in Lsns : slots[l] = "ready" => Op(l) \in logged
    /\ \A l \in Lsns : slots[l] = "skipped" => Op(l) \notin logged
    /\ \A w \in Writers : pc[w] = "written" => \A l \in span[w] : Op(l) \in logged
    /\ \A w \in Writers : pc[w] \in {"staged", "append", "void"} =>
         \A l \in span[w] : Op(l) \notin logged
    /\ \A l \in Lsns : entries[l] # 0 => LogOp(l) \in logged

\* Past the publication, a span is the rows the statement still owes.
Together ==
    /\ logged \ apart = rows \ apart
    /\ \A w \in Writers : pc[w] \in {"append", "published", "checkpoint", "row"} =>
         \A l \in span[w] : Op(l) \in apart

Fresh ==
    races = {} =>
      /\ \A op \in logged : op.lsn <= current
      /\ \A w \in Writers : pc[w] \in {"staged", "append"} =>
           \A op \in logged : op.lsn \notin span[w]

\* PublishedInOrder and PrunedIsCheckpointed, as far as they are about entries.
InOrder ==
    /\ shown \subseteq logged
    /\ \A op \in logged : op.session = session => (op \in shown <=> op.lsn < next)

Covered ==
    races = {} => \A op \in logged : entries[op.lsn] # op.session => op.lsn <= ckpt

Surveyed == \A w \in Writers : \A l \in scan[w].keys : l <= scan[w].lsn

WalInv ==
    /\ WalTypeOK
    /\ Spans
    /\ Owned
    /\ Window
    /\ Logged
    /\ Together
    /\ Fresh
    /\ Surveyed
    /\ InOrder
    /\ Covered

-----------------------------------------------------------------------------
(* The greatest element of a bounded set of integers.                      *)

\* A non-empty set of naturals has a least element.
LEMMA LeastElement ==
  ASSUME NEW S, S \subseteq Nat, S # {}
  PROVE  \E x \in S : \A y \in S : x <= y
  <1>1. PICK x \in S : \A y \in S : ~(<<y, x>> \in OpToRel(<, Nat))
    BY NatLessThanWellFounded, WFMin, Zenon
  <1>2. ASSUME NEW y \in S PROVE x <= y
    <2>1. y < x => <<y, x>> \in OpToRel(<, Nat) BY DEF OpToRel
    <2>2. ~(y < x) BY <1>1, <2>1, Zenon
    <2> QED BY <2>2
  <1> QED BY <1>2

\* Max of a non-empty bounded set is its greatest element.
LEMMA MaxExists ==
  ASSUME NEW S, S \subseteq Int, S # {}, NEW b \in Int, \A x \in S : x <= b
  PROVE  Max(S) \in S /\ \A x \in S : x <= Max(S)
  <1> DEFINE T == {b - x : x \in S}
  <1>1. T \subseteq Nat
    <2>1. ASSUME NEW x \in S PROVE b - x \in Nat OBVIOUS
    <2> QED BY <2>1
  <1>2. T # {} OBVIOUS
  <1>3. PICK t \in T : \A y \in T : t <= y BY <1>1, <1>2, LeastElement
  <1>4. PICK m \in S : t = b - m BY <1>3
  <1>5. ASSUME NEW x \in S PROVE m >= x
    <2>1. b - x \in T OBVIOUS
    <2>2. t <= b - x BY <1>3, <2>1
    <2>3. x \in Int /\ m \in Int OBVIOUS
    <2> QED BY <1>4, <2>2, <2>3
  <1> QED BY <1>5 DEF Max

\* wal:last_lsn of a batch is its last LSN.
LEMMA MaxInterval ==
  ASSUME NEW a \in Int, NEW b \in Int, a <= b
  PROVE  Max(a .. b) = b
  <1>1. Max(a .. b) \in a .. b /\ \A x \in a .. b : x <= Max(a .. b)
    <2>1. a .. b \subseteq Int /\ a .. b # {} /\ \A x \in a .. b : x <= b
      OBVIOUS
    <2> QED BY <2>1, MaxExists
  <1>2. Max(a .. b) \in Int /\ Max(a .. b) <= b /\ b <= Max(a .. b) BY <1>1
  <1> QED BY <1>2

\* Max of two integers is the larger one.
LEMMA MaxPair ==
  ASSUME NEW a \in Int, NEW b \in Int
  PROVE  Max({a, b}) \in {a, b} /\ Max({a, b}) >= a /\ Max({a, b}) >= b
  <1> DEFINE c == IF a <= b THEN b ELSE a
  <1>1. c \in Int /\ {a, b} \subseteq Int /\ \A x \in {a, b} : x <= c OBVIOUS
  <1> QED BY <1>1, MaxExists

-----------------------------------------------------------------------------
\* An empty log is consistent.
LEMMA InitInv == WalInit => WalInv
  <1> SUFFICES ASSUME WalInit PROVE WalInv
      OBVIOUS
  <1> USE WalAssumption DEF WalInit, Lsns, Sessions, NoCheckpoint, NoScan
  <1>1. WalTypeOK BY DEF WalTypeOK, SlotStates, WriterPC, Known
  <1>2. Spans /\ Owned BY DEF Spans, Owned, Unresolved
  <1>3. Window /\ Logged /\ Together /\ Fresh
    BY DEF Window, Logged, Together, Fresh, Op
  <1>4. Surveyed BY DEF Surveyed
  <1>5. InOrder /\ Covered
    BY DEF InOrder, Covered
  <1> QED BY <1>1, <1>2, <1>3, <1>4, <1>5 DEF WalInv

\* Stage, ReserveHole and append: fresh LSNs above every used one get a slot.
LEMMA ReserveInv ==
  ASSUME WalInv, NEW w \in Writers, NEW n \in 1 .. MaxBatch, Reserve(w, n),
         pc[w] = "idle",
         UNCHANGED <<session, scan, checkpoints, disk, logged, shown, races>>,
         \/ /\ Goto(w, "staged") \/ Goto(w, "void")
            /\ UNCHANGED <<rows, apart>>
         \/ /\ Goto(w, "append") /\ n = 1
            /\ apart' = apart \cup {Op(current + 1)}
            /\ rows' = rows \/ rows' = rows \cup {Op(current + 1)}
  PROVE  WalInv'
  <1> DEFINE lsns == current + 1 .. current + n
  <1> USE WalAssumption DEF WalInv, disk, Lsns, Sessions
  <1>0. n \in Nat \ {0} OBVIOUS
  <1>1. /\ mutex = None /\ current + n <= MaxLsn
        /\ current' = current + n
        /\ slots' = [l \in Lsns |-> IF l \in lsns THEN "reserved" ELSE slots[l]]
        /\ span' = [span EXCEPT ![w] = lsns]
        /\ UNCHANGED <<next, published, mutex>>
    BY DEF Reserve
  <1>2. /\ \A l \in lsns : l \in Lsns /\ l > current /\ slots[l] = "none"
        /\ current \in Nat
    BY <1>0, <1>1 DEF WalTypeOK, Window
  <1>3. /\ pc' \in [Writers -> WriterPC] /\ pc'[w] \in {"staged", "void", "append"}
        /\ \A v \in Writers : v # w => pc'[v] = pc[v] /\ span'[v] = span[v]
        /\ span'[w] = lsns
    BY <1>1 DEF WalTypeOK, Goto, WriterPC
  <1>4. WalTypeOK'
    <2>1. slots' \in [Lsns -> SlotStates] BY <1>1 DEF WalTypeOK, SlotStates
    <2>2. span' \in [Writers -> SUBSET Lsns] BY <1>1, <1>2 DEF WalTypeOK
    <2>3. current' \in 0 .. MaxLsn BY <1>0, <1>1 DEF WalTypeOK
    <2>4. Op(current + 1) \in [session : Sessions, lsn : Lsns]
      <3>1. current + 1 \in lsns BY <1>0, <1>2
      <3> QED BY <1>2, <3>1 DEF Op, WalTypeOK
    <2>5. /\ rows' \subseteq [session : Sessions, lsn : Lsns]
          /\ apart' \subseteq [session : Sessions, lsn : Lsns]
      BY <2>4 DEF WalTypeOK
    <2> QED BY <1>1, <1>3, <2>1, <2>2, <2>3, <2>5 DEF WalTypeOK
  <1>5. Spans'
    <2>1. current + 1 \in Lsns /\ current + n \in Lsns /\ current + 1 <= current + n
      BY <1>0, <1>1, <1>2
    <2> QED BY <1>3, <2>1 DEF Spans, Unresolved
  <1>6. Owned'
    <2>1. \A v \in Writers \ {w} : pc[v] \in Unresolved => span[v] \cap lsns = {}
      BY <1>2 DEF Owned
    <2>2. \A l \in lsns : slots'[l] = "reserved" BY <1>1, <1>2
    <2>3. \A l \in Lsns \ lsns : slots'[l] = slots[l] BY <1>1
    <2>4. \A v \in Writers : span[v] \subseteq Lsns BY DEF WalTypeOK
    <2> HIDE DEF lsns
    <2> QED BY <1>3, <2>1, <2>2, <2>3, <2>4 DEF Owned
  <1>7. Window' BY <1>0, <1>1, <1>2 DEF Window, WalTypeOK
  <1>8. Logged'
    <2>1. \A l \in lsns : Op(l) \notin logged
      BY <1>2 DEF Logged, Op
    <2>2. /\ \A op \in logged' : op.session <= session'
          /\ \A op \in logged' : op.session = session' => op.lsn <= current'
      BY <1>0, <1>1, <1>2 DEF Logged, WalTypeOK
    <2>3. \A l : Op(l)' = Op(l) BY DEF Op
    <2>4. \A l \in Lsns : slots'[l] \in {"ready", "skipped"} => slots'[l] = slots[l]
      BY <1>1
    <2>5. \A l : LogOp(l)' = LogOp(l) BY DEF LogOp
    <2> HIDE DEF lsns
    <2> QED BY <1>3, <2>1, <2>2, <2>3, <2>4, <2>5 DEF Logged
  <1>13. Together'
    <2>1. logged' \ apart' = rows' \ apart' BY DEF Together
    <2>2. \A l : Op(l)' = Op(l) BY DEF Op
    <2>3. pc'[w] = "append" => \A l \in span'[w] : Op(l)' \in apart'
      <3> SUFFICES ASSUME pc'[w] = "append", NEW l \in lsns PROVE Op(l) \in apart'
        BY <1>3, <2>2
      <3>1. n = 1 /\ apart' = apart \cup {Op(current + 1)}
        BY DEF Goto, WalTypeOK
      <3>2. l = current + 1 BY <1>2, <3>1
      <3> QED BY <3>1, <3>2
    <2>4. \A op \in apart : op \in apart' OBVIOUS
    <2> HIDE DEF lsns
    <2> QED BY <1>3, <2>1, <2>2, <2>3, <2>4 DEF Together
  <1>9. Fresh'
    <2>1. \A op \in logged : op.lsn \in Nat BY DEF WalTypeOK
    <2> QED BY <1>0, <1>1, <1>2, <1>3, <2>1 DEF Fresh
  <1>10. Surveyed' BY DEF Surveyed
  <1>11. InOrder' BY <1>1 DEF InOrder
  <1>12. Covered' BY DEF Covered
  <1> QED BY <1>4, <1>5, <1>6, <1>7, <1>8, <1>9, <1>10, <1>11, <1>12, <1>13

\* The batch: entries of unused LSNs appear above next, with the rows of a staged
\* commit.
LEMMA WriteInv ==
  ASSUME WalInv, NEW w \in Writers, Write(w)
  PROVE  WalInv'
  <1> USE WalAssumption DEF WalInv, Lsns, Sessions
  <1>1. PICK a, b \in Lsns : a <= b /\ span[w] = a .. b
    BY DEF Write, Spans, Unresolved
  <1>2. last' = b
    <2>1. Max(a .. b) = b BY <1>1, MaxInterval
    <2> QED BY <1>1, <2>1 DEF Write
  <1>3. /\ pc[w] \in {"staged", "append"} /\ pc' = [pc EXCEPT ![w] = "written"]
        /\ entries' = [l \in Lsns |-> IF l \in span[w] THEN session ELSE entries[l]]
        /\ logged' = logged \cup {Op(l) : l \in span[w]}
        /\ rows' = IF pc[w] = "staged" THEN rows \cup {Op(l) : l \in span[w]} ELSE rows
        /\ UNCHANGED <<session, current, next, slots, published, mutex, span,
                       scan, checkpoints, ckpt, apart, shown, races>>
    BY DEF Write, Goto, publisher
  <1>4. /\ span[w] \subseteq Lsns
        /\ \A l \in span[w] : slots[l] = "reserved" /\ Op(l) \notin logged
        /\ \A l \in span[w] : next <= l /\ l <= current
    BY <1>3 DEF WalTypeOK, Owned, Unresolved, Logged, Window
  <1>5. \A l \in Lsns : Op(l) \in [session : Sessions, lsn : Lsns]
    BY DEF Op, WalTypeOK
  <1>6. \A l : Op(l)' = Op(l) BY <1>3 DEF Op
  <1>7. \A op \in logged' : op \in logged \/ (op.session = session /\ op.lsn \in span[w] /\ op = Op(op.lsn))
    BY <1>3 DEF Op
  <1> HIDE DEF Lsns, Sessions
  <1>8. WalTypeOK'
    <2>1. entries' \in [Lsns -> 0 .. MaxSessions] BY <1>3 DEF WalTypeOK, Sessions
    <2>2. /\ logged' \subseteq [session : Sessions, lsn : Lsns]
          /\ rows' \subseteq [session : Sessions, lsn : Lsns]
      BY <1>3, <1>4, <1>5 DEF WalTypeOK
    <2>3. pc' \in [Writers -> WriterPC] BY <1>3 DEF WalTypeOK, WriterPC
    <2>4. last' \in 0 .. MaxLsn BY <1>2 DEF Lsns
    <2> QED BY <1>3, <2>1, <2>2, <2>3, <2>4 DEF WalTypeOK
  <1>9. pc'[w] = "written" /\ \A v \in Writers : v # w => pc'[v] = pc[v]
    BY <1>3 DEF WalTypeOK
  <1>10. Spans' BY <1>3, <1>9 DEF Spans, Unresolved
  <1>11. Owned' BY <1>3, <1>9 DEF Owned, Unresolved
  <1>12. Window' BY <1>3 DEF Window
  <1>13. Logged'
    <2>1. \A op \in logged' : op.session <= session'
      BY <1>3, <1>7 DEF Logged, WalTypeOK, Sessions
    <2>2. \A op \in logged' : op.session = session' => op.lsn <= current'
      BY <1>3, <1>4, <1>7 DEF Logged
    <2>3. \A l \in Lsns : slots'[l] = "ready" => Op(l)' \in logged'
      BY <1>3, <1>6 DEF Logged
    <2>4. \A l \in Lsns : l \notin span[w] /\ Op(l) \notin logged => Op(l) \notin logged'
      BY <1>3 DEF Op
    <2>5. \A l \in Lsns : slots'[l] = "skipped" => Op(l)' \notin logged'
      BY <1>3, <1>4, <1>6, <2>4 DEF Logged
    <2>6. \A v \in Writers : pc'[v] = "written" => \A l \in span'[v] : Op(l)' \in logged'
      BY <1>3, <1>6, <1>9 DEF Logged
    <2>7. ASSUME NEW v \in Writers, pc'[v] \in {"staged", "append", "void"},
                 NEW l \in span'[v]
          PROVE  Op(l)' \notin logged'
      <3>1. v # w /\ pc[v] = pc'[v] BY <1>9, <2>7
      <3>2. l \in Lsns /\ l \notin span[w] BY <1>3, <2>7, <3>1 DEF Owned, Unresolved, WalTypeOK
      <3> QED BY <1>3, <1>6, <2>4, <2>7, <3>1, <3>2 DEF Logged
    <2>8. \A l \in Lsns : entries'[l] # 0 => LogOp(l)' \in logged'
      BY <1>3 DEF Logged, LogOp, Op
    <2> QED BY <2>1, <2>2, <2>3, <2>5, <2>6, <2>7, <2>8 DEF Logged
  <1>18. Together'
    <2>1. logged' \ apart' = rows' \ apart'
      <3>1. CASE pc[w] = "staged" BY <1>3, <3>1 DEF Together
      <3>2. CASE pc[w] = "append"
        <4>1. \A l \in span[w] : Op(l) \in apart BY <3>2 DEF Together
        <4> QED BY <1>3, <3>2, <4>1 DEF Together
      <3> QED BY <1>3, <3>1, <3>2
    <2> QED BY <1>3, <1>6, <1>9, <2>1 DEF Together
  <1>14. Fresh'
    <2> SUFFICES ASSUME races = {} PROVE
          /\ \A op \in logged' : op.lsn <= current'
          /\ \A v \in Writers : pc'[v] \in {"staged", "append"} =>
               \A op \in logged' : op.lsn \notin span'[v]
      BY <1>3 DEF Fresh
    <2>1. \A op \in logged' : op.lsn <= current' BY <1>3, <1>4, <1>7 DEF Fresh
    <2>2. ASSUME NEW v \in Writers, pc'[v] \in {"staged", "append"}, NEW op \in logged'
          PROVE  op.lsn \notin span'[v]
      <3>1. v # w /\ pc[v] \in {"staged", "append"} BY <1>9, <2>2
      <3>2. span[v] \cap span[w] = {} BY <1>3, <3>1 DEF Owned, Unresolved
      <3> QED BY <1>3, <1>7, <3>1, <3>2 DEF Fresh
    <2> QED BY <2>1, <2>2
  <1>15. Surveyed' BY <1>3 DEF Surveyed
  <1>16. InOrder'
    <2>1. shown' \subseteq logged' BY <1>3 DEF InOrder
    <2>2. ASSUME NEW op \in logged', op.session = session'
          PROVE  op \in shown' <=> op.lsn < next'
      <3>1. CASE op \in logged BY <1>3, <2>2, <3>1 DEF InOrder
      <3>2. CASE op \notin logged
        <4>1. op.lsn \in span[w] /\ op \notin shown
          BY <1>7, <3>2 DEF InOrder
        <4>2. op.lsn \in Nat /\ next \in Nat BY <1>4, <4>1 DEF WalTypeOK, Lsns
        <4> QED BY <1>3, <1>4, <4>1, <4>2
      <3> QED BY <3>1, <3>2
    <2> QED BY <2>1, <2>2 DEF InOrder
  <1>17. Covered'
    <2> SUFFICES ASSUME races = {}, NEW op \in logged', entries'[op.lsn] # op.session
                 PROVE  op.lsn <= ckpt
      BY <1>3 DEF Covered
    <2>1. op.lsn \in Lsns BY <1>8 DEF WalTypeOK
    <2>2. CASE op.lsn \in span[w]
      <3>1. op.session # session BY <1>3, <2>1, <2>2
      <3>2. op \in logged BY <1>7, <3>1
      <3> QED BY <1>3, <2>2, <3>2 DEF Fresh
    <2>3. CASE op.lsn \notin span[w]
      <3>1. op \in logged BY <1>7, <2>3
      <3>2. entries'[op.lsn] = entries[op.lsn] BY <1>3, <2>1, <2>3
      <3> QED BY <3>1, <3>2 DEF Covered
    <2> QED BY <2>2, <2>3
  <1> QED BY <1>8, <1>10, <1>11, <1>12, <1>13, <1>14, <1>15, <1>16, <1>17, <1>18

\* A writer that moves on without a log or an LSN: a failed write, the end of a
\* publication that is not due for a checkpoint, and the checkpoint's survey.
LEMMA MoveInv ==
  ASSUME WalInv, NEW w \in Writers,
         WriteFails(w) \/ NotDue(w) \/ CheckpointScan(w) \/ CheckpointFails(w)
  PROVE  WalInv'
  <1> USE WalAssumption DEF WalInv
  <1>1. /\ pc' \in [Writers -> WriterPC]
        /\ pc'[w] \in Unresolved => pc[w] \in {"staged", "append"} /\ pc'[w] = "void"
        /\ pc'[w] \in {"checkpoint", "row"} => pc[w] \in {"published", "checkpoint"}
        /\ pc'[w] \notin {"append", "published"}
        /\ \A v \in Writers : v # w => pc'[v] = pc[v]
        /\ UNCHANGED <<session, publisher, span, disk, store, shown, races>>
    BY DEF WriteFails, NotDue, CheckpointScan, CheckpointFails, Goto, Return,
           WalTypeOK, WriterPC, Unresolved
  <1>2. UNCHANGED <<session, current, next, slots, published, mutex, span,
                    entries, last, ckpt, logged, rows, apart, shown, races>>
    BY <1>1 DEF publisher, disk, store
  <1>3. \A l : Op(l)' = Op(l) BY <1>2 DEF Op
  <1>4. /\ checkpoints' \in 0 .. MaxCheckpoints
        /\ scan' \in [Writers -> [lsn : 0 .. MaxLsn, keys : SUBSET Lsns,
                                  last : 0 .. MaxLsn]]
        /\ Surveyed'
    <2>1. CASE WriteFails(w) \/ NotDue(w)
      BY <2>1 DEF WriteFails, NotDue, WalTypeOK, Surveyed
    <2>2. CASE CheckpointScan(w)
      BY <2>2 DEF CheckpointScan, WalTypeOK, Surveyed, Retained
    <2>3. CASE CheckpointFails(w)
      BY <2>3 DEF CheckpointFails, NoScan, WalTypeOK, Surveyed
    <2> QED BY <2>1, <2>2, <2>3
  <1>5. WalTypeOK' BY <1>1, <1>2, <1>4 DEF WalTypeOK
  <1>6. Spans' BY <1>1, <1>2 DEF Spans, Unresolved
  <1>7. Owned' BY <1>1, <1>2 DEF Owned, Unresolved
  <1>8. Window' BY <1>2 DEF Window
  <1>9. Logged' BY <1>1, <1>2, <1>3 DEF Logged, LogOp, Unresolved
  <1>10. Fresh' BY <1>1, <1>2 DEF Fresh, Unresolved
  <1>11. InOrder' BY <1>2 DEF InOrder
  <1>12. Covered' BY <1>2 DEF Covered
  <1>13. Together' BY <1>1, <1>2, <1>3 DEF Together
  <1> QED BY <1>4, <1>5, <1>6, <1>7, <1>8, <1>9, <1>10, <1>11, <1>12, <1>13

\* The row that was logged apart is written, or never will be.
LEMMA RowInv ==
  ASSUME WalInv, NEW w \in Writers, WriteRow(w) \/ RowFails(w)
  PROVE  WalInv'
  <1> USE WalAssumption DEF WalInv
  <1>1. /\ pc[w] = "row" /\ pc' = [pc EXCEPT ![w] = "idle"]
        /\ span' = [span EXCEPT ![w] = {}]
        /\ rows' = rows \/ rows' = rows \cup {Op(l) : l \in span[w]}
        /\ UNCHANGED <<session, current, next, slots, published, mutex, scan,
                       checkpoints, entries, last, ckpt, logged, apart, shown, races>>
    BY DEF WriteRow, RowFails, Goto, publisher, disk, store
  <1>2. /\ pc'[w] = "idle"
        /\ \A v \in Writers : v # w => pc'[v] = pc[v] /\ span'[v] = span[v]
    BY <1>1 DEF WalTypeOK
  <1>3. \A l : Op(l)' = Op(l) BY <1>1 DEF Op
  <1>4. {Op(l) : l \in span[w]} \subseteq apart BY <1>1 DEF Together
  <1>5. WalTypeOK'
    <2>1. pc' \in [Writers -> WriterPC] BY <1>1 DEF WalTypeOK, WriterPC
    <2>2. span' \in [Writers -> SUBSET Lsns] BY <1>1 DEF WalTypeOK
    <2>3. rows' \subseteq [session : Sessions, lsn : Lsns] BY <1>1, <1>4 DEF WalTypeOK
    <2> QED BY <1>1, <2>1, <2>2, <2>3 DEF WalTypeOK
  <1>6. Spans' /\ Owned' BY <1>1, <1>2 DEF Spans, Owned, Unresolved
  <1>7. Window' /\ Surveyed' BY <1>1 DEF Window, Surveyed
  <1>8. Logged' BY <1>1, <1>2, <1>3 DEF Logged, LogOp
  <1>9. Together'
    <2>1. logged' \ apart' = rows' \ apart' BY <1>1, <1>4 DEF Together
    <2> QED BY <1>1, <1>2, <1>3, <2>1 DEF Together
  <1>10. Fresh' BY <1>1, <1>2 DEF Fresh
  <1>11. InOrder' /\ Covered' BY <1>1 DEF InOrder, Covered
  <1> QED BY <1>5, <1>6, <1>7, <1>8, <1>9, <1>10, <1>11

\* Resolve: the slots say ready exactly when the entries are on disk.
LEMMA ResolveInv ==
  ASSUME WalInv, NEW w \in Writers, Resolve(w)
  PROVE  WalInv'
  <1> USE WalAssumption DEF WalInv
  <1>1. /\ pc[w] \in {"written", "void"}
        /\ pc'[w] \notin Unresolved /\ pc' \in [Writers -> WriterPC]
        /\ \A v \in Writers : v # w => pc'[v] = pc[v]
        /\ slots' = [l \in Lsns |->
                       IF l \notin span[w] THEN slots[l]
                       ELSE IF pc[w] = "written" THEN "ready" ELSE "skipped"]
        /\ mutex' = w
    BY DEF Resolve, Goto, WalTypeOK, WriterPC, Unresolved
  <1>2. /\ UNCHANGED <<session, current, next, published, span, scan, checkpoints,
                       entries, last, ckpt, logged, rows, apart, shown, races>>
        /\ pc'[w] \in {"publishing", "skipping"}
    BY DEF Resolve, disk, store, Goto, WalTypeOK
  <1>3. \A l : Op(l)' = Op(l) BY <1>2 DEF Op
  <1>4. slots' \in [Lsns -> SlotStates] BY <1>1 DEF WalTypeOK, SlotStates
  <1>5. WalTypeOK' BY <1>1, <1>2, <1>4 DEF WalTypeOK
  <1>6. Spans' BY <1>1, <1>2 DEF Spans
  <1>7. Owned'
    <2>1. \A v \in Writers : v # w /\ pc[v] \in Unresolved => span[v] \cap span[w] = {}
      BY <1>1 DEF Owned, Unresolved
    <2>2. \A v \in Writers : span[v] \subseteq Lsns BY DEF WalTypeOK
    <2> QED BY <1>1, <1>2, <2>1, <2>2 DEF Owned
  <1>8. Window'
    <2>1. \A l \in span[w] : slots[l] # "none"
      BY <1>1 DEF Owned, Unresolved
    <2> QED BY <1>1, <1>2, <2>1 DEF Window
  <1>9. Logged'
    <2>1. \A l \in Lsns : slots'[l] = "ready" => Op(l)' \in logged'
      BY <1>1, <1>2, <1>3 DEF Logged
    <2>2. \A l \in Lsns : slots'[l] = "skipped" => Op(l)' \notin logged'
      BY <1>1, <1>2, <1>3 DEF Logged
    <2>3. \A v \in Writers : pc'[v] \in Unresolved => pc'[v] = pc[v] BY <1>1
    <2> QED BY <1>2, <1>3, <2>1, <2>2, <2>3 DEF Logged, LogOp, Unresolved
  <1>10. Fresh' BY <1>1, <1>2 DEF Fresh, Unresolved
  <1>11. Surveyed' BY <1>2 DEF Surveyed
  <1>12. InOrder' BY <1>2 DEF InOrder
  <1>13. Covered' BY <1>2 DEF Covered
  <1>14. Together' BY <1>1, <1>2, <1>3 DEF Together
  <1> QED BY <1>5, <1>6, <1>7, <1>8, <1>9, <1>10, <1>11, <1>12, <1>13, <1>14

\* One turn of the publication loop shows what committed and passes what did not.
LEMMA PublishNextInv ==
  ASSUME WalInv, NEW w \in Writers, PublishNext(w)
  PROVE  WalInv'
  <1> USE WalAssumption DEF WalInv
  <1>1. /\ next \in Lsns /\ slots[next] \in {"ready", "skipped"}
        /\ shown' = IF slots[next] = "ready" THEN shown \cup {Op(next)} ELSE shown
        /\ slots' = [slots EXCEPT ![next] = "none"]
        /\ next' = next + 1
        /\ UNCHANGED <<session, current, published, mutex, pc, span, scan,
                       checkpoints, entries, last, ckpt, logged, rows, apart, races>>
    BY DEF PublishNext, Settled, disk, store
  <1>2. \A l : Op(l)' = Op(l) BY <1>1 DEF Op
  <1>3. slots'[next] = "none" /\ \A l \in Lsns : l # next => slots'[l] = slots[l]
    BY <1>1 DEF WalTypeOK
  <1>4. shown' \subseteq logged' BY <1>1 DEF InOrder, Logged
  <1>5. WalTypeOK'
    <2>1. slots' \in [Lsns -> SlotStates] BY <1>1 DEF WalTypeOK, SlotStates
    <2>2. next' \in 1 .. MaxLsn + 1 BY <1>1 DEF Lsns
    <2> QED BY <1>1, <1>4, <2>1, <2>2 DEF WalTypeOK
  <1>6. Spans' BY <1>1 DEF Spans
  <1>7. Owned'
    <2>1. \A v \in Writers : span[v] \subseteq Lsns BY DEF WalTypeOK
    <2>2. \A v \in Writers : pc[v] \in Unresolved => next \notin span[v]
      BY <1>1 DEF Owned
    <2> QED BY <1>1, <1>3, <2>1, <2>2 DEF Owned
  <1>8. Window' BY <1>1, <1>3 DEF Window, WalTypeOK, Lsns
  <1>9. Logged' BY <1>1, <1>2, <1>3 DEF Logged, LogOp
  <1>10. Fresh' BY <1>1 DEF Fresh
  <1>14. Together' BY <1>1, <1>2 DEF Together
  <1>11. Surveyed' BY <1>1 DEF Surveyed
  <1>12. InOrder'
    <2>1. ASSUME NEW op \in logged', op.session = session'
          PROVE  op \in shown' <=> op.lsn < next'
      <3>1. op \in logged /\ op.session = session /\ op.lsn \in Nat /\ next \in Nat
        BY <1>1, <2>1 DEF WalTypeOK, Lsns
      <3>2. op = [session |-> op.session, lsn |-> op.lsn]
        BY <3>1 DEF WalTypeOK
      <3>3. op.lsn = next <=> op = Op(next) BY <3>1, <3>2 DEF Op
      <3>4. CASE op.lsn = next BY <1>1, <3>1, <3>3, <3>4 DEF Logged
      <3>5. CASE op.lsn # next BY <1>1, <3>1, <3>3, <3>5 DEF InOrder
      <3> QED BY <3>4, <3>5
    <2> QED BY <1>4, <2>1 DEF InOrder
  <1>13. Covered' BY <1>1 DEF Covered
  <1> QED BY <1>5, <1>6, <1>7, <1>8, <1>9, <1>10, <1>11, <1>12, <1>13, <1>14

\* The end of the loop stores the watermark; the writer's LSNs are its no more.
LEMMA ResolveEndInv ==
  ASSUME WalInv, NEW w \in Writers, ResolveEnd(w)
  PROVE  WalInv'
  <1> USE WalAssumption DEF WalInv
  <1>1. /\ pc'[w] \notin Unresolved /\ pc' \in [Writers -> WriterPC]
        /\ \A v \in Writers : v # w => pc'[v] = pc[v] /\ span'[v] = span[v]
        /\ span' \in [Writers -> SUBSET Lsns]
        /\ span'[w] = Owed(w) /\ pc'[w] \in {"published", "idle"}
        /\ published' = next - 1 /\ mutex' = None
    BY DEF ResolveEnd, Goto, Owed, WalTypeOK, WriterPC, Unresolved
  <1>2. UNCHANGED <<session, current, next, slots, scan, checkpoints, entries,
                    last, ckpt, logged, rows, apart, shown, races>>
    BY DEF ResolveEnd, disk, store
  <1>3. \A l : Op(l)' = Op(l) BY <1>2 DEF Op
  <1>4. published' \in 0 .. MaxLsn BY <1>1 DEF WalTypeOK, Lsns
  <1>5. WalTypeOK' BY <1>1, <1>2, <1>4 DEF WalTypeOK
  <1>6. Spans' BY <1>1 DEF Spans
  <1>7. Owned' BY <1>1, <1>2 DEF Owned
  <1>8. Window' BY <1>2 DEF Window
  <1>9. Logged' BY <1>1, <1>2, <1>3 DEF Logged, LogOp, Unresolved
  <1>10. Fresh' BY <1>1, <1>2 DEF Fresh, Unresolved
  <1>11. Surveyed' BY <1>2 DEF Surveyed
  <1>12. InOrder' BY <1>2 DEF InOrder
  <1>13. Covered' BY <1>2 DEF Covered
  <1>14. Together'
    <2>1. \A l \in Owed(w) : Op(l) \in apart BY DEF Owed, Together
    <2> QED BY <1>1, <1>2, <1>3, <2>1 DEF Together
  <1> QED BY <1>5, <1>6, <1>7, <1>8, <1>9, <1>10, <1>11, <1>12, <1>13, <1>14

\* A checkpoint deletes what it has surveyed, all at or below its own LSN.
LEMMA CheckpointWriteInv ==
  ASSUME WalInv, NEW w \in Writers, CheckpointWrite(w)
  PROVE  WalInv'
  <1> USE WalAssumption DEF WalInv
  <1>1. /\ pc[w] = "checkpoint"
        /\ \E label \in {"idle", "row"} : pc' = [pc EXCEPT ![w] = label]
        /\ scan' = [scan EXCEPT ![w] = NoScan]
        /\ entries' = [l \in Lsns |-> IF l \in scan[w].keys THEN 0 ELSE entries[l]]
        /\ ckpt' = scan[w].lsn
        /\ last' = IF scan[w].lsn > scan[w].last THEN scan[w].lsn ELSE last
        /\ races' = IF scan[w].lsn < ckpt THEN races \cup {"regress"} ELSE races
        /\ UNCHANGED <<session, current, next, slots, published, mutex, span,
                       checkpoints, logged, rows, apart, shown>>
    BY DEF CheckpointWrite, Truncate, Goto, Return, publisher, store
  <1>2. \A l : Op(l)' = Op(l) BY <1>1 DEF Op
  <1>3. \A v \in Writers : pc'[v] = pc[v] \/ (v = w /\ pc'[v] \in {"idle", "row"})
    BY <1>1 DEF WalTypeOK
  <1>4. races' = {} => races = {} /\ ~(scan[w].lsn < ckpt) BY <1>1
  <1>5. WalTypeOK'
    <2>1. pc' \in [Writers -> WriterPC] BY <1>1 DEF WalTypeOK, WriterPC
    <2>2. scan' \in [Writers -> [lsn : 0 .. MaxLsn, keys : SUBSET Lsns,
                                 last : 0 .. MaxLsn]]
      BY <1>1 DEF WalTypeOK, NoScan
    <2>3. entries' \in [Lsns -> 0 .. MaxSessions] BY <1>1 DEF WalTypeOK
    <2>4. ckpt' \in 0 .. MaxLsn /\ last' \in 0 .. MaxLsn BY <1>1 DEF WalTypeOK
    <2>5. races' \subseteq Known BY <1>1 DEF WalTypeOK, Known
    <2> QED BY <1>1, <2>1, <2>2, <2>3, <2>4, <2>5 DEF WalTypeOK
  <1>6. Spans' BY <1>1, <1>3 DEF Spans, Unresolved
  <1>7. Owned' BY <1>1, <1>3 DEF Owned, Unresolved
  <1>8. Window' BY <1>1 DEF Window
  <1>9. Logged'
    <2>1. \A l \in Lsns : entries'[l] # 0 => LogOp(l)' \in logged'
      BY <1>1 DEF Logged, LogOp
    <2> QED BY <1>1, <1>2, <1>3, <2>1 DEF Logged
  <1>14. Together' BY <1>1, <1>2, <1>3 DEF Together
  <1>10. Fresh' BY <1>1, <1>3, <1>4 DEF Fresh, Unresolved
  <1>11. Surveyed' BY <1>1 DEF Surveyed, WalTypeOK, NoScan
  <1>12. InOrder' BY <1>1 DEF InOrder
  <1>13. Covered'
    <2> SUFFICES ASSUME races' = {}, NEW op \in logged, entries'[op.lsn] # op.session
                 PROVE  op.lsn <= scan[w].lsn
      BY <1>1 DEF Covered
    <2>1. op.lsn \in Lsns BY DEF WalTypeOK
    <2>2. CASE op.lsn \in scan[w].keys BY <2>2 DEF Surveyed
    <2>3. CASE op.lsn \notin scan[w].keys
      <3>1. op.lsn <= ckpt BY <1>1, <1>4, <2>1, <2>3 DEF Covered
      <3>2. op.lsn \in Int /\ ckpt \in Int /\ scan[w].lsn \in Int
        BY <2>1 DEF WalTypeOK, Lsns, NoCheckpoint
      <3> QED BY <1>4, <3>1, <3>2
    <2> QED BY <2>2, <2>3
  <1> QED BY <1>5, <1>6, <1>7, <1>8, <1>9, <1>10, <1>11, <1>12, <1>13, <1>14

\* Opening the store: a new session has no entries, no slots and no writers.
LEMMA ReopenInv ==
  ASSUME WalInv, NEW lsn \in 0 .. MaxLsn, Reopen(lsn),
         entries' \in [Lsns -> 0 .. MaxSessions], last' \in 0 .. MaxLsn,
         ckpt' \in 0 .. MaxLsn \cup {NoCheckpoint}, races' \subseteq Known,
         races' = {} => \A op \in logged : op.lsn <= lsn,
         \A l \in Lsns : entries'[l] \in {0, entries[l]},
         rows' = rows \/ rows' = rows \cup Replayed,
         Covered'
  PROVE  WalInv'
  <1> USE WalAssumption DEF WalInv
  <1>1. /\ session < MaxSessions /\ session' = session + 1
        /\ current' = lsn /\ next' = lsn + 1 /\ published' = lsn
        /\ slots' = [l \in Lsns |-> "none"] /\ mutex' = None
        /\ pc' = [v \in Writers |-> "idle"] /\ span' = [v \in Writers |-> {}]
        /\ scan' = [v \in Writers |-> NoScan]
        /\ UNCHANGED <<checkpoints, logged, apart, shown>>
    BY DEF Reopen
  <1>2. \A op \in logged : op.session \in Nat /\ op.session < session'
    BY <1>1 DEF Logged, WalTypeOK, Sessions
  <1>10. Replayed \subseteq logged
    BY DEF Replayed, Retained, Logged
  <1>3. WalTypeOK'
    <2>1. /\ session' \in Sessions /\ current' \in 0 .. MaxLsn
          /\ next' \in 1 .. MaxLsn + 1 /\ published' \in 0 .. MaxLsn
      BY <1>1 DEF WalTypeOK, Sessions
    <2>2. /\ slots' \in [Lsns -> SlotStates] /\ pc' \in [Writers -> WriterPC]
          /\ span' \in [Writers -> SUBSET Lsns]
          /\ scan' \in [Writers -> [lsn : 0 .. MaxLsn, keys : SUBSET Lsns,
                                    last : 0 .. MaxLsn]]
      BY <1>1 DEF SlotStates, WriterPC, NoScan
    <2>3. rows' \subseteq [session : Sessions, lsn : Lsns]
      BY <1>10 DEF WalTypeOK
    <2> QED BY <1>1, <2>1, <2>2, <2>3 DEF WalTypeOK
  <1>4. Spans' /\ Owned' BY <1>1 DEF Spans, Owned, Unresolved
  <1>5. Window' BY <1>1 DEF Window
  <1>6. Logged'
    <2>1. \A l \in Lsns : entries'[l] # 0 => LogOp(l)' \in logged'
      BY <1>1 DEF Logged, LogOp
    <2> QED BY <1>1, <1>2, <1>3, <2>1 DEF Logged, WalTypeOK, Sessions
  <1>11. Together'
    <2>1. logged' \ apart' = rows' \ apart' BY <1>1, <1>10 DEF Together
    <2> QED BY <1>1, <2>1 DEF Together
  <1>7. Fresh' BY <1>1 DEF Fresh
  <1>8. Surveyed' BY <1>1 DEF Surveyed, NoScan
  <1>9. InOrder' BY <1>1, <1>2 DEF InOrder
  <1> QED BY <1>3, <1>4, <1>5, <1>6, <1>7, <1>8, <1>9, <1>11

\* A crash keeps the disk; recovery records a checkpoint above all it deletes.
LEMMA CrashInv ==
  ASSUME WalInv, Crash
  PROVE  WalInv'
  <1> USE WalAssumption DEF WalInv
  <1>1. /\ last \in 0 .. MaxLsn /\ Reopen(last) /\ logged' = logged
        /\ rows' = rows \cup Replayed
    BY DEF Crash, Reopen, WalTypeOK
  <1>2. races' \subseteq Known BY DEF Crash, WalTypeOK, Known
  <1>3. races' = {} => races = {} /\ \A op \in logged : op.lsn <= last
    <2>1. \A op \in logged : op.lsn \in Nat BY DEF WalTypeOK, Lsns
    <2> QED BY <1>1, <2>1 DEF Crash
  <1>4. CASE Retained = {}
    <2>1. UNCHANGED <<entries, last, ckpt>> BY <1>4 DEF Crash, disk
    <2>2. Covered' BY <1>1, <1>3, <2>1 DEF Covered
    <2> QED BY <1>1, <1>2, <1>3, <2>1, <2>2, ReopenInv DEF WalTypeOK
  <1>5. CASE Retained # {}
    <2> DEFINE newest == Max(Retained)
               target == Max({last, newest})
    <2>1. newest \in Lsns /\ \A l \in Retained : l <= newest
      <3>1. /\ Retained \subseteq Int /\ MaxLsn \in Int
            /\ \A l \in Retained : l <= MaxLsn
        BY DEF Retained, Lsns
      <3>2. newest \in Retained /\ \A l \in Retained : l <= newest
        BY <1>5, <3>1, MaxExists, Zenon
      <3> QED BY <3>2 DEF Retained
    <2>2. target \in 0 .. MaxLsn /\ target >= newest
      <3> HIDE DEF newest
      <3>1. last \in Int /\ newest \in Int BY <1>1, <2>1 DEF Lsns
      <3>2. target \in {last, newest} /\ target >= newest BY <3>1, MaxPair
      <3> QED BY <1>1, <2>1, <3>2 DEF Lsns
    <2>3. ckpt \in -1 .. MaxLsn BY DEF WalTypeOK, NoCheckpoint
    <2>4. /\ RecoveryTarget \in 0 .. MaxLsn
          /\ RecoveryTarget >= ckpt /\ RecoveryTarget >= newest
      <3>1. RecoveryTarget = IF newest <= ckpt THEN Max({ckpt, target}) ELSE target
        BY DEF RecoveryTarget
      <3> HIDE DEF newest, target
      <3>2. /\ Max({ckpt, target}) \in {ckpt, target}
            /\ Max({ckpt, target}) >= ckpt /\ Max({ckpt, target}) >= target
        BY <2>2, <2>3, MaxPair
      <3> QED BY <2>1, <2>2, <2>3, <3>1, <3>2 DEF Lsns
    <2>5. /\ entries' = [l \in Lsns |-> IF l \in Retained THEN 0 ELSE entries[l]]
          /\ ckpt' = RecoveryTarget
          /\ last' = IF RecoveryTarget > last THEN RecoveryTarget ELSE last
      BY <1>5 DEF Crash, Truncate
    <2> HIDE DEF newest, target
    <2>6. Covered'
      <3> SUFFICES ASSUME races' = {}, NEW op \in logged, entries'[op.lsn] # op.session
                   PROVE  op.lsn <= RecoveryTarget
        BY <1>1, <2>5 DEF Covered
      <3>1. op.lsn \in Lsns BY DEF WalTypeOK
      <3>2. CASE op.lsn \in Retained
        BY <2>1, <2>4, <3>1, <3>2 DEF Lsns
      <3>3. CASE op.lsn \notin Retained
        <4>1. op.lsn <= ckpt
          BY <1>3, <2>5, <3>1, <3>3 DEF Covered
        <4> QED BY <2>3, <2>4, <3>1, <4>1 DEF Lsns
      <3> QED BY <3>2, <3>3
    <2>7. /\ entries' \in [Lsns -> 0 .. MaxSessions]
          /\ \A l \in Lsns : entries'[l] \in {0, entries[l]}
      BY <2>5 DEF WalTypeOK
    <2>8. last' \in 0 .. MaxLsn /\ ckpt' \in 0 .. MaxLsn
      BY <1>1, <2>4, <2>5
    <2> QED BY <1>1, <1>2, <1>3, <2>6, <2>7, <2>8, ReopenInv
  <1> QED BY <1>4, <1>5

\* A clean close checkpoints at the last LSN handed out.
LEMMA CleanRestartInv ==
  ASSUME WalInv, CleanRestart
  PROVE  WalInv'
  <1> USE WalAssumption DEF WalInv
  <1>1. /\ entries' = [l \in Lsns |-> IF l \in Retained THEN 0 ELSE entries[l]]
        /\ ckpt' = current
        /\ last' = IF current > last THEN current ELSE last
        /\ Reopen(last') /\ logged' = logged /\ rows' = rows /\ races' = races
    BY DEF CleanRestart, Truncate, Reopen
  <1>2. last' \in 0 .. MaxLsn /\ last' >= current BY <1>1 DEF WalTypeOK
  <1>3. /\ entries' \in [Lsns -> 0 .. MaxSessions]
        /\ \A l \in Lsns : entries'[l] \in {0, entries[l]}
    BY <1>1 DEF WalTypeOK
  <1>4. ckpt' \in 0 .. MaxLsn /\ races' \subseteq Known BY <1>1 DEF WalTypeOK
  <1>5. Covered' BY <1>1 DEF Covered, Fresh
  <1>6. races' = {} => \A op \in logged : op.lsn <= last'
    <2>1. \A op \in logged : op.lsn \in Nat BY DEF WalTypeOK, Lsns
    <2> QED BY <1>1, <1>2, <2>1 DEF Fresh, WalTypeOK
  <1> QED BY <1>1, <1>2, <1>3, <1>4, <1>5, <1>6, ReopenInv

-----------------------------------------------------------------------------
\* Every step of the log preserves the invariant.
LEMMA WalStep == WalInv /\ [WalNext]_walVars => WalInv'
  <1> SUFFICES ASSUME WalInv, [WalNext]_walVars PROVE WalInv'
      OBVIOUS
  <1>1. ASSUME NEW w \in Writers, WriterStart(w) PROVE WalInv'
    <2>1. CASE Stage(w) BY <2>1, ReserveInv DEF Stage, store
    <2>2. CASE ReserveHole(w) BY <2>2, ReserveInv DEF ReserveHole, store
    <2>3. CASE CheckpointScan(w) BY <2>3, MoveInv
    <2>4. CASE LogFirst(w) \/ RowFirst(w)
      <3>1. 1 \in 1 .. MaxBatch BY WalAssumption
      <3> QED BY <2>4, <3>1, ReserveInv DEF LogFirst, RowFirst
    <2> QED BY <1>1, <2>1, <2>2, <2>3, <2>4 DEF WriterStart
  <1>2. ASSUME NEW w \in Writers, WriterStep(w) PROVE WalInv'
    <2>1. CASE Write(w) BY <2>1, WriteInv
    <2>2. CASE WriteFails(w) \/ NotDue(w) \/ CheckpointFails(w) BY <2>2, MoveInv
    <2>3. CASE Resolve(w) BY <2>3, ResolveInv
    <2>4. CASE ResolveEnd(w) BY <2>4, ResolveEndInv
    <2>5. CASE CheckpointWrite(w) BY <2>5, CheckpointWriteInv
    <2>6. CASE WriteRow(w) \/ RowFails(w) BY <2>6, RowInv
    <2> QED BY <1>2, <2>1, <2>2, <2>3, <2>4, <2>5, <2>6 DEF WriterStep
  <1>3. CASE UNCHANGED walVars
    <2>1. UNCHANGED <<session, current, next, slots, published, mutex, pc,
                      span, scan, checkpoints, entries, last, ckpt, logged,
                      rows, apart, shown, races>>
      BY <1>3 DEF walVars, publisher, disk, store
    <2>2. WalTypeOK' /\ Spans' /\ Owned' /\ Window'
      BY <2>1 DEF WalInv, WalTypeOK, Spans, Owned, Window
    <2>3. Logged' /\ Together' /\ Fresh' /\ Surveyed' /\ InOrder' /\ Covered'
      BY <2>1 DEF WalInv, Logged, Together, Op, LogOp, Fresh, Surveyed, InOrder,
                  Covered
    <2> QED BY <2>2, <2>3 DEF WalInv
  <1> QED BY <1>1, <1>2, <1>3, PublishNextInv, CrashInv, CleanRestartInv
          DEF WalNext

\* The strengthened invariant holds in every reachable state.
THEOREM Invariance == WalSpec => []WalInv
  BY InitInv, WalStep, PTL DEF WalSpec

\* Type correctness of the publisher, the writers and the log on disk.
THEOREM TypeCorrect == WalSpec => []WalTypeOK
  <1>1. WalInv => WalTypeOK BY DEF WalInv
  <1> QED BY <1>1, Invariance, PTL

\* Publisher::resolve shows standbys exactly the logged operations below its
\* position, whatever the order of reservations, writes, failures and crashes;
\* of staged commits, only with their rows in the store.
THEOREM Publication == WalSpec => []PublishedInOrder
  <1>1. WalInv => PublishedInOrder
    BY DEF WalInv, InOrder, Together, PublishedInOrder
  <1> QED BY <1>1, Invariance, PTL

\* truncate_to_checkpoint and recover_wal_at_open delete only entries that the
\* checkpoint on disk covers, and every row of a staged commit has its entry or
\* is covered, unless one of the two known races has happened.
THEOREM Checkpoints == WalSpec => []PrunedIsCheckpointed
  <1>1. WalInv => PrunedIsCheckpointed
    BY DEF WalInv, Covered, Together, PrunedIsCheckpointed
  <1> QED BY <1>1, Invariance, PTL
=============================================================================
