---------------------- MODULE LogicalReplicationProofs ----------------------
(***************************************************************************)
(* Proofs about LogicalReplication on top of WalProofs, for any channel    *)
(* capacity and any number of lost connections, restarts and entries.      *)
(*                                                                         *)
(* That the standby's copy is a prefix of the history is not inductive:    *)
(* it depends on what is on the wire, which depends on what the channel    *)
(* still holds and on what the log held when the catch-up was read.        *)
(* StandbyInv adds                                                         *)
(*   - History: one operation per LSN, and earlier sessions lie below the  *)
(*     publisher's position;                                               *)
(*   - Wire: before an entry on the wire comes all the standby lacks;      *)
(*   - Tap: the channel is ascending and, until it lags or the applicator  *)
(*     fails, holds what the catch-up plan does not;                       *)
(*   - Plan: the plan is below the publisher's position and the barrier    *)
(*     covers it.                                                          *)
(***************************************************************************)
EXTENDS LogicalReplication, WalProofs, SequenceTheorems, FiniteSetTheorems

History ==
    /\ races = {} => \A p, q \in logged : p.lsn = q.lsn => p = q
    /\ races = {} => \A op \in logged : op.session < session => op.lsn < next
    /\ published < next

Prefix ==
    /\ copy = {op \in logged : op.lsn <= cursor}
    /\ cursor < next
    /\ cursor = 0 \/ \E op \in logged : op.lsn = cursor

Wire ==
    \A i \in 1 .. Len(inbox) :
      /\ inbox[i] \in logged /\ inbox[i].lsn < next
      /\ \A op \in logged : op.lsn < inbox[i].lsn =>
           op.lsn <= cursor \/ \E j \in 1 .. i - 1 : inbox[j] = op

Tap ==
    /\ \A i \in 1 .. Len(channel) : channel[i] \in logged /\ channel[i].lsn < next
    /\ \A i, j \in 1 .. Len(channel) : i < j => channel[i].lsn < channel[j].lsn
    /\ link = "planned" /\ ~lagged =>
         \A op \in logged : plan.latest < op.lsn /\ op.lsn < next =>
           \E i \in 1 .. Len(channel) : channel[i] = op
    /\ link = "streaming" /\ ~lagged /\ applying =>
         \A op \in logged : cursor < op.lsn /\ op.lsn < next =>
           \/ \E i \in 1 .. Len(inbox) : inbox[i] = op
           \/ \E i \in 1 .. Len(channel) : channel[i] = op

Plan ==
    /\ link \in Connected => position <= cursor
    /\ link \in {"planned", "streaming"} => plan.latest < next
    /\ link \in {"subscribed", "planned"} => ~caughtUp
    /\ link = "planned" => plan.checkpoint <= position
    /\ link = "streaming" =>
         /\ \A op \in logged : op.lsn <= plan.latest => op.lsn <= barrier
         /\ caughtUp => barrier <= cursor

Feed == Prefix /\ Wire /\ Tap /\ Plan

StandbyInv == WalInv /\ History /\ TypeOK /\ (Raced \/ Feed)

-----------------------------------------------------------------------------
(* What the log does to the history the standby follows.                   *)

\* A step of the log adds row writes at or above the publisher's position only;
\* a race, once met, stays on record.
LEMMA LogGrows ==
  ASSUME WalInv, NEW w \in Writers, WriterStart(w) \/ WriterStep(w)
  PROVE  /\ logged \subseteq logged' /\ next' = next /\ session' = session
         /\ \A op \in logged' : op \in logged \/ (next <= op.lsn /\ pc[w] \in {"staged", "append"}
                                /\ op.lsn \in span[w] /\ op = Op(op.lsn))
         /\ races' = {} => races = {}
  <1>1. CASE Write(w)
    <2>1. /\ logged' = logged \cup {Op(l) : l \in span[w]}
          /\ pc[w] \in {"staged", "append"}
          /\ next' = next /\ races' = races /\ session' = session
      BY <1>1 DEF Write, publisher
    <2>2. \A l \in span[w] : next <= l
      BY <2>1 DEF WalInv, WalTypeOK, Owned, Window, Unresolved
    <2> QED BY <2>1, <2>2 DEF Op
  <1>2. CASE ~Write(w)
    <2>1. logged' = logged /\ next' = next /\ session' = session
      BY <1>2 DEF WriterStart, WriterStep, Stage, LogFirst, RowFirst, ReserveHole, Reserve,
         CheckpointScan, WriteFails, Resolve, ResolveEnd, NotDue,
         CheckpointWrite, CheckpointFails, WriteRow, RowFails, publisher, store
    <2>2. races' = {} => races = {}
      BY <1>2 DEF WriterStart, WriterStep, Stage, LogFirst, RowFirst, ReserveHole,
         WriteRow, RowFails, CheckpointScan, WriteFails, Resolve, ResolveEnd, NotDue,
         CheckpointWrite, CheckpointFails
    <2> QED BY <2>1, <2>2
  <1> QED BY <1>1, <1>2

\* A restart keeps the history and starts above it, or the LSN reuse is on record.
LEMMA RestartAbove ==
  ASSUME WalInv, Crash \/ CleanRestart
  PROVE  /\ logged' = logged /\ published' < next' /\ next' \in Nat
         /\ races' = {} => races = {} /\ \A op \in logged : op.lsn < next'
  <1>1. WalInv' BY WalStep DEF WalNext
  <1>2. PICK top \in Nat : current' = top
    BY <1>1 DEF WalInv, WalTypeOK
  <1>3. logged' = logged /\ published' = top /\ next' = top + 1
    BY <1>2 DEF Crash, CleanRestart, Reopen
  <1>4. races' = {} => races = {}
    BY DEF Crash, CleanRestart
  <1>5. races' = {} => \A op \in logged : op.lsn <= top
    BY <1>1, <1>2, <1>3 DEF WalInv, Fresh
  <1>7. \A op \in logged : op.lsn \in Nat BY DEF WalInv, WalTypeOK, Lsns
  <1> QED BY <1>3, <1>4, <1>5, <1>7

\* The log keeps its history.
LEMMA HistoryStep ==
  ASSUME WalInv, History, [WalNext]_walVars
  PROVE  History'
  <1>1. ASSUME NEW w \in Writers, WriterStart(w) \/ WriterStep(w) PROVE History'
    <2>1. /\ logged \subseteq logged' /\ next' = next /\ session' = session
          /\ \A op \in logged' : op \in logged \/ (next <= op.lsn /\ pc[w] \in {"staged", "append"}
                                 /\ op.lsn \in span[w] /\ op = Op(op.lsn))
          /\ races' = {} => races = {}
      BY <1>1, LogGrows
    <2>2. races' = {} => \A p, q \in logged' : p.lsn = q.lsn => p = q
      BY <2>1 DEF History, WalInv, Fresh
    <2>3. races' = {} => \A op \in logged' : op.session < session' => op.lsn < next'
      <3>1. \A op \in logged' : op \notin logged => op.session = session BY <2>1 DEF Op
      <3>2. session \in Nat BY DEF WalInv, WalTypeOK, Sessions
      <3> QED BY <2>1, <3>1, <3>2 DEF History
    <2>4. published' < next'
      BY <1>1, <2>1 DEF History, WriterStart, WriterStep, Stage, LogFirst, RowFirst, ReserveHole, Reserve,
         CheckpointScan, Write, WriteFails, Resolve, ResolveEnd, NotDue,
         CheckpointWrite, CheckpointFails, WriteRow, RowFails, publisher, WalInv,
         WalTypeOK
    <2> QED BY <2>2, <2>3, <2>4 DEF History
  <1>2. ASSUME NEW w \in Writers, PublishNext(w) PROVE History'
    <2>1. /\ next' = next + 1
          /\ UNCHANGED <<session, published, logged, races>>
      BY <1>2 DEF PublishNext, store
    <2>2. /\ next \in Nat /\ published \in Nat
          /\ \A op \in logged : op.lsn \in Nat
      BY DEF WalInv, WalTypeOK, Lsns
    <2> QED BY <2>1, <2>2 DEF History
  <1>3. CASE Crash \/ CleanRestart
    <2>1. /\ logged' = logged /\ published' < next'
          /\ races' = {} => races = {} /\ \A op \in logged : op.lsn < next'
      BY <1>3, RestartAbove
    <2> QED BY <2>1 DEF History
  <1>4. CASE UNCHANGED walVars
    BY <1>4 DEF walVars, publisher, store, History
  <1> QED BY <1>1, <1>2, <1>3, <1>4 DEF WalNext

-----------------------------------------------------------------------------
\* The standby starts empty, below an empty log.
LEMMA StandbyInit == Init => StandbyInv
  <1> SUFFICES ASSUME Init PROVE StandbyInv
      OBVIOUS
  <1> USE WalAssumption, ReplicationAssumption
  <1>1. WalInv BY InitInv DEF Init
  <1>2. History BY DEF Init, WalInit, History
  <1>3. TypeOK
    <2>1. WalTypeOK BY <1>1 DEF WalInv
    <2>2. channel \in Seq(Ops) /\ Len(channel) <= ChannelCap /\ inbox \in Seq(Ops)
      BY EmptySeq DEF Init
    <2>3. plan \in [latest : 0 .. MaxLsn, checkpoint : 0 .. MaxLsn \cup {NoCheckpoint}]
      BY DEF Init, NoPlan
    <2>4. position \in 0 .. MaxLsn /\ cursor \in 0 .. MaxLsn /\ drops \in 0 .. MaxDrops
      BY DEF Init
    <2>5. barrier \in 0 .. MaxLsn \cup {NoBarrier} BY DEF Init
    <2>6. /\ link \in Links /\ lagged \in BOOLEAN /\ caughtUp \in BOOLEAN
          /\ applying \in BOOLEAN
      BY DEF Init, Links
    <2> QED BY <2>1, <2>2, <2>3, <2>4, <2>5, <2>6 DEF Init, TypeOK
  <1>4. Feed
    <2>1. Prefix BY DEF Init, WalInit, Prefix
    <2>2. Wire /\ Tap
      BY EmptySeq DEF Init, Wire, Tap
    <2>3. Plan BY DEF Init, Plan, Connected
    <2> QED BY <2>1, <2>2, <2>3 DEF Feed
  <1> QED BY <1>1, <1>2, <1>3, <1>4 DEF StandbyInv

\* Steps of committing threads: new row writes lie above all that is under way.
LEMMA LogInv ==
  ASSUME StandbyInv, NEW w \in Writers, Log(w)
  PROVE  StandbyInv'
  <1> USE DEF StandbyInv
  <1>1. WalInv' /\ History'
    BY WalStep, HistoryStep DEF Log, WalNext
  <1>2. /\ logged \subseteq logged' /\ next' = next
        /\ \A op \in logged' : op \in logged \/ next <= op.lsn
        /\ races' = {} => races = {}
    BY LogGrows DEF Log
  <1>3. UNCHANGED <<link, position, plan, channel, lagged, barrier, caughtUp,
                    inbox, applying, cursor, copy, drops, windows>>
    BY DEF Log, linkVars, standby
  <1>4. TypeOK' BY <1>1, <1>3 DEF TypeOK, WalInv
  <1>5. ASSUME ~Raced' PROVE Feed'
    <2>1. Feed BY <1>2, <1>3, <1>5 DEF Raced
    <2>2. \A op \in logged' : op.lsn < next => op \in logged
      <3>1. \A op \in logged' : op.lsn \in Nat BY <1>1 DEF WalInv, WalTypeOK, Lsns
      <3>2. next \in Nat BY DEF WalInv, WalTypeOK
      <3> QED BY <1>2, <3>1, <3>2
    <2>3. /\ next \in Nat /\ cursor \in Nat /\ cursor < next
          /\ \A op \in logged' : op.lsn \in Nat
      <3>1. next \in Nat /\ cursor \in Nat BY DEF WalInv, WalTypeOK, TypeOK
      <3>2. \A op \in logged' : op.lsn \in Nat BY <1>1 DEF WalInv, WalTypeOK, Lsns
      <3> QED BY <2>1, <3>1, <3>2 DEF Feed, Prefix
    <2>4. Prefix'
      <3>1. \A op \in logged' : op.lsn <= cursor => op \in logged BY <2>2, <2>3
      <3> QED BY <1>2, <1>3, <2>1, <2>3, <3>1 DEF Feed, Prefix
    <2>5. Wire'
      <3>1. \A i \in 1 .. Len(inbox) : inbox[i] \in logged /\ inbox[i].lsn < next
        BY <2>1 DEF Feed, Wire
      <3>2. \A i \in 1 .. Len(inbox) : \A op \in logged' : op.lsn < inbox[i].lsn => op \in logged
        BY <1>2, <2>2, <2>3, <3>1
      <3> QED BY <1>2, <1>3, <2>1, <3>1, <3>2 DEF Feed, Wire
    <2>6. Tap'
      BY <1>2, <1>3, <2>1, <2>2 DEF Feed, Tap
    <2>7. Plan'
      <3>1. ASSUME link = "streaming" PROVE \A op \in logged' : op.lsn <= plan.latest => op \in logged
        <4>1. plan.latest < next /\ plan.latest \in Nat
          BY <2>1, <3>1 DEF Feed, Plan, TypeOK
        <4> QED BY <2>2, <2>3, <4>1
      <3> QED BY <1>2, <1>3, <2>1, <3>1 DEF Feed, Plan
    <2> QED BY <2>4, <2>5, <2>6, <2>7 DEF Feed
  <1> QED BY <1>1, <1>4, <1>5

\* The publisher shows an entry: the channel takes it, or the connection lags.
LEMMA BroadcastInv ==
  ASSUME StandbyInv, NEW w \in Writers, Broadcast(w)
  PROVE  StandbyInv'
  <1> USE ReplicationAssumption DEF StandbyInv
  <1>1. WalInv' /\ History'
    BY WalStep, HistoryStep DEF Broadcast, WalNext
  <1>2. /\ next \in Lsns /\ next' = next + 1 /\ slots[next] \in {"ready", "skipped"}
        /\ UNCHANGED <<session, logged, races>>
    BY DEF Broadcast, PublishNext, Settled, store
  <1>3. UNCHANGED <<link, position, plan, barrier, caughtUp, inbox, applying, cursor, copy,
                    drops, windows>>
    BY DEF Broadcast, standby
  <1>4. /\ slots[next] = "ready" => Op(next) \in logged
        /\ slots[next] = "skipped" => Op(next) \notin logged
    BY <1>2 DEF WalInv, Logged
  <1> DEFINE heard == slots[next] = "ready" /\ link \in Connected
             full == Len(channel) = ChannelCap
             kept == IF full THEN Tail(channel) ELSE channel
  <1>5. /\ channel \in Seq(Ops) /\ Len(channel) \in Nat /\ Len(channel) <= ChannelCap
        /\ Op(next) \in Ops /\ Op(next).lsn = next
    BY <1>2 DEF TypeOK, Op, Ops, WalInv, WalTypeOK
  <1>6. /\ kept \in Seq(Ops) /\ Len(kept) < ChannelCap /\ Len(kept) \in Nat
        /\ full => Len(kept) = Len(channel) - 1
                   /\ \A i \in 1 .. Len(kept) : kept[i] = channel[i + 1]
    <2>1. CASE full
      <3>1. channel # <<>> BY <1>5, <2>1
      <3>2. /\ Tail(channel) \in Seq(Ops) /\ Len(Tail(channel)) = Len(channel) - 1
            /\ \A i \in 1 .. Len(Tail(channel)) : Tail(channel)[i] = channel[i + 1]
        BY <1>5, <3>1, HeadTailProperties
      <3> QED BY <1>5, <2>1, <3>2
    <2>2. CASE ~full BY <1>5, <2>2
    <2> QED BY <2>1, <2>2
  <1>7. /\ ~heard => channel' = channel /\ lagged' = lagged
        /\ heard => channel' = Append(kept, Op(next)) /\ lagged' = (lagged \/ full)
    BY DEF Broadcast
  <1>8. Append(kept, Op(next)) \in Seq(Ops)
        /\ Len(Append(kept, Op(next))) = Len(kept) + 1
        /\ \A i \in 1 .. Len(kept) : Append(kept, Op(next))[i] = kept[i]
        /\ Append(kept, Op(next))[Len(kept) + 1] = Op(next)
    BY <1>5, <1>6, AppendProperties
  <1> HIDE DEF kept
  <1>9. TypeOK'
    <2>1. channel' \in Seq(Ops) /\ Len(channel') <= ChannelCap
      <3>1. CASE heard
        <4>1. Len(Append(kept, Op(next))) <= ChannelCap BY <1>6, <1>8
        <4> QED BY <1>7, <1>8, <3>1, <4>1
      <3>2. CASE ~heard BY <1>5, <1>7, <3>2
      <3> QED BY <3>1, <3>2
    <2>2. lagged' \in BOOLEAN BY <1>7 DEF TypeOK
    <2> QED BY <1>1, <1>3, <2>1, <2>2 DEF TypeOK, WalInv
  <1>10. ASSUME ~Raced' PROVE Feed'
    <2>1. Feed /\ races = {} BY <1>2, <1>3, <1>10 DEF Raced
    <2>2. /\ next \in Nat /\ cursor \in Nat /\ cursor < next
          /\ \A op \in logged : op.lsn \in Nat
      <3>1. next \in Nat /\ cursor \in Nat BY DEF WalInv, WalTypeOK, TypeOK
      <3>2. \A op \in logged : op.lsn \in Nat BY DEF WalInv, WalTypeOK, Lsns
      <3> QED BY <2>1, <3>1, <3>2 DEF Feed, Prefix
    <2>3. Prefix' BY <1>2, <1>3, <2>1, <2>2 DEF Feed, Prefix
    <2>4. Wire' BY <1>2, <1>3, <2>1, <2>2 DEF Feed, Wire
    <2>5. Plan' BY <1>2, <1>3, <2>1, <2>2 DEF Feed, Plan, TypeOK
    <2>6. \A op \in logged : op.lsn < next' => op.lsn < next \/ op = Op(next)
      <3> SUFFICES ASSUME NEW op \in logged, op.lsn = next PROVE op = Op(next)
        BY <1>2, <2>2
      <3>1. op = [session |-> op.session, lsn |-> next] /\ op.session \in Nat
        BY DEF WalInv, WalTypeOK, Sessions
      <3>2. session \in Nat /\ op.session <= session
        BY DEF WalInv, WalTypeOK, Sessions, Logged
      <3>3. op.session = session BY <2>1, <2>2, <3>1, <3>2 DEF History
      <3> QED BY <3>1, <3>3 DEF Op
    <2>7. CASE ~heard
      <3>1. channel' = channel /\ lagged' = lagged BY <1>7, <2>7
      <3>2. link \in {"planned", "streaming"} =>
              \A op \in logged : op.lsn < next' => op.lsn < next
        BY <1>2, <1>4, <2>6, <2>7 DEF Connected
      <3>3. \A i \in 1 .. Len(channel) : channel[i] \in logged /\ channel[i].lsn < next'
        BY <1>2, <2>1, <2>2 DEF Feed, Tap
      <3> QED
        BY <1>2, <1>3, <2>1, <2>3, <2>4, <2>5, <3>1, <3>2, <3>3 DEF Feed, Tap
    <2>8. CASE heard
      <3>1. /\ channel' = Append(kept, Op(next)) /\ lagged' = (lagged \/ full)
            /\ Op(next) \in logged
        BY <1>4, <1>7, <2>8
      <3> DEFINE n == Len(kept)
      <3>2. /\ Len(channel') = n + 1 /\ n \in Nat
            /\ \A i \in 1 .. n : channel'[i] = kept[i]
            /\ channel'[n + 1] = Op(next)
        BY <1>6, <1>8, <3>1
      <3>3. \A i \in 1 .. n : kept[i] \in logged /\ kept[i].lsn < next
        BY <1>5, <1>6, <2>1 DEF Feed, Tap, kept
      <3>4. \A i, j \in 1 .. n : i < j => kept[i].lsn < kept[j].lsn
        BY <1>5, <1>6, <2>1 DEF Feed, Tap, kept
      <3>5. ~full => kept = channel BY DEF kept
      <3> HIDE DEF n
      <3>6. \A i \in 1 .. Len(channel') : channel'[i] \in logged' /\ channel'[i].lsn < next'
        BY <1>2, <1>5, <2>2, <3>1, <3>2, <3>3
      <3>7. \A i, j \in 1 .. Len(channel') : i < j => channel'[i].lsn < channel'[j].lsn
        <4> SUFFICES ASSUME NEW i \in 1 .. n + 1, NEW j \in 1 .. n + 1, i < j
                     PROVE  channel'[i].lsn < channel'[j].lsn
          BY <3>2
        <4>1. i \in 1 .. n BY <3>2
        <4>2. CASE j \in 1 .. n BY <3>2, <3>4, <4>1, <4>2
        <4>3. CASE j = n + 1 BY <1>5, <3>2, <3>3, <4>1, <4>3
        <4> QED BY <3>2, <4>2, <4>3
      <3>8. ASSUME ~lagged' PROVE
              /\ ~lagged /\ Len(channel) = n
              /\ \A i \in 1 .. Len(channel) : channel'[i] = channel[i]
        BY <3>1, <3>2, <3>5, <3>8 DEF n
      <3>9. ASSUME link = "planned", ~lagged', NEW op \in logged,
                   plan.latest < op.lsn, op.lsn < next'
            PROVE  \E i \in 1 .. Len(channel') : channel'[i] = op
        <4>1. CASE op = Op(next) BY <3>2, <4>1
        <4>2. CASE op.lsn < next
          <5>1. PICK i \in 1 .. Len(channel) : channel[i] = op
            BY <2>1, <3>8, <3>9, <4>2 DEF Feed, Tap
          <5> QED BY <3>2, <3>8, <3>9, <5>1
        <4> QED BY <2>6, <3>9, <4>1, <4>2
      <3>10. ASSUME link = "streaming", ~lagged', applying, NEW op \in logged,
                    cursor < op.lsn, op.lsn < next'
             PROVE  \/ \E i \in 1 .. Len(inbox) : inbox[i] = op
                    \/ \E i \in 1 .. Len(channel') : channel'[i] = op
        <4>1. CASE op = Op(next) BY <3>2, <4>1
        <4>2. CASE op.lsn < next
          <5>1. \/ \E i \in 1 .. Len(inbox) : inbox[i] = op
                \/ \E i \in 1 .. Len(channel) : channel[i] = op
            BY <2>1, <3>8, <3>10, <4>2 DEF Feed, Tap
          <5> QED BY <3>2, <3>8, <3>10, <5>1
        <4> QED BY <2>6, <3>10, <4>1, <4>2
      <3>11. Tap' BY <1>2, <1>3, <3>6, <3>7, <3>9, <3>10 DEF Tap
      <3> QED BY <2>3, <2>4, <2>5, <3>11 DEF Feed
    <2> QED BY <2>7, <2>8
  <1> QED BY <1>1, <1>9, <1>10

\* A handshake starts from the durable cursor with an empty channel.
LEMMA ConnectInv ==
  ASSUME StandbyInv, Connect
  PROVE  StandbyInv'
  <1> USE ReplicationAssumption DEF StandbyInv
  <1>1. WalInv' /\ History'
    BY WalStep, HistoryStep DEF Connect
  <1>2. /\ link' = "subscribed" /\ position' = cursor /\ channel' = <<>>
        /\ lagged' = FALSE /\ barrier' = NoBarrier /\ caughtUp' = FALSE
        /\ UNCHANGED <<plan, inbox, applying, cursor, copy, drops, windows>>
        /\ UNCHANGED <<next, logged, races>>
    BY DEF Connect, standby, walVars, publisher, store
  <1>3. <<>> \in Seq(Ops) /\ Len(<<>>) = 0 BY EmptySeq
  <1>4. TypeOK'
    <2>1. Len(<<>>) <= ChannelCap BY <1>3
    <2> QED BY <1>1, <1>2, <1>3, <2>1 DEF TypeOK, WalInv, Links
  <1>5. ASSUME ~Raced' PROVE Feed'
    <2>1. Feed BY <1>2, <1>5 DEF Raced
    <2>2. Prefix' BY <1>2, <2>1 DEF Feed, Prefix
    <2>3. Wire' BY <1>2, <2>1 DEF Feed, Wire
    <2>4. Tap' BY <1>2, <1>3 DEF Tap
    <2>5. cursor <= cursor BY DEF TypeOK
    <2>6. Plan' BY <1>2, <2>5 DEF Plan
    <2> QED BY <2>2, <2>3, <2>4, <2>6 DEF Feed
  <1> QED BY <1>1, <1>4, <1>5

\* The plan is read at a watermark that has caught up with the broadcast, or
\* the race is on record.
LEMMA ReadWatermarkInv ==
  ASSUME StandbyInv, ReadWatermark
  PROVE  StandbyInv'
  <1> USE DEF StandbyInv
  <1>1. WalInv' /\ History'
    BY WalStep, HistoryStep DEF ReadWatermark
  <1>2. /\ UNCHANGED <<position, channel, lagged, barrier, caughtUp, inbox,
                       applying, cursor, copy, drops>>
        /\ UNCHANGED <<next, published, ckpt, logged, races>>
        /\ link = "subscribed"
    BY DEF ReadWatermark, standby, walVars, publisher, disk, store
  <1>3. /\ published \in 0 .. MaxLsn /\ next \in Nat
        /\ ckpt \in 0 .. MaxLsn \cup {NoCheckpoint} /\ position \in 0 .. MaxLsn
        /\ \A op \in logged : op.lsn \in Nat
    BY DEF WalInv, WalTypeOK, TypeOK, Lsns
  <1>4. /\ windows' = windows \/ windows' = windows \cup {"watermark"}
        /\ \/ link' = "refused" /\ plan' = plan
           \/ /\ link' = "planned" /\ ckpt <= position
              /\ plan' = [latest |-> published, checkpoint |-> ckpt]
              /\ published < next - 1 => windows' # {}
    <2>1. ~(position < ckpt) => ckpt <= position BY <1>3 DEF NoCheckpoint
    <2> QED BY <2>1 DEF ReadWatermark
  <1>5. TypeOK'
    <2>1. plan' \in [latest : 0 .. MaxLsn, checkpoint : 0 .. MaxLsn \cup {NoCheckpoint}]
      BY <1>3, <1>4 DEF TypeOK
    <2>2. link' \in Links /\ windows' \subseteq Windows
      BY <1>4 DEF TypeOK, Links, Windows
    <2> QED BY <1>1, <1>2, <2>1, <2>2 DEF TypeOK, WalInv
  <1>6. ASSUME ~Raced' PROVE Feed'
    <2>1. Feed BY <1>2, <1>4, <1>6 DEF Raced
    <2>2. Prefix' BY <1>2, <2>1 DEF Feed, Prefix
    <2>3. Wire' BY <1>2, <2>1 DEF Feed, Wire
    <2>4. CASE link' = "refused"
      <3>1. Tap' BY <1>2, <2>1, <2>4 DEF Feed, Tap
      <3>2. Plan' BY <2>4 DEF Plan, Connected
      <3> QED BY <2>2, <2>3, <3>1, <3>2 DEF Feed
    <2>5. CASE link' = "planned"
      <3>1. /\ plan'.latest = published /\ plan'.checkpoint = ckpt
            /\ ckpt <= position
        BY <1>4, <2>5
      <3>2. ~(published < next - 1) BY <1>4, <1>6, <2>5 DEF Raced
      <3>3. \A op \in logged : ~(published < op.lsn /\ op.lsn < next)
        BY <1>3, <3>2
      <3>4. Tap' BY <1>2, <2>1, <2>5, <3>1, <3>3 DEF Feed, Tap
      <3>5. published < next BY DEF History
      <3>6. Plan' BY <1>2, <2>1, <2>5, <3>1, <3>5 DEF Feed, Plan, Connected
      <3> QED BY <2>2, <2>3, <3>4, <3>6 DEF Feed
    <2> QED BY <1>4, <2>4, <2>5
  <1> QED BY <1>1, <1>5, <1>6

\* The standby reports that it has caught up.
LEMMA DeclareInv ==
  ASSUME StandbyInv, DeclareCaughtUp
  PROVE  StandbyInv'
  <1> USE DEF StandbyInv
  <1>1. WalInv' /\ History'
    BY WalStep, HistoryStep DEF DeclareCaughtUp
  <1>2. /\ UNCHANGED <<link, position, plan, channel, lagged, barrier, inbox,
                       applying, cursor, copy, drops, windows>>
        /\ UNCHANGED <<next, logged, races>>
        /\ link = "streaming" /\ cursor >= barrier /\ caughtUp' = TRUE
    BY DEF DeclareCaughtUp, standby, walVars, publisher, store
  <1>3. barrier <= cursor BY <1>2 DEF TypeOK, NoBarrier
  <1>4. TypeOK' BY <1>1, <1>2 DEF TypeOK, WalInv
  <1>5. ASSUME ~Raced' PROVE Feed'
    <2>1. Feed BY <1>2, <1>5 DEF Raced
    <2>2. Prefix' BY <1>2, <2>1 DEF Feed, Prefix
    <2>3. Wire' BY <1>2, <2>1 DEF Feed, Wire
    <2>4. Tap' BY <1>2, <2>1 DEF Feed, Tap
    <2>5. Plan' BY <1>2, <1>3, <2>1 DEF Feed, Plan
    <2> QED BY <2>2, <2>3, <2>4, <2>5 DEF Feed
  <1> QED BY <1>1, <1>4, <1>5

\* A lost connection keeps a prefix of the wire, and nothing else.
LEMMA HangupInv ==
  ASSUME StandbyInv, NEW n \in 0 .. Len(inbox), Hangup(n), [WalNext]_walVars,
         UNCHANGED <<cursor, copy, windows>>, drops' \in 0 .. MaxDrops,
         applying' \in BOOLEAN,
         UNCHANGED walVars \/ Crash \/ CleanRestart
  PROVE  StandbyInv'
  <1> USE ReplicationAssumption, WalAssumption DEF StandbyInv
  <1>1. WalInv' /\ History' BY WalStep, HistoryStep
  <1> DEFINE left == SubSeq(inbox, 1, n)
  <1>2. /\ link' = "down" /\ inbox' = left /\ channel' = <<>> /\ lagged' = FALSE
        /\ plan' = NoPlan /\ barrier' = NoBarrier
        /\ UNCHANGED <<position, caughtUp, cursor, copy, windows>>
    BY DEF Hangup
  <1>3. inbox \in Seq(Ops) /\ Len(inbox) \in Nat /\ n \in Nat /\ n <= Len(inbox)
    BY LenProperties DEF TypeOK
  <1>4. /\ left \in Seq(Ops) /\ Len(left) = n
        /\ \A i \in 1 .. n : left[i] = inbox[i]
    <2>1. \A i \in 1 .. n : inbox[i] \in Ops BY <1>3, ElementOfSeq
    <2>2. /\ SubSeq(inbox, 1, n) \in Seq(Ops)
          /\ Len(SubSeq(inbox, 1, n)) = IF 1 <= n THEN n - 1 + 1 ELSE 0
          /\ \A i \in 1 .. n - 1 + 1 : SubSeq(inbox, 1, n)[i] = inbox[1 + i - 1]
      BY <1>3, <2>1, SubSeqProperties
    <2> QED BY <1>3, <2>2
  <1> HIDE DEF left
  <1>5. <<>> \in Seq(Ops) /\ Len(<<>>) = 0 BY EmptySeq
  <1>6. TypeOK'
    <2>1. Len(<<>>) <= ChannelCap BY <1>5
    <2>2. NoPlan \in [latest : 0 .. MaxLsn, checkpoint : 0 .. MaxLsn \cup {NoCheckpoint}]
      BY DEF NoPlan
    <2> QED BY <1>1, <1>2, <1>4, <1>5, <2>1, <2>2 DEF TypeOK, WalInv, Links
  <1>7. ASSUME ~Raced' PROVE Feed'
    <2>1. /\ logged' = logged /\ races = {}
          /\ next' = next \/ \A op \in logged : op.lsn < next'
      <3>1. CASE UNCHANGED walVars
        BY <1>7, <3>1 DEF Raced, walVars, publisher, store
      <3>2. CASE Crash \/ CleanRestart BY <1>7, <3>2, RestartAbove DEF Raced
      <3> QED BY <3>1, <3>2
    <2>2. Feed BY <1>2, <1>7, <2>1 DEF Raced
    <2>3. cursor < next'
      <3>1. 0 < next'
        <4>1. PICK m \in Nat \ {0} : next' = m BY <1>1 DEF WalInv, WalTypeOK
        <4> QED BY <4>1
      <3> QED BY <2>1, <2>2, <3>1 DEF Feed, Prefix
    <2>4. Prefix' BY <1>2, <2>1, <2>2, <2>3 DEF Feed, Prefix
    <2>5. Wire'
      <3>1. \A i \in 1 .. n : /\ left[i] \in logged /\ left[i].lsn < next'
                              /\ i \in 1 .. Len(inbox)
        BY <1>3, <1>4, <2>1, <2>2 DEF Feed, Wire
      <3>2. ASSUME NEW i \in 1 .. n, NEW op \in logged, op.lsn < left[i].lsn
            PROVE  op.lsn <= cursor \/ \E j \in 1 .. i - 1 : left[j] = op
        <4>1. op.lsn <= cursor \/ \E j \in 1 .. i - 1 : inbox[j] = op
          BY <1>4, <2>2, <3>1, <3>2 DEF Feed, Wire
        <4> QED BY <1>3, <1>4, <4>1
      <3> QED BY <1>2, <1>4, <2>1, <3>1, <3>2 DEF Wire
    <2>6. Tap' BY <1>2, <1>5 DEF Tap
    <2>7. Plan' BY <1>2 DEF Plan, Connected
    <2> QED BY <2>4, <2>5, <2>6, <2>7 DEF Feed
  <1> QED BY <1>1, <1>6, <1>7

\* The head of the channel moves to the wire: all the standby lacks below it is
\* already there.
LEMMA ForwardInv ==
  ASSUME StandbyInv, Forward, applying
  PROVE  StandbyInv'
  <1> USE DEF StandbyInv
  <1>1. WalInv' /\ History'
    BY WalStep, HistoryStep DEF Forward
  <1> DEFINE op1 == Head(channel)
             box == inbox \o <<op1>>
             rest == Tail(channel)
             k == Len(inbox)
             n == Len(rest)
  <1>2. /\ link = "streaming" /\ ~lagged /\ channel # <<>>
        /\ inbox' = box /\ channel' = rest
        /\ UNCHANGED <<link, position, plan, lagged, barrier, caughtUp, applying,
                       cursor, copy, drops, windows>>
        /\ UNCHANGED <<next, logged, races>>
    BY DEF Forward, Deliver, standby, walVars, publisher, store
  <1>3. /\ channel \in Seq(Ops) /\ inbox \in Seq(Ops)
        /\ Len(channel) <= ChannelCap /\ ChannelCap \in Nat
    BY ReplicationAssumption DEF TypeOK
  <1>4. /\ op1 \in Ops /\ rest \in Seq(Ops) /\ Len(channel) = n + 1
        /\ \A i \in 1 .. n : rest[i] = channel[i + 1]
        /\ n \in Nat /\ op1 = channel[1]
    <2>1. /\ Head(channel) \in Ops /\ Tail(channel) \in Seq(Ops)
          /\ Len(Tail(channel)) = Len(channel) - 1
          /\ \A i \in 1 .. Len(Tail(channel)) : Tail(channel)[i] = channel[i + 1]
      BY <1>2, <1>3, HeadTailProperties
    <2>2. Len(channel) \in Nat /\ Len(Tail(channel)) \in Nat
      BY <1>3, <2>1, LenProperties
    <2> QED BY <2>1, <2>2
  <1>5. /\ box \in Seq(Ops) /\ Len(box) = k + 1 /\ k \in Nat
        /\ \A i \in 1 .. k : box[i] = inbox[i]
        /\ box[k + 1] = op1
    <2>1. k \in Nat BY <1>3, LenProperties
    <2>2. inbox \o <<op1>> = Append(inbox, op1)
      BY <1>3, <1>4, AppendIsConcat
    <2> QED BY <1>3, <1>4, <2>1, <2>2, AppendProperties
  <1> HIDE DEF op1, box, rest, k, n
  <1>6. TypeOK'
    <2>1. Len(rest) <= ChannelCap BY <1>3, <1>4 DEF n
    <2> QED BY <1>1, <1>2, <1>4, <1>5, <2>1 DEF TypeOK, WalInv
  <1>7. ASSUME ~Raced' PROVE Feed'
    <2>1. Feed BY <1>2, <1>7 DEF Raced
    <2>2. /\ next \in Nat /\ cursor \in Nat
          /\ \A op \in logged : op.lsn \in Nat
      BY DEF WalInv, WalTypeOK, TypeOK, Lsns
    <2>3. Prefix' BY <1>2, <2>1 DEF Feed, Prefix
    <2>4. Plan' BY <1>2, <2>1 DEF Feed, Plan
    <2>5. op1 \in logged /\ op1.lsn < next
      BY <1>4, <2>1 DEF Feed, Tap
    <2>6. Wire'
      <3>1. \A i \in 1 .. k + 1 : box[i] \in logged /\ box[i].lsn < next
        BY <1>5, <2>1, <2>5 DEF Feed, Wire, k
      <3>2. ASSUME NEW i \in 1 .. k + 1, NEW op \in logged, op.lsn < box[i].lsn
            PROVE  op.lsn <= cursor \/ \E j \in 1 .. i - 1 : box[j] = op
        <4>1. CASE i \in 1 .. k
          <5>1. op.lsn <= cursor \/ \E j \in 1 .. i - 1 : inbox[j] = op
            BY <1>5, <2>1, <3>2, <4>1 DEF Feed, Wire, k
          <5> QED BY <1>5, <4>1, <5>1
        <4>2. CASE i = k + 1
          <5>1. op.lsn < op1.lsn BY <1>5, <3>2, <4>2
          <5>2. \/ op.lsn <= cursor
                \/ \E j \in 1 .. k : inbox[j] = op
                \/ \E j \in 1 .. Len(channel) : channel[j] = op
            BY <1>2, <2>1, <2>2, <2>5, <5>1 DEF Feed, Tap, k
          <5>3. \A j \in 1 .. Len(channel) : channel[j] # op
            <6>1. ASSUME NEW j \in 1 .. n + 1 PROVE ~(channel[j].lsn < channel[1].lsn)
              <7>1. j = 1 \/ channel[1].lsn < channel[j].lsn
                BY <1>4, <2>1 DEF Feed, Tap
              <7>2. channel[1].lsn \in Nat /\ channel[j].lsn \in Nat
                BY <1>4, <2>1, <2>2 DEF Feed, Tap
              <7> QED BY <7>1, <7>2
            <6> QED BY <1>4, <5>1, <6>1
          <5> QED BY <1>5, <4>2, <5>2, <5>3
        <4> QED BY <1>5, <4>1, <4>2
      <3> QED BY <1>2, <1>5, <3>1, <3>2 DEF Wire
    <2>7. Tap'
      <3>1. \A i \in 1 .. n : i \in 1 .. Len(channel) /\ i + 1 \in 1 .. Len(channel)
        BY <1>4
      <3>2. \A i \in 1 .. n : rest[i] \in logged /\ rest[i].lsn < next
        BY <1>4, <2>1, <3>1 DEF Feed, Tap
      <3>3. \A i, j \in 1 .. n : i < j => rest[i].lsn < rest[j].lsn
        BY <1>4, <2>1, <3>1 DEF Feed, Tap
      <3>4. ASSUME NEW op \in logged, cursor < op.lsn, op.lsn < next
            PROVE  \/ \E i \in 1 .. k + 1 : box[i] = op
                   \/ \E i \in 1 .. n : rest[i] = op
        <4>1. \/ \E i \in 1 .. k : inbox[i] = op
              \/ \E i \in 1 .. n + 1 : channel[i] = op
          BY <1>2, <1>4, <2>1, <3>4 DEF Feed, Tap, k
        <4>2. CASE \E i \in 1 .. k : inbox[i] = op BY <1>5, <4>2
        <4>3. ASSUME NEW i \in 1 .. n + 1, channel[i] = op
              PROVE  op = op1 \/ \E j \in 1 .. n : rest[j] = op
          <5>1. CASE i = 1 BY <1>4, <4>3, <5>1
          <5>2. CASE i # 1
            <6>1. i - 1 \in 1 .. n /\ rest[i - 1] = channel[i] BY <1>4, <5>2
            <6> QED BY <4>3, <6>1
          <5> QED BY <5>1, <5>2
        <4> QED BY <1>5, <4>1, <4>2, <4>3
      <3> QED BY <1>2, <1>5, <3>2, <3>3, <3>4 DEF Tap, n
    <2> QED BY <2>3, <2>4, <2>6, <2>7 DEF Feed
  <1> QED BY <1>1, <1>6, <1>7

\* A closed queue takes nothing: the head of the channel is gone, and so is the
\* claim that channel and wire hold all the standby lacks.
LEMMA ForwardClosedInv ==
  ASSUME StandbyInv, Forward, ~applying
  PROVE  StandbyInv'
  <1> USE DEF StandbyInv
  <1>1. WalInv' /\ History'
    BY WalStep, HistoryStep DEF Forward
  <1> DEFINE rest == Tail(channel)
             n == Len(rest)
  <1>2. /\ channel # <<>> /\ channel' = rest
        /\ UNCHANGED <<link, position, plan, lagged, barrier, caughtUp, inbox,
                       applying, cursor, copy, drops, windows>>
        /\ UNCHANGED <<next, logged, races>> /\ link = "streaming"
    BY DEF Forward, Deliver, standby, walVars, publisher, store
  <1>3. /\ channel \in Seq(Ops) /\ Len(channel) <= ChannelCap /\ ChannelCap \in Nat
    BY ReplicationAssumption DEF TypeOK
  <1>4. /\ rest \in Seq(Ops) /\ Len(channel) = n + 1 /\ n \in Nat
        /\ \A i \in 1 .. n : rest[i] = channel[i + 1]
    <2>1. /\ Tail(channel) \in Seq(Ops)
          /\ Len(Tail(channel)) = Len(channel) - 1
          /\ \A i \in 1 .. Len(Tail(channel)) : Tail(channel)[i] = channel[i + 1]
      BY <1>2, <1>3, HeadTailProperties
    <2>2. Len(channel) \in Nat /\ Len(Tail(channel)) \in Nat
      BY <1>3, <2>1, LenProperties
    <2> QED BY <2>1, <2>2
  <1> HIDE DEF rest, n
  <1>5. TypeOK'
    <2>1. Len(rest) <= ChannelCap BY <1>3, <1>4 DEF n
    <2> QED BY <1>1, <1>2, <1>4, <2>1 DEF TypeOK, WalInv
  <1>6. ASSUME ~Raced' PROVE Feed'
    <2>1. Feed BY <1>2, <1>6 DEF Raced
    <2>2. Prefix' /\ Wire' /\ Plan' BY <1>2, <2>1 DEF Feed, Prefix, Wire, Plan
    <2>3. \A i \in 1 .. n : i \in 1 .. Len(channel) /\ i + 1 \in 1 .. Len(channel)
      BY <1>4
    <2>4. \A i \in 1 .. n : rest[i] \in logged /\ rest[i].lsn < next
      BY <1>4, <2>1, <2>3 DEF Feed, Tap
    <2>5. \A i, j \in 1 .. n : i < j => rest[i].lsn < rest[j].lsn
      BY <1>4, <2>1, <2>3 DEF Feed, Tap
    <2>6. Tap' BY <1>2, <2>4, <2>5 DEF Tap, n
    <2> QED BY <2>2, <2>6 DEF Feed
  <1> QED BY <1>1, <1>5, <1>6

\* A failed apply discards the queue, and the server that then stops hangs up.
LEMMA ApplyFailsInv ==
  ASSUME StandbyInv, ApplyFails \/ StandbyStops
  PROVE  StandbyInv'
  <1> USE ReplicationAssumption DEF StandbyInv
  <1>1. WalInv' /\ History'
    BY WalStep, HistoryStep DEF ApplyFails, StandbyStops
  <1>2. /\ UNCHANGED <<position, caughtUp, cursor, copy, drops, windows>>
        /\ UNCHANGED <<next, logged, races>>
        /\ applying' = FALSE
        /\ inbox' = inbox \/ inbox' = <<>>
        /\ \/ UNCHANGED <<link, plan, channel, lagged, barrier>>
           \/ /\ link' = "failed" /\ channel' = <<>> /\ lagged' = FALSE
              /\ plan' = NoPlan /\ barrier' = NoBarrier
    BY DEF ApplyFails, StandbyStops, TypeOK, standby, linkVars, walVars,
           publisher, store
  <1>3. <<>> \in Seq(Ops) /\ Len(<<>>) = 0 BY EmptySeq
  <1>4. TypeOK'
    <2>1. Len(<<>>) <= ChannelCap BY <1>3
    <2>2. NoPlan \in [latest : 0 .. MaxLsn, checkpoint : 0 .. MaxLsn \cup {NoCheckpoint}]
      BY WalAssumption DEF NoPlan
    <2> QED BY <1>1, <1>2, <1>3, <2>1, <2>2 DEF TypeOK, WalInv, Links
  <1>5. ASSUME ~Raced' PROVE Feed'
    <2>1. Feed BY <1>2, <1>5 DEF Raced
    <2>2. Prefix' BY <1>2, <2>1 DEF Feed, Prefix
    <2>3. Wire' BY <1>2, <1>3, <2>1 DEF Feed, Wire
    <2>4. Tap' BY <1>2, <1>3, <2>1 DEF Feed, Tap
    <2>5. Plan' BY <1>2, <2>1 DEF Feed, Plan, Connected
    <2> QED BY <2>2, <2>3, <2>4, <2>5 DEF Feed
  <1> QED BY <1>1, <1>4, <1>5

\* The standby applies the head of the wire: everything below it has been
\* applied already.
LEMMA ApplyInv ==
  ASSUME StandbyInv, Apply
  PROVE  StandbyInv'
  <1> USE DEF StandbyInv
  <1>1. WalInv' /\ History'
    BY WalStep, HistoryStep DEF Apply
  <1> DEFINE op1 == Head(inbox)
             rest == Tail(inbox)
             n == Len(rest)
             cur == IF op1.lsn > cursor THEN op1.lsn ELSE cursor
  <1>2. /\ inbox # <<>> /\ inbox' = rest /\ cursor' = cur
        /\ copy' = IF op1.lsn > cursor THEN copy \cup {op1} ELSE copy
        /\ UNCHANGED <<link, position, plan, channel, lagged, barrier, caughtUp>>
        /\ UNCHANGED <<applying, drops, windows, next, logged, races>>
    BY DEF Apply, linkVars, walVars, publisher, store
  <1>3. inbox \in Seq(Ops) /\ cursor \in 0 .. MaxLsn /\ MaxLsn \in Nat
    BY WalAssumption DEF TypeOK
  <1>4. /\ op1 \in Ops /\ rest \in Seq(Ops) /\ Len(inbox) = n + 1
        /\ \A i \in 1 .. n : rest[i] = inbox[i + 1]
        /\ n \in Nat /\ op1 = inbox[1]
    <2>1. /\ Head(inbox) \in Ops /\ Tail(inbox) \in Seq(Ops)
          /\ Len(Tail(inbox)) = Len(inbox) - 1
          /\ \A i \in 1 .. Len(Tail(inbox)) : Tail(inbox)[i] = inbox[i + 1]
      BY <1>2, <1>3, HeadTailProperties
    <2>2. Len(inbox) \in Nat /\ Len(Tail(inbox)) \in Nat
      BY <1>3, <2>1, LenProperties
    <2> QED BY <2>1, <2>2
  <1>5. /\ cur \in 0 .. MaxLsn /\ cursor <= cur /\ op1.lsn <= cur
        /\ op1.lsn \in Nat /\ cur \in {cursor, op1.lsn}
    BY <1>3, <1>4 DEF Ops, Lsns
  <1>6. copy' \subseteq Ops BY <1>2, <1>4 DEF TypeOK
  <1>7. \/ copy' = copy /\ cur = cursor
        \/ copy' = copy \cup {op1} /\ cur = op1.lsn /\ op1.lsn > cursor
    BY <1>2
  <1> HIDE DEF op1, rest, n, cur
  <1>8. TypeOK' BY <1>1, <1>2, <1>4, <1>5, <1>6 DEF TypeOK, WalInv
  <1>9. ASSUME ~Raced' PROVE Feed'
    <2>1. Feed /\ races = {} BY <1>2, <1>9 DEF Raced
    <2>2. /\ next \in Nat /\ cursor \in Nat /\ cur \in Nat
          /\ \A op \in logged : op.lsn \in Nat
      BY <1>5 DEF WalInv, WalTypeOK, TypeOK, Lsns
    <2>3. op1 \in logged /\ op1.lsn < next BY <1>4, <2>1 DEF Feed, Wire
    <2>4. \A op \in logged : op.lsn < op1.lsn => op.lsn <= cursor
      BY <1>4, <2>1 DEF Feed, Wire
    <2>5. Prefix'
      <3>1. copy = {op \in logged : op.lsn <= cursor}
        BY <2>1 DEF Feed, Prefix
      <3>2. copy' = {op \in logged : op.lsn <= cur}
        <4>1. CASE copy' = copy /\ cur = cursor BY <3>1, <4>1
        <4>2. CASE copy' = copy \cup {op1} /\ cur = op1.lsn /\ op1.lsn > cursor
          <5>1. \A op \in logged : op.lsn = op1.lsn => op = op1
            BY <2>1, <2>3 DEF History
          <5>2. \A op \in logged : op.lsn <= op1.lsn <=> op.lsn <= cursor \/ op = op1
            BY <1>5, <2>2, <2>4, <4>2, <5>1
          <5> QED BY <2>3, <3>1, <4>2, <5>2
        <4> QED BY <1>7, <4>1, <4>2
      <3>3. cur < next BY <1>5, <2>1, <2>3 DEF Feed, Prefix
      <3>4. cur = 0 \/ \E op \in logged : op.lsn = cur
        BY <1>5, <2>1, <2>3 DEF Feed, Prefix
      <3> QED BY <1>2, <3>2, <3>3, <3>4 DEF Prefix
    <2>6. Wire'
      <3>1. \A i \in 1 .. n : /\ i + 1 \in 1 .. Len(inbox)
                              /\ rest[i] \in logged /\ rest[i].lsn < next
        BY <1>4, <2>1 DEF Feed, Wire
      <3>2. ASSUME NEW i \in 1 .. n, NEW op \in logged, op.lsn < rest[i].lsn
            PROVE  op.lsn <= cur \/ \E j \in 1 .. i - 1 : rest[j] = op
        <4>1. op.lsn <= cursor \/ \E j \in 1 .. i : inbox[j] = op
          <5>1. inbox[i + 1] = rest[i] BY <1>4
          <5>2. op.lsn <= cursor \/ \E j \in 1 .. (i + 1) - 1 : inbox[j] = op
            BY <2>1, <3>1, <3>2, <5>1 DEF Feed, Wire
          <5>3. (i + 1) - 1 = i OBVIOUS
          <5> QED BY <5>2, <5>3
        <4>2. ASSUME NEW j \in 1 .. i, inbox[j] = op
              PROVE  op = op1 \/ \E m \in 1 .. i - 1 : rest[m] = op
          <5>1. CASE j = 1 BY <1>4, <4>2, <5>1
          <5>2. CASE j # 1
            <6>1. j - 1 \in 1 .. i - 1 /\ rest[j - 1] = inbox[j] BY <1>4, <5>2
            <6> QED BY <4>2, <6>1
          <5> QED BY <5>1, <5>2
        <4> QED BY <1>5, <2>2, <4>1, <4>2
      <3> QED BY <1>2, <3>1, <3>2 DEF Wire, n
    <2>7. Tap'
      <3>1. ASSUME link = "streaming", ~lagged, applying,
                   NEW op \in logged, cur < op.lsn, op.lsn < next
            PROVE  \/ \E i \in 1 .. n : rest[i] = op
                   \/ \E i \in 1 .. Len(channel) : channel[i] = op
        <4>1. cursor < op.lsn /\ op # op1 BY <1>5, <2>2, <3>1
        <4>2. \/ \E i \in 1 .. n + 1 : inbox[i] = op
              \/ \E i \in 1 .. Len(channel) : channel[i] = op
          BY <1>4, <2>1, <3>1, <4>1 DEF Feed, Tap
        <4>3. ASSUME NEW j \in 1 .. n + 1, inbox[j] = op
              PROVE  \E m \in 1 .. n : rest[m] = op
          <5>1. j # 1 BY <1>4, <4>1, <4>3
          <5>2. j - 1 \in 1 .. n /\ rest[j - 1] = inbox[j] BY <1>4, <5>1
          <5> QED BY <4>3, <5>2
        <4> QED BY <4>2, <4>3
      <3> QED BY <1>2, <2>1, <3>1 DEF Feed, Tap, n
    <2>8. Plan'
      <3>1. position \in Nat /\ barrier \in Int BY DEF TypeOK, NoBarrier
      <3>2. /\ position <= cursor => position <= cur
            /\ barrier <= cursor => barrier <= cur
        BY <1>5, <2>2, <3>1
      <3> QED BY <1>2, <2>1, <3>2 DEF Feed, Plan
    <2> QED BY <2>5, <2>6, <2>7, <2>8 DEF Feed
  <1> QED BY <1>1, <1>8, <1>9

\* The barrier of a catch-up is the greatest LSN it sends, or its start.
LEMMA BarrierBound ==
  ASSUME NEW S, S \subseteq Nat, NEW a \in Nat, NEW b \in Nat, a <= b,
         \A x \in S : x <= b
  PROVE  /\ CatchupBarrier(a, S) \in 0 .. b /\ a <= CatchupBarrier(a, S)
         /\ \A x \in S : x <= CatchupBarrier(a, S)
  <1> DEFINE T == S \cup {a}
  <1>1. T \subseteq Int /\ T # {} /\ \A x \in T : x <= b OBVIOUS
  <1>2. CatchupBarrier(a, S) = Max(T) BY DEF CatchupBarrier
  <1> HIDE DEF T
  <1>3. b \in Int OBVIOUS
  <1>4. Max(T) \in T /\ \A x \in T : x <= Max(T) BY <1>1, <1>3, MaxExists, Zenon
  <1>5. PICK m \in T : m = Max(T) /\ \A x \in T : x <= m BY <1>4
  <1>6. m \in 0 .. b /\ a <= m /\ \A x \in S : x <= m BY <1>1, <1>5 DEF T
  <1> QED BY <1>2, <1>5, <1>6

\* Unless a checkpoint ran in between, the catch-up sends every row write that
\* the standby lacks up to the watermark of the plan, in order.
LEMMA SendCatchupInv ==
  ASSUME StandbyInv, SendCatchup
  PROVE  StandbyInv'
  <1> USE DEF StandbyInv
  <1>1. WalInv' /\ History'
    BY WalStep, HistoryStep DEF SendCatchup
  <1> DEFINE lsns == Missing(position, plan.latest)
             top == CatchupBarrier(position, lsns)
  <1>2. /\ link = "planned" /\ link' = "streaming" /\ barrier' = top
        /\ UNCHANGED <<position, plan, channel, lagged, caughtUp, applying, cursor,
                       copy, drops>>
        /\ UNCHANGED <<next, logged, races>>
        /\ \/ plan.checkpoint = ckpt /\ windows' = windows
           \/ windows' = windows \cup {"pruned"}
    BY DEF SendCatchup, standby, walVars, publisher, store
  <1>3. PICK seq \in Ascending(lsns) :
          inbox' = IF applying THEN inbox \o [i \in DOMAIN seq |-> LogOp(seq[i])]
                               ELSE inbox
    BY DEF SendCatchup, Deliver
  <1>4. /\ position \in 0 .. MaxLsn /\ MaxLsn \in Nat /\ cursor \in Nat
        /\ plan.latest \in Nat /\ next \in Nat /\ inbox \in Seq(Ops)
        /\ \A op \in logged : op.lsn \in Nat
        /\ \A op \in logged : op.lsn \in Lsns /\ op.session # 0 /\ op \in Ops
        /\ \A op \in logged : op = [session |-> op.session, lsn |-> op.lsn]
    <2>1. logged \subseteq Ops BY DEF WalInv, WalTypeOK, Ops
    <2>2. /\ position \in 0 .. MaxLsn /\ MaxLsn \in Nat /\ cursor \in Nat
          /\ plan.latest \in Nat /\ next \in Nat /\ inbox \in Seq(Ops)
      BY WalAssumption DEF WalInv, WalTypeOK, TypeOK
    <2> QED BY <2>1, <2>2 DEF Ops, Lsns, Sessions
  <1>5. /\ lsns \subseteq Lsns /\ lsns \subseteq Nat
        /\ \A l \in lsns : /\ l > position /\ l <= plan.latest /\ l <= MaxLsn
                           /\ LogOp(l) \in logged /\ LogOp(l).lsn = l
    BY <1>4 DEF Missing, Retained, WalInv, Logged, LogOp, Lsns
  <1>6. top \in 0 .. MaxLsn /\ position <= top /\ \A l \in lsns : l <= top
    <2>1. position \in Nat /\ position <= MaxLsn BY <1>4
    <2>2. \A l \in lsns : l <= MaxLsn BY <1>5
    <2> QED BY <1>4, <1>5, <2>1, <2>2, BarrierBound
  <1> DEFINE n == Cardinality(lsns)
  <1>7. /\ n \in Nat /\ seq \in [1 .. n -> lsns] /\ DOMAIN seq = 1 .. n
        /\ \A i, j \in 1 .. n : i < j => seq[i] < seq[j]
        /\ \A l \in lsns : \E i \in 1 .. n : seq[i] = l
    <2>1. IsFiniteSet(1 .. MaxLsn)
      <3>1. 1 \in Int /\ MaxLsn \in Int BY WalAssumption
      <3> QED BY <3>1, FS_Interval, Zenon
    <2>2. IsFiniteSet(lsns) BY <1>5, <2>1, FS_Subset DEF Lsns
    <2>3. n \in Nat BY <2>2, FS_CardinalityType
    <2>4. seq \in [1 .. n -> lsns] BY <1>3 DEF Ascending
    <2>5. DOMAIN seq = 1 .. n BY <2>4
    <2>6. /\ \A i, j \in DOMAIN seq : i < j => seq[i] < seq[j]
          /\ \A l \in lsns : \E i \in DOMAIN seq : seq[i] = l
      BY <1>3 DEF Ascending
    <2> QED BY <2>3, <2>4, <2>5, <2>6
  <1> DEFINE m == [i \in 1 .. n |-> LogOp(seq[i])]
             k == Len(inbox)
             box == inbox \o m
  <1>8. inbox' = IF applying THEN box ELSE inbox BY <1>3, <1>7
  <1> HIDE DEF lsns, top, n
  <1>9. m \in Seq(Ops) /\ Len(m) = n /\ \A i \in 1 .. n : m[i] = LogOp(seq[i])
    <2>1. \A i \in 1 .. n : LogOp(seq[i]) \in Ops BY <1>4, <1>5, <1>7
    <2>2. m \in [1 .. n -> Ops] BY <2>1
    <2> QED BY <1>7, <2>2
  <1> HIDE DEF m
  <1>10. /\ box \in Seq(Ops) /\ Len(box) = k + n /\ k \in Nat
         /\ \A i \in 1 .. k : box[i] = inbox[i]
         /\ \A i \in 1 .. n : box[k + i] = LogOp(seq[i])
    <2>1. k \in Nat BY <1>4, LenProperties
    <2>2. /\ inbox \o m \in Seq(Ops) /\ Len(inbox \o m) = Len(inbox) + Len(m)
          /\ \A i \in 1 .. Len(inbox) + Len(m) : (inbox \o m)[i] =
               IF i <= Len(inbox) THEN inbox[i] ELSE m[i - Len(inbox)]
      BY <1>4, <1>9, ConcatProperties
    <2>3. \A i \in 1 .. k : box[i] = inbox[i] BY <1>7, <1>9, <2>1, <2>2
    <2>4. ASSUME NEW i \in 1 .. n PROVE box[k + i] = LogOp(seq[i])
      <3>1. k + i \in 1 .. k + n /\ ~(k + i <= k) /\ (k + i) - k = i
        BY <1>7, <2>1
      <3> QED BY <1>9, <2>2, <3>1
    <2> QED BY <1>9, <2>1, <2>2, <2>3, <2>4
  <1> HIDE DEF k, box
  <1>11. TypeOK'
    <2>1. windows' \subseteq Windows /\ link' \in Links
      BY <1>2 DEF TypeOK, Windows, Links
    <2>2. inbox' \in Seq(Ops) BY <1>4, <1>8, <1>10
    <2> QED BY <1>1, <1>2, <1>6, <2>1, <2>2 DEF TypeOK, WalInv
  <1>12. ASSUME ~Raced' PROVE Feed'
    <2>1. Feed /\ races = {} /\ plan.checkpoint = ckpt
      BY <1>2, <1>12 DEF Raced
    <2>2. position <= cursor /\ ckpt <= position /\ plan.latest < next /\ ~caughtUp
      BY <1>2, <2>1 DEF Feed, Plan, Connected
    <2>3. ASSUME NEW op \in logged, position < op.lsn, op.lsn <= plan.latest
          PROVE  \E i \in 1 .. n : seq[i] = op.lsn /\ LogOp(seq[i]) = op
      <3>1. ~(op.lsn <= ckpt)
        <4>1. ckpt \in Int BY DEF WalInv, WalTypeOK, NoCheckpoint
        <4> QED BY <1>4, <2>2, <2>3, <4>1
      <3>2. entries[op.lsn] = op.session
        BY <2>1, <3>1 DEF WalInv, Covered
      <3>3. op.lsn \in lsns BY <1>4, <2>3, <3>2 DEF lsns, Missing, Retained
      <3>4. LogOp(op.lsn) = op BY <1>4, <3>2 DEF LogOp
      <3> QED BY <1>7, <3>3, <3>4
    <2>4. Prefix' BY <1>2, <2>1 DEF Feed, Prefix
    <2>5. Wire'
      <3>1. \A i \in 1 .. n : /\ LogOp(seq[i]) \in logged /\ LogOp(seq[i]).lsn = seq[i]
                              /\ seq[i] <= plan.latest /\ seq[i] \in Nat
        BY <1>5, <1>7
      <3>2. ASSUME NEW i \in 1 .. k
            PROVE  /\ box[i] \in logged /\ box[i].lsn < next
                   /\ \A op \in logged : op.lsn < box[i].lsn =>
                        op.lsn <= cursor \/ \E j \in 1 .. i - 1 : box[j] = op
        <4>1. /\ inbox[i] \in logged /\ inbox[i].lsn < next
              /\ \A op \in logged : op.lsn < inbox[i].lsn =>
                   op.lsn <= cursor \/ \E j \in 1 .. i - 1 : inbox[j] = op
          BY <2>1 DEF Feed, Wire, k
        <4>2. \A j \in 1 .. i - 1 : box[j] = inbox[j] BY <1>10
        <4> QED BY <1>10, <4>1, <4>2
      <3>3. ASSUME NEW i \in 1 .. n
            PROVE  /\ box[k + i] \in logged /\ box[k + i].lsn < next
                   /\ \A op \in logged : op.lsn < box[k + i].lsn =>
                        op.lsn <= cursor \/ \E j \in 1 .. (k + i) - 1 : box[j] = op
        <4>1. box[k + i] \in logged /\ box[k + i].lsn = seq[i] /\ seq[i] < next
          BY <1>4, <1>10, <2>2, <3>1
        <4>2. ASSUME NEW op \in logged, op.lsn < seq[i], ~(op.lsn <= cursor)
              PROVE  \E j \in 1 .. (k + i) - 1 : box[j] = op
          <5>1. position < op.lsn /\ op.lsn <= plan.latest
            BY <1>4, <2>2, <3>1, <4>2
          <5>2. PICK h \in 1 .. n : seq[h] = op.lsn /\ LogOp(seq[h]) = op
            BY <2>3, <5>1
          <5>3. h < i
            <6>1. ~(i < h) /\ i # h BY <1>4, <1>7, <3>1, <4>2, <5>2
            <6> QED BY <1>7, <6>1
          <5>4. k + h \in 1 .. (k + i) - 1 BY <1>7, <1>10, <5>3
          <5> QED BY <1>10, <5>2, <5>4
        <4> QED BY <4>1, <4>2
      <3>4. \A i \in 1 .. k + n : i \in 1 .. k \/ \E j \in 1 .. n : i = k + j
        <4> SUFFICES ASSUME NEW i \in 1 .. k + n, i \notin 1 .. k
                     PROVE  i - k \in 1 .. n /\ i = k + (i - k)
          OBVIOUS
        <4> QED BY <1>7, <1>10
      <3>5. \A i \in 1 .. k + n :
              /\ box[i] \in logged /\ box[i].lsn < next
              /\ \A op \in logged : op.lsn < box[i].lsn =>
                   op.lsn <= cursor \/ \E j \in 1 .. i - 1 : box[j] = op
        BY <3>2, <3>3, <3>4
      <3>6. CASE applying BY <1>2, <1>8, <1>10, <3>5, <3>6 DEF Wire
      <3>7. CASE ~applying BY <1>2, <1>8, <2>1, <3>7 DEF Feed, Wire
      <3> QED BY <3>6, <3>7
    <2>6. Tap'
      <3>1. ASSUME ~lagged, NEW op \in logged, cursor < op.lsn, op.lsn < next
            PROVE  \/ \E i \in 1 .. k + n : box[i] = op
                   \/ \E i \in 1 .. Len(channel) : channel[i] = op
        <4>1. CASE op.lsn <= plan.latest
          <5>1. position < op.lsn BY <1>4, <2>2, <3>1
          <5>2. PICK h \in 1 .. n : LogOp(seq[h]) = op BY <2>3, <4>1, <5>1
          <5>3. k + h \in 1 .. k + n BY <1>7, <1>10
          <5> QED BY <1>10, <5>2, <5>3
        <4>2. CASE plan.latest < op.lsn
          BY <1>2, <2>1, <3>1, <4>2 DEF Feed, Tap
        <4> QED BY <1>4, <4>1, <4>2
      <3> QED BY <1>2, <1>8, <1>10, <2>1, <3>1 DEF Feed, Tap
    <2>7. Plan'
      <3>1. \A op \in logged : op.lsn <= plan.latest => op.lsn <= top
        <4> SUFFICES ASSUME NEW op \in logged, op.lsn <= plan.latest PROVE op.lsn <= top
          OBVIOUS
        <4>1. CASE op.lsn <= position
          <5>1. op.lsn \in Nat /\ position \in Nat /\ top \in Nat BY <1>4, <1>6
          <5> QED BY <1>6, <4>1, <5>1
        <4>2. CASE position < op.lsn BY <1>6, <1>7, <2>3, <4>2
        <4> QED BY <1>4, <4>1, <4>2
      <3> QED BY <1>2, <2>2, <3>1 DEF Plan, Connected
    <2> QED BY <2>4, <2>5, <2>6, <2>7 DEF Feed
  <1> QED BY <1>1, <1>11, <1>12

\* A standby that was refused or has stopped stays as it is when the primary restarts.
LEMMA RefusedInv ==
  ASSUME StandbyInv, Crash \/ CleanRestart, link \in {"refused", "failed"},
         UNCHANGED <<linkVars, inbox, standby, drops, windows>>
  PROVE  StandbyInv'
  <1> USE DEF StandbyInv
  <1>1. WalInv' /\ History' BY WalStep, HistoryStep DEF WalNext
  <1>2. /\ UNCHANGED <<link, position, plan, channel, lagged, barrier, caughtUp,
                       inbox, applying, cursor, copy, drops, windows>>
        /\ logged' = logged
        /\ races' = {} => races = {} /\ \A op \in logged : op.lsn < next'
    BY RestartAbove DEF linkVars, standby
  <1>3. TypeOK' BY <1>1, <1>2 DEF TypeOK, WalInv
  <1>4. ASSUME ~Raced' PROVE Feed'
    <2>1. Feed /\ \A op \in logged : op.lsn < next' BY <1>2, <1>4 DEF Raced
    <2>2. 0 < next'
      <3>1. PICK m \in Nat \ {0} : next' = m BY <1>1 DEF WalInv, WalTypeOK
      <3> QED BY <3>1
    <2>3. Prefix' BY <1>2, <2>1, <2>2 DEF Feed, Prefix
    <2>4. Wire' BY <1>2, <2>1 DEF Feed, Wire
    <2>5. Tap' BY <1>2, <2>1 DEF Feed, Tap
    <2>6. Plan' BY <1>2 DEF Plan, Connected
    <2> QED BY <2>3, <2>4, <2>5, <2>6 DEF Feed
  <1> QED BY <1>1, <1>3, <1>4

\* Every way to lose a connection, and the restart of the primary.
LEMMA LossInv ==
  ASSUME StandbyInv, LagDisconnect \/ Disconnect \/ StandbyCrash \/ PrimaryRestart
  PROVE  StandbyInv'
  <1> USE ReplicationAssumption
  <1>1. /\ Len(inbox) \in Nat /\ drops \in 0 .. MaxDrops
        /\ applying \in BOOLEAN
    BY LenProperties DEF StandbyInv, TypeOK
  <1>2. CASE LagDisconnect
    <2>1. Hangup(Len(inbox)) /\ UNCHANGED <<walVars, applying, cursor, copy, drops, windows>>
      BY <1>2 DEF LagDisconnect, standby
    <2>2. Len(inbox) \in 0 .. Len(inbox) BY <1>1
    <2> QED BY <1>1, <2>1, <2>2, HangupInv
  <1>3. CASE Disconnect
    <2>1. /\ \E n \in 0 .. Len(inbox) : Hangup(n)
          /\ UNCHANGED <<walVars, applying, cursor, copy, windows>>
          /\ drops < MaxDrops /\ drops' = drops + 1
      BY <1>3 DEF Disconnect, standby
    <2>2. drops' \in 0 .. MaxDrops BY <1>1, <2>1
    <2> QED BY <1>1, <2>1, <2>2, HangupInv
  <1>4. CASE StandbyCrash
    <2>1. /\ Hangup(0) /\ UNCHANGED <<walVars, cursor, copy, windows>>
          /\ drops < MaxDrops /\ drops' = drops + 1 /\ applying' = TRUE
      BY <1>4 DEF StandbyCrash
    <2>2. drops' \in 0 .. MaxDrops /\ 0 \in 0 .. Len(inbox) BY <1>1, <2>1
    <2> QED BY <2>1, <2>2, HangupInv
  <1>5. CASE PrimaryRestart
    <2>1. /\ Crash \/ CleanRestart
          /\ UNCHANGED <<applying, cursor, copy, drops, windows>>
          /\ UNCHANGED <<standby, drops, windows>>
          /\ \/ link \in {"refused", "failed"} /\ UNCHANGED <<linkVars, inbox>>
             \/ \E n \in 0 .. Len(inbox) : Hangup(n)
      BY <1>5 DEF PrimaryRestart, standby
    <2>2. CASE link \in {"refused", "failed"} /\ UNCHANGED <<linkVars, inbox>>
      BY <2>1, <2>2, RefusedInv
    <2>3. CASE \E n \in 0 .. Len(inbox) : Hangup(n)
      BY <1>1, <2>1, <2>3, HangupInv DEF WalNext
    <2> QED BY <2>1, <2>2, <2>3
  <1> QED BY <1>2, <1>3, <1>4, <1>5

\* Every step of the log, the connection and the standby keeps the invariant.
LEMMA StandbyStep ==
  ASSUME StandbyInv, [Next]_vars
  PROVE  StandbyInv'
  <1>1. CASE UNCHANGED vars
    <2>1. /\ UNCHANGED walVars
          /\ UNCHANGED <<link, position, plan, channel, lagged, barrier, caughtUp,
                         inbox, applying, cursor, copy, drops, windows>>
      BY <1>1 DEF vars, linkVars, standby
    <2>2. UNCHANGED <<next, logged, races>> BY <2>1 DEF walVars, publisher, store
    <2>3. WalInv' /\ History' BY <2>1, WalStep, HistoryStep DEF StandbyInv
    <2>4. TypeOK' BY <2>1, <2>3 DEF StandbyInv, TypeOK, WalInv
    <2>5. Feed => Feed'
      BY <2>1, <2>2 DEF Feed, Prefix, Wire, Tap, Plan
    <2>6. Raced => Raced' BY <2>1, <2>2 DEF Raced
    <2> QED BY <2>3, <2>4, <2>5, <2>6 DEF StandbyInv
  <1>2. CASE Next
    BY <1>2, LogInv, BroadcastInv, LossInv, ConnectInv, ReadWatermarkInv,
       SendCatchupInv, ForwardInv, ForwardClosedInv, DeclareInv, ApplyInv,
       ApplyFailsInv DEF Next, Stream
  <1> QED BY <1>1, <1>2

-----------------------------------------------------------------------------
(* The theorems.                                                           *)

\* The inductive invariant holds in every behaviour of log and standby.
THEOREM StandbyInvariance == Spec => []StandbyInv
  <1>1. Init => StandbyInv BY StandbyInit
  <1>2. StandbyInv /\ [Next]_vars => StandbyInv' BY StandbyStep
  <1> QED BY <1>1, <1>2, PTL DEF Spec

\* The state of connection, wire and standby is well formed: the broadcast
\* channel never exceeds its capacity.
THEOREM StandbyTypeCorrect == Spec => []TypeOK
  <1>1. StandbyInv => TypeOK BY DEF StandbyInv
  <1> QED BY <1>1, StandbyInvariance, PTL

\* Whatever is lost, repeated, late or refused by the applicator, the standby
\* holds exactly the operations logged up to its durable cursor, and of staged
\* commits exactly the committed row writes, unless one of the four races is met.
THEOREM NothingBetween == Spec => []CopyIsPrefixUnlessRaced
  <1>1. StandbyInv => CopyIsPrefixUnlessRaced
    BY DEF StandbyInv, CopyIsPrefixUnlessRaced, CopyIsPrefix, Feed, Prefix,
           WalInv, Together
  <1> QED BY <1>1, StandbyInvariance, PTL

\* A standby that reports CaughtUp holds every operation logged below the
\* watermark its handshake was planned at.
THEOREM CaughtUpComplete == Spec => []CaughtUpIsComplete
  <1>1. StandbyInv => CaughtUpIsComplete
    <2> SUFFICES ASSUME StandbyInv, link = "streaming", caughtUp, ~Raced,
                        NEW op \in logged, op.lsn <= plan.latest
                 PROVE  op \in copy
      BY DEF CaughtUpIsComplete
    <2>1. op.lsn <= barrier /\ barrier <= cursor
      BY DEF StandbyInv, Feed, Plan
    <2>2. op.lsn \in Int /\ barrier \in Int /\ cursor \in Int
      BY DEF StandbyInv, WalInv, WalTypeOK, TypeOK, Lsns, NoBarrier
    <2>3. op.lsn <= cursor BY <2>1, <2>2
    <2> QED BY <2>3 DEF StandbyInv, Feed, Prefix
  <1> QED BY <1>1, StandbyInvariance, PTL
=============================================================================
