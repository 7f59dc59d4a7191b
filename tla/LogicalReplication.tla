------------------------- MODULE LogicalReplication -------------------------
(***************************************************************************)
(* A warm standby fed by the logical WAL: the streaming server and client  *)
(* (replication/streaming.rs), the catch-up read of the storage engine     *)
(* (storage/engine.rs) and the applicator (replication/wal_applicator.rs), *)
(* composed with the log of module Wal.                                    *)
(*                                                                         *)
(* A connection subscribes to the live broadcast, then reads the history   *)
(* the standby lacks from the log, sends it and forwards the broadcast.    *)
(* The standby applies what arrives in order, drops what its durable       *)
(* cursor already covers and writes row and cursor in one batch; an entry  *)
(* it cannot apply closes the applicator's queue and ends the process.     *)
(* Connections drop, the broadcast overflows, and both sides crash.        *)
(*                                                                         *)
(* One standby; an entry is one row operation.                             *)
(***************************************************************************)
EXTENDS Wal, Sequences

CONSTANTS
    ChannelCap,  \* capacity of the broadcast channel
    MaxDrops     \* bound on lost connections, standby crashes and restarts

ASSUME ReplicationAssumption ==
    /\ ChannelCap \in Nat \ {0}
    /\ MaxDrops \in Nat

VARIABLES
    link,      \* state of the connection
    position,  \* current_lsn of the handshake request
    plan,      \* what logical_wal_catchup has read: watermark, checkpoint
    channel,   \* live entries the connection has not forwarded
    lagged,    \* the broadcast overwrote some of them
    inbox,     \* entries on the wire and in the applicator's queue
    applying,  \* ApplicatorState is Streaming; FALSE: Error
    barrier,   \* end_lsn of the final catch-up batch
    caughtUp,  \* status is CaughtUp
    cursor,    \* repl:applied_lsn of the standby
    copy,      \* operations the standby has applied
    drops,     \* connections lost
    windows    \* history: handshakes that met a race, see Windows

linkVars == <<link, position, plan, channel, lagged, barrier, caughtUp>>
standby == <<applying, cursor, copy>>
vars == <<walVars, linkVars, inbox, standby, drops, windows>>

Links == {"down", "subscribed", "planned", "streaming", "refused", "failed"}
Connected == {"subscribed", "planned", "streaming"}
NoBarrier == -1
NoPlan == [latest |-> 0, checkpoint |-> NoCheckpoint]

\* Two races of a handshake with the log:
\*   watermark  entries broadcast before the subscription are not yet below
\*              the published watermark that the plan reads
\*   pruned     a checkpoint deletes entries after the plan compared the
\*              standby's position with the previous checkpoint
Windows == {"watermark", "pruned"}

Init ==
    /\ WalInit
    /\ link = "down" /\ position = 0 /\ plan = NoPlan
    /\ channel = <<>> /\ lagged = FALSE
    /\ inbox = <<>> /\ applying = TRUE
    /\ barrier = NoBarrier /\ caughtUp = FALSE
    /\ cursor = 0 /\ copy = {}
    /\ drops = 0 /\ windows = {}

-----------------------------------------------------------------------------
(* The connection.                                                         *)

\* The client dials with its durable cursor; the server's connection task
\* subscribes to the broadcast before it reads the handshake.
Connect ==
    /\ link = "down"
    /\ link' = "subscribed"
    /\ position' = cursor
    /\ channel' = <<>> /\ lagged' = FALSE
    /\ barrier' = NoBarrier /\ caughtUp' = FALSE
    /\ UNCHANGED <<walVars, plan, inbox, standby, drops, windows>>

\* logical_wal_catchup, first half: the watermark and the checkpoint.  A
\* standby ahead of the one or behind the other needs a full resync, which is
\* terminal on the client.
ReadWatermark ==
    /\ link = "subscribed"
    /\ IF position > published \/ position < ckpt
       THEN link' = "refused" /\ UNCHANGED <<plan, windows>>
       ELSE /\ link' = "planned"
            /\ plan' = [latest |-> published, checkpoint |-> ckpt]
            /\ windows' = IF published < next - 1
                          THEN windows \cup {"watermark"} ELSE windows
    /\ UNCHANGED <<walVars, position, channel, lagged, barrier, caughtUp,
                   inbox, standby, drops>>

\* Mutant of Missing: the entry at the watermark is left out.
MissingBelowWatermark(after, latest) == {l \in Retained : l > after /\ l < latest}

\* replay_from(after), without what lies above the watermark.
Missing(after, latest) == {l \in Retained : l > after /\ l <= latest}

\* Mutant of CatchupBarrier: the final batch carries the position it began at.
CatchupBarrierStart(after, lsns) == after

\* end_lsn of the final batch of send_planned_catchup.
CatchupBarrier(after, lsns) == Max(lsns \cup {after})

\* replay_from returns the entries in key order.
Ascending(lsns) ==
    {seq \in [1 .. Cardinality(lsns) -> lsns] :
       /\ \A i, j \in DOMAIN seq : i < j => seq[i] < seq[j]
       /\ \A l \in lsns : \E i \in DOMAIN seq : seq[i] = l}

\* What reaches the client goes to the applicator's queue, unless it is closed.
Deliver(ops) == inbox' = IF applying THEN inbox \o ops ELSE inbox

\* Second half: the entries are read, and sent in order; the last batch fixes
\* the barrier.
SendCatchup ==
    LET lsns == Missing(position, plan.latest) IN
      /\ link = "planned"
      /\ link' = "streaming"
      /\ \E seq \in Ascending(lsns) :
           Deliver([i \in DOMAIN seq |-> LogOp(seq[i])])
      /\ barrier' = CatchupBarrier(position, lsns)
      /\ windows' = IF plan.checkpoint # ckpt
                    THEN windows \cup {"pruned"} ELSE windows
      /\ UNCHANGED <<walVars, position, plan, channel, lagged, caughtUp,
                     standby, drops>>

\* The live feed is forwarded entry by entry.
Forward ==
    /\ link = "streaming" /\ ~lagged /\ channel # <<>>
    /\ Deliver(<<Head(channel)>>)
    /\ channel' = Tail(channel)
    /\ UNCHANGED <<walVars, link, position, plan, lagged, barrier, caughtUp,
                   standby, drops, windows>>

\* The connection is gone; what was on the wire may be lost, in order.
Hangup(n) ==
    /\ link' = "down"
    /\ inbox' = SubSeq(inbox, 1, n)
    /\ channel' = <<>> /\ lagged' = FALSE
    /\ plan' = NoPlan /\ barrier' = NoBarrier
    /\ UNCHANGED <<position, caughtUp>>

\* Mutant of LagDisconnect: the server goes on after a lag.
LagContinue ==
    /\ link = "streaming" /\ lagged
    /\ lagged' = FALSE
    /\ UNCHANGED <<walVars, link, position, plan, channel, barrier, caughtUp,
                   inbox, standby, drops, windows>>

\* Lagged: the server drops the connection so that the standby catches up
\* from the log.
LagDisconnect ==
    /\ link = "streaming" /\ lagged
    /\ Hangup(Len(inbox))
    /\ UNCHANGED <<walVars, standby, drops, windows>>

\* The network fails.
Disconnect ==
    /\ link \in Connected
    /\ drops < MaxDrops
    /\ drops' = drops + 1
    /\ \E n \in 0 .. Len(inbox) : Hangup(n)
    /\ UNCHANGED <<walVars, standby, windows>>

\* readiness_interval: the standby has applied everything below the barrier.
DeclareCaughtUp ==
    /\ link = "streaming" /\ ~caughtUp
    /\ cursor >= barrier
    /\ caughtUp' = TRUE
    /\ UNCHANGED <<walVars, link, position, plan, channel, lagged, barrier,
                   inbox, standby, drops, windows>>

-----------------------------------------------------------------------------
(* The standby.                                                            *)

\* apply_entry_to_storage: an entry at or below the cursor is skipped, any
\* other is written in one batch with the cursor.
Apply ==
    LET op == Head(inbox)
        new == op.lsn > cursor
    IN  /\ inbox # <<>>
        /\ cursor' = IF new THEN op.lsn ELSE cursor
        /\ copy' = IF new THEN copy \cup {op} ELSE copy
        /\ inbox' = Tail(inbox)
        /\ UNCHANGED <<walVars, linkVars, applying, drops, windows>>

\* Mutant of ApplyFails: the applicator goes on with the next entry.
ApplySkips ==
    /\ inbox # <<>> /\ Head(inbox).lsn > cursor
    /\ inbox' = Tail(inbox)
    /\ UNCHANGED <<walVars, linkVars, standby, drops, windows>>

\* The entry cannot be applied: the state is Error, the queue is closed and
\* what it holds discarded.  The cursor stays below the entry.
ApplyFails ==
    /\ inbox # <<>> /\ Head(inbox).lsn > cursor
    /\ applying' = FALSE
    /\ inbox' = <<>>
    /\ UNCHANGED <<walVars, linkVars, cursor, copy, drops, windows>>

\* The forwarding task sees the closed queue, and its end ends the server.
StandbyStops ==
    /\ ~applying /\ link \notin {"refused", "failed"}
    /\ link' = "failed"
    /\ channel' = <<>> /\ lagged' = FALSE
    /\ plan' = NoPlan /\ barrier' = NoBarrier
    /\ UNCHANGED <<walVars, position, caughtUp, inbox, standby, drops, windows>>

\* The standby dies, or is started again after it stopped: its queue is lost,
\* row and cursor are not, and it has a new applicator.
StandbyCrash ==
    /\ drops < MaxDrops
    /\ drops' = drops + 1
    /\ link # "refused"
    /\ Hangup(0)
    /\ applying' = TRUE
    /\ UNCHANGED <<walVars, cursor, copy, windows>>

-----------------------------------------------------------------------------
(* The primary.                                                            *)

\* Mutant of Broadcast: the channel has no limit.
BroadcastUnbounded(w) ==
    /\ PublishNext(w)
    /\ channel' = IF slots[next] = "ready" /\ link \in Connected
                  THEN Append(channel, Op(next)) ELSE channel
    /\ UNCHANGED <<link, position, plan, lagged, barrier, caughtUp, inbox,
                   standby, drops, windows>>

\* resolve broadcasts: a subscribed connection gets the entry, or loses the
\* oldest one when the channel is full.
Broadcast(w) ==
    /\ PublishNext(w)
    /\ IF slots[next] = "ready" /\ link \in Connected
       THEN LET full == Len(channel) = ChannelCap
            IN  /\ channel' = Append(IF full THEN Tail(channel) ELSE channel,
                                     Op(next))
                /\ lagged' = (lagged \/ full)
       ELSE UNCHANGED <<channel, lagged>>
    /\ UNCHANGED <<link, position, plan, barrier, caughtUp, inbox, standby,
                   drops, windows>>

Log(w) ==
    /\ WriterStart(w) \/ WriterStep(w)
    /\ UNCHANGED <<linkVars, inbox, standby, drops, windows>>

\* The primary restarts; its connection is lost.
PrimaryRestart ==
    /\ Crash \/ CleanRestart
    /\ IF link \in {"refused", "failed"}
       THEN UNCHANGED <<linkVars, inbox>>
       ELSE \E n \in 0 .. Len(inbox) : Hangup(n)
    /\ UNCHANGED <<standby, drops, windows>>

Stream == Connect \/ ReadWatermark \/ SendCatchup \/ Forward \/ LagDisconnect

Next ==
    \/ \E w \in Writers : Log(w) \/ Broadcast(w)
    \/ PrimaryRestart
    \/ Stream \/ Disconnect \/ DeclareCaughtUp
    \/ Apply \/ ApplyFails \/ StandbyStops \/ StandbyCrash

\* Commits run to their end; the client redials without limit, connection and
\* applicator are tasks of running executors.  An entry that stays at the head
\* of the queue is applied or fails.
Spec ==
    /\ Init /\ [][Next]_vars
    /\ \A w \in Writers : WF_vars((WriterStep(w) /\ Log(w)) \/ Broadcast(w))
    /\ WF_vars(Stream)
    /\ WF_vars(DeclareCaughtUp)
    /\ WF_vars(Apply \/ ApplyFails)
    /\ WF_vars(StandbyStops)

-----------------------------------------------------------------------------
Ops == [session : Sessions, lsn : Lsns]

TypeOK ==
    /\ WalTypeOK
    /\ link \in Links
    /\ position \in 0 .. MaxLsn
    /\ plan \in [latest : 0 .. MaxLsn, checkpoint : 0 .. MaxLsn \cup {NoCheckpoint}]
    /\ channel \in Seq(Ops) /\ Len(channel) <= ChannelCap
    /\ lagged \in BOOLEAN
    /\ inbox \in Seq(Ops) /\ applying \in BOOLEAN
    /\ barrier \in 0 .. MaxLsn \cup {NoBarrier}
    /\ caughtUp \in BOOLEAN
    /\ cursor \in 0 .. MaxLsn
    /\ copy \subseteq Ops
    /\ drops \in 0 .. MaxDrops
    /\ windows \subseteq Windows

Raced == races # {} \/ windows # {}

\* "No entry can fall between the two": what the standby holds is exactly the
\* operations logged up to its cursor, whatever is lost, repeated, late or
\* refused by the applicator.  Of commits that stage their entries these are the
\* committed row writes; of statements that log apart from the row they are the
\* ones with an entry, which the primary may be without, and an INSERT whose
\* append failed is not among them.
CopyIsPrefix ==
    /\ copy = {op \in logged : op.lsn <= cursor}
    /\ copy \ apart = {op \in rows \ apart : op.lsn <= cursor}

\* The same, the four races aside.
CopyIsPrefixUnlessRaced == Raced \/ CopyIsPrefix

\* A standby that reports CaughtUp holds every operation that was logged below
\* the watermark when its handshake was planned: the barrier it waited for
\* covers the whole plan.
CaughtUpIsComplete ==
    link = "streaming" /\ caughtUp /\ ~Raced =>
      \A op \in logged : op.lsn <= plan.latest => op \in copy

\* Replication converges: in the end the standby holds every logged operation,
\* or it has been told to resync, or it has stopped on an entry it could not
\* apply; it never stays up and behind.
Converges ==
    <>[](copy = logged \/ link \in {"refused", "failed"} \/ Raced)
=============================================================================
