-------------------------- MODULE SnapshotBarrier --------------------------
(***************************************************************************)
(* What the in-flight ledger of storage/conflict.rs promises: a snapshot   *)
(* is never taken while a commit at or below its timestamp is announced    *)
(* but not yet applied.  The ring of atomics (module CommitRing) is shown  *)
(* to implement this specification; module Mvcc builds on it.              *)
(***************************************************************************)
EXTENDS Integers

CONSTANTS Committers, Readers

VARIABLES
    clock,     \* the engine's timestamp counter
    inflight,  \* committer -> timestamp of its unapplied commit, or 0
    waiting    \* reader -> snapshot timestamp it waits with, or 0

vars == <<clock, inflight, waiting>>

Init ==
    /\ clock = 0
    /\ inflight = [c \in Committers |-> 0]
    /\ waiting = [r \in Readers |-> 0]

\* next_commit_timestamp: allocate and announce in one step.
Announce(c) ==
    /\ inflight[c] = 0
    /\ clock' = clock + 1
    /\ inflight' = [inflight EXCEPT ![c] = clock + 1]
    /\ UNCHANGED waiting

\* end_commit: the commit is applied or abandoned.
Finish(c) ==
    /\ inflight[c] # 0
    /\ inflight' = [inflight EXCEPT ![c] = 0]
    /\ UNCHANGED <<clock, waiting>>

\* A transaction takes a fresh timestamp (next_timestamp) or the current one
\* (current_timestamp, the per-statement refresh of ReadCommitted).
Snapshot(r) ==
    /\ waiting[r] = 0
    /\ clock' \in {clock, clock + 1}
    /\ clock' > 0
    /\ waiting' = [waiting EXCEPT ![r] = clock']
    /\ UNCHANGED inflight

\* snapshot_barrier returns.
Pass(r) ==
    /\ waiting[r] # 0
    /\ \A c \in Committers : inflight[c] = 0 \/ inflight[c] > waiting[r]
    /\ waiting' = [waiting EXCEPT ![r] = 0]
    /\ UNCHANGED <<clock, inflight>>

Next ==
    \/ \E c \in Committers : Announce(c) \/ Finish(c)
    \/ \E r \in Readers : Snapshot(r) \/ Pass(r)

Spec == Init /\ [][Next]_vars
=============================================================================
