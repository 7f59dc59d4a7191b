---------------------------- MODULE MCCommitRing ----------------------------
(* Two committers and a reader over a ring that wraps around.               *)
EXTENDS CommitRing

CONSTANTS c1, c2, r1

MCCommitters == {c1, c2}
MCReaders == {r1}
=============================================================================
