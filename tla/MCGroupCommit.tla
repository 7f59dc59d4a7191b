--------------------------- MODULE MCGroupCommit ---------------------------
(* Three committers of GroupCommit, interchangeable.                        *)
EXTENDS GroupCommit, TLC

CONSTANTS p1, p2, p3

MCCommitters == {p1, p2, p3}
=============================================================================
