------------------------ MODULE MCLogicalReplication ------------------------
(* Instances of LogicalReplication: one or two committers and one standby.  *)
EXTENDS LogicalReplication

CONSTANTS w1, w2

OneWriter == {w1}
TwoWriters == {w1, w2}
=============================================================================
