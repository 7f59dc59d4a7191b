------------------------------- MODULE MCWal --------------------------------
(* Instances of Wal: two committers, batches of up to two entries.          *)
EXTENDS Wal

CONSTANTS w1, w2

TwoWriters == {w1, w2}
=============================================================================
