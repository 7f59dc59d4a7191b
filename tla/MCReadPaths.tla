----------------------------- MODULE MCReadPaths -----------------------------
\* Instances of ReadPaths for TLC.
EXTENDS ReadPaths, TLC

OneRow == {1}

\* Writers are interchangeable, and only invariants are checked.
WriterSymmetry == Permutations(Writers)
=============================================================================
