----------------------------- MODULE MCVersionGc -----------------------------
\* Instances of VersionGc for TLC.
EXTENDS VersionGc

OneHolder == {"h1"}
OneWriter == {"w1"}
OneBranch == {"b1"}
=============================================================================
