------------------------------- MODULE MCMvcc -------------------------------
(* Instances of Mvcc and the workloads its runs ask about.                  *)
EXTENDS Mvcc

CONSTANTS t1, t2, t3, k1, k2

TwoTxns == {t1, t2}
ThreeTxns == {t1, t2, t3}
OneKey == {k1}
TwoKeys == {k1, k2}

\* Rows of three transactions: each pair with t1 shares one, so that t1 can
\* win one key, lose the other and undo while a third transaction commits.
Overlapping == [t \in Txns |-> IF t = t1 THEN Keys
                               ELSE IF t = t2 THEN {k1} ELSE {k2}]

\* Everybody validates, with and without row locks, DELETEs included; or only
\* sessions run, whose UPDATEs are covered by row locks.
SafeWorkloads ==
    {[kind |-> [t \in Txns |-> IF t = t2 THEN "repeat" ELSE "embedded"],
      rows |-> Overlapping, delete |-> TRUE],
     [kind |-> [t \in Txns |-> IF t = t3 THEN "read" ELSE "repeat"],
      rows |-> Overlapping, delete |-> FALSE]}

\* Everyone writes every row: t1 of one kind, the others of another.
Contending(first, others, del) ==
    {[kind |-> [t \in Txns |-> IF t = t1 THEN first ELSE others],
      rows |-> [t \in Txns |-> Keys], delete |-> del]}

\* One RepeatableRead transaction and one autocommit statement.
AutocommitWorkloads == Contending("repeat", "auto", FALSE)

\* A RepeatableRead session and a ReadCommitted session that DELETE rows.
DeleteWorkloads == Contending("repeat", "read", TRUE)

\* Validating transactions only.
ValidatingWorkloads == Contending("embedded", "embedded", FALSE)

\* Validating transactions, the third on a row of its own.
PruneWorkloads ==
    {[kind |-> [t \in Txns |-> "embedded"],
      rows |-> [t \in Txns |-> IF t = t3 THEN {k2} ELSE {k1}], delete |-> FALSE]}
=============================================================================
