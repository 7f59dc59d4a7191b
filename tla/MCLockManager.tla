---------------------------- MODULE MCLockManager ----------------------------
(* Instances of LockManager. *)
EXTENDS LockManager, TLC

CONSTANTS t1, t2, t3, a, b

R(k) == [key |-> k, mode |-> "Read"]
W(k) == [key |-> k, mode |-> "Write"]

(* Two writers that may meet in a cycle or share a row before upgrading,   *)
(* and a third that competes for one row.                                  *)
Mixed == (t1 :> {R(a), W(b)}) @@ (t2 :> {R(a), W(a), W(b)}) @@ (t3 :> {W(a)})
==============================================================================
