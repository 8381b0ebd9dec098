---------------------------- MODULE MCSmallLocks ----------------------------
(* Instances of SmallLocks for TLC. *)
EXTENDS SmallLocks, TLC

CONSTANTS t1, t2, t3, t4
=============================================================================
