---------------------------- MODULE MCSchedRWLock ----------------------------
(* Instances of SchedRWLock for TLC: kernel threads are model values.      *)
EXTENDS SchedRWLock
=============================================================================
