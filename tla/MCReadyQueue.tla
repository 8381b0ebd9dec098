---------------------------- MODULE MCReadyQueue ----------------------------
(* Instances of ReadyQueue for TLC: processors and threads are model values. *)
EXTENDS ReadyQueue, TLC

Symmetry == Permutations(Procs) \cup Permutations(Threads)
=============================================================================
