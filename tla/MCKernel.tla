------------------------------ MODULE MCKernel ------------------------------
(* Instances of Kernel for TLC: processors, threads and outside wakers are *)
(* model values.                                                           *)
EXTENDS Kernel, TLC

CONSTANTS p1, p2, t1, t2, x1

\* A bound: once the destructor of a processor has begun, only the main
\* thread is switched out by a yield.
YieldBound ==
  (\E p \in Procs : DoTerminate(p)) => \A t \in Threads : preempted[t] => t = MainThread

=============================================================================
