-------------------------- MODULE MCOnceAndFutures --------------------------
(* Instances of Once and Futures for TLC.  The two share nothing: a step of *)
(* one is taken while the other is as it starts, so that the states are     *)
(* those of one and those of the other, not all pairs.                      *)
EXTENDS Once, Futures, TLC

CONSTANTS t1, t2, t3, f1, f2

NoCallYet == \A t \in Threads : count[t] = 0

EitherInit == Init /\ FutureInit

EitherNext ==
  \/ FutureInit /\ Next /\ UNCHANGED futureVars
  \/ NoCallYet /\ FutureNext /\ UNCHANGED vars

EitherSpec == EitherInit /\ [][EitherNext]_<<vars, futureVars>>

\* What is idle has no step that it is bound to take.
FairEitherSpec == EitherSpec /\ Fairness /\ FutureFairness
=============================================================================
