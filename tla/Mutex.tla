------------------------------- MODULE Mutex -------------------------------
(***************************************************************************)
(* What every lock of the library promises, however its threads wait: one  *)
(* thread at a time is between lock and unlock, and while no one is and    *)
(* some try, one of them gets in.                                          *)
(***************************************************************************)
CONSTANTS Threads

VARIABLES phase   \* thread -> "out", "trying" or "in"

Init == phase = [t \in Threads |-> "out"]

Try(t) == phase[t] = "out" /\ phase' = [phase EXCEPT ![t] = "trying"]

Acquire(t) ==
  /\ phase[t] = "trying" /\ \A u \in Threads : phase[u] # "in"
  /\ phase' = [phase EXCEPT ![t] = "in"]

Release(t) == phase[t] = "in" /\ phase' = [phase EXCEPT ![t] = "out"]

Next == \E t \in Threads : Try(t) \/ Acquire(t) \/ Release(t)

Spec == Init /\ [][Next]_phase

FairSpec == Spec /\ WF_phase(\E t \in Threads : Acquire(t))
=============================================================================
