----------------------------- MODULE ParkUnpark -----------------------------
(***************************************************************************)
(* What park and unpark promise to the locks, monitors and futures built   *)
(* on them, whatever the scheduler does underneath: unpark gives a thread  *)
(* one permit, park waits until there is one and uses it.  An unpark that  *)
(* comes before its park is not lost, and a permit is used only once.      *)
(***************************************************************************)
CONSTANTS Threads

VARIABLES
  mode,     \* thread -> "going", "parked" or "gone"
  permit    \* thread -> whether it was unparked and has not used it

TypeOK ==
  /\ mode \in [Threads -> {"going", "parked", "gone"}]
  /\ permit \in [Threads -> BOOLEAN]

Init ==
  /\ mode = [t \in Threads |-> "going"]
  /\ permit = [t \in Threads |-> FALSE]

Unpark(t) ==
  /\ mode[t] # "gone" /\ ~permit[t]
  /\ permit' = [permit EXCEPT ![t] = TRUE]
  /\ UNCHANGED mode

Park(t) ==
  /\ mode[t] = "going"
  /\ mode' = [mode EXCEPT ![t] = "parked"]
  /\ UNCHANGED permit

\* park() returns.
Return(t) ==
  /\ mode[t] = "parked" /\ permit[t]
  /\ mode' = [mode EXCEPT ![t] = "going"]
  /\ permit' = [permit EXCEPT ![t] = FALSE]

Leave(t) ==
  /\ mode[t] = "going" /\ ~permit[t]
  /\ mode' = [mode EXCEPT ![t] = "gone"]
  /\ UNCHANGED permit

Next == \E t \in Threads : Unpark(t) \/ Park(t) \/ Return(t) \/ Leave(t)

Spec == Init /\ [][Next]_<<mode, permit>>

FairSpec == Spec /\ \A t \in Threads : WF_<<mode, permit>>(Return(t))
=============================================================================
