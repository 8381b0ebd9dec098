----------------------------- MODULE OnceCalls -----------------------------
(***************************************************************************)
(* What a once_flag promises: the function of a flag is run by one of the  *)
(* threads that call it, once; a call returns only after the function has  *)
(* ended, and when it has, every call returns.                             *)
(***************************************************************************)
CONSTANTS Threads, Flags, None

VARIABLES
  calling,   \* thread -> the flag it calls, or None
  runs,      \* flag -> the thread that runs its function, or None
  done       \* the flags whose function has ended

calls == <<calling, runs, done>>

Init ==
  /\ calling = [t \in Threads |-> None]
  /\ runs = [f \in Flags |-> None]
  /\ done = {}

Call(t, f) ==
  /\ calling[t] = None
  /\ calling' = [calling EXCEPT ![t] = f]
  /\ UNCHANGED <<runs, done>>

Start(t, f) ==
  /\ calling[t] = f /\ runs[f] = None /\ f \notin done
  /\ runs' = [runs EXCEPT ![f] = t]
  /\ UNCHANGED <<calling, done>>

End(t, f) ==
  /\ runs[f] = t
  /\ runs' = [runs EXCEPT ![f] = None]
  /\ done' = done \cup {f}
  /\ UNCHANGED calling

Return(t) ==
  /\ calling[t] \in done
  /\ calling' = [calling EXCEPT ![t] = None]
  /\ UNCHANGED <<runs, done>>

Progress(t) == Return(t) \/ \E f \in Flags : Start(t, f) \/ End(t, f)

Next == \E t \in Threads : Progress(t) \/ \E f \in Flags : Call(t, f)

Spec == Init /\ [][Next]_calls

FairSpec == Spec /\ \A t \in Threads : WF_calls(Progress(t))
=============================================================================
