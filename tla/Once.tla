------------------------------- MODULE Once --------------------------------
(***************************************************************************)
(* once_flag and call_once (libcfa/src/concurrency/once.hfa) over the      *)
(* poison_list of libcfa/src/collections/lockfree.hfa, as built without    *)
(* verify: the stores, exchanges and loads of every call are steps.  A     *)
(* thread calls any flag, one after the other; its one link field          *)
(* (user_link.next, invoke.h:261) serves all the lists it is pushed on.    *)
(***************************************************************************)
EXTENDS Naturals, FiniteSets

CONSTANTS
  Threads, Flags,
  MaxCalls,        \* bound: how many calls a thread makes
  Null,            \* 0p
  Poison           \* 1p: a poisoned head, or a link that is being written

VARIABLES
  state,      \* once_flag.state
  head,       \* once_flag.waiters.head
  next,       \* thread -> its link
  expected,   \* local of push: the head last read
  sleeper,    \* local of once_call$: the thread to wake
  following,  \* local of once_call$: the one after it
  unparked,   \* thread -> unparks its park has not used yet
  flag,       \* thread -> the flag it calls
  pc,
  count,      \* thread -> calls it made
  ended       \* the flags whose function has ended (history)

vars == <<state, head, next, expected, sleeper, following, unparked, flag,
          pc, count, ended>>

ASSUME OnceAssumption ==
  /\ MaxCalls \in Nat
  /\ Null \notin Threads \cup Flags /\ Poison \notin Threads \cup {Null}

Init ==
  /\ state = [f \in Flags |-> "ARMED"]
  /\ head = [f \in Flags |-> Null]
  /\ next = [t \in Threads |-> Null]
  /\ expected = [t \in Threads |-> Null]
  /\ sleeper = [t \in Threads |-> Null]
  /\ following = [t \in Threads |-> Null]
  /\ unparked = [t \in Threads |-> 0]
  /\ flag = [t \in Threads |-> Null]
  /\ pc = [t \in Threads |-> "out"]
  /\ count = [t \in Threads |-> 0]
  /\ ended = {}

Goto(t, from, to) == pc[t] = from /\ pc' = [pc EXCEPT ![t] = to]

Call(t, f) ==
  /\ Goto(t, "out", "test")
  /\ count[t] < MaxCalls
  /\ count' = [count EXCEPT ![t] = @ + 1]
  /\ flag' = [flag EXCEPT ![t] = f]
  /\ UNCHANGED <<state, head, next, expected, sleeper, following, unparked, ended>>

\* The test on the fast path.
TestReady(t) ==
  /\ Goto(t, "test", IF state[flag[t]] = "READY" THEN "out" ELSE "claim")
  /\ UNCHANGED <<state, head, next, expected, sleeper, following, unparked,
                 flag, count, ended>>

\* Whoever exchanges ARMED for IN_PROGRESS runs the function.
Claim(t) ==
  /\ Goto(t, "claim", IF state[flag[t]] = "ARMED" THEN "run" ELSE "mark")
  /\ state' = [state EXCEPT ![flag[t]] = IF @ = "ARMED" THEN "IN_PROGRESS" ELSE @]
  /\ UNCHANGED <<head, next, expected, sleeper, following, unparked, flag,
                 count, ended>>

\* func()
Run(t) ==
  /\ Goto(t, "run", "store")
  /\ ended' = ended \cup {flag[t]}
  /\ UNCHANGED <<state, head, next, expected, sleeper, following, unparked,
                 flag, count>>

\* The store after the function writes IN_PROGRESS, not READY.
StoreDone(t) ==
  /\ Goto(t, "store", "poison")
  /\ state' = [state EXCEPT ![flag[t]] = "IN_PROGRESS"]
  /\ UNCHANGED <<head, next, expected, sleeper, following, unparked, flag,
                 count, ended>>

\* Leaving the loop of once_call$, or entering its body.
WakeOrLeave(t, s) ==
  /\ sleeper' = [sleeper EXCEPT ![t] = s]
  /\ pc' = [pc EXCEPT ![t] = IF s = Null THEN "out" ELSE "advance"]

PoisonList(t) ==
  /\ pc[t] = "poison"
  /\ head' = [head EXCEPT ![flag[t]] = Poison]
  /\ WakeOrLeave(t, head[flag[t]])
  /\ UNCHANGED <<state, next, expected, following, unparked, flag, count, ended>>

\* Mutant: advance takes a link that is being written for the end.
AdvanceEarly(t) ==
  /\ Goto(t, "advance", "wake")
  /\ following' = [following EXCEPT ![t] = IF next[sleeper[t]] = Poison THEN Null
                                          ELSE next[sleeper[t]]]
  /\ UNCHANGED <<state, head, next, expected, sleeper, unparked, flag, count, ended>>

\* advance spins while the sleeper's link is being written.
Advance(t) ==
  /\ Goto(t, "advance", "wake")
  /\ next[sleeper[t]] # Poison
  /\ following' = [following EXCEPT ![t] = next[sleeper[t]]]
  /\ UNCHANGED <<state, head, next, expected, sleeper, unparked, flag, count, ended>>

Wake(t) ==
  /\ pc[t] = "wake"
  /\ unparked' = [unparked EXCEPT ![sleeper[t]] = @ + 1]
  /\ WakeOrLeave(t, following[t])
  /\ UNCHANGED <<state, head, next, expected, following, flag, count, ended>>

\* push first marks the link as not written yet.
Mark(t) ==
  /\ Goto(t, "mark", "read")
  /\ next' = [next EXCEPT ![t] = Poison]
  /\ UNCHANGED <<state, head, expected, sleeper, following, unparked, flag,
                 count, ended>>

ReadHead(t) ==
  /\ Goto(t, "read", "push")
  /\ expected' = [expected EXCEPT ![t] = head[flag[t]]]
  /\ UNCHANGED <<state, head, next, sleeper, following, unparked, flag, count, ended>>

\* A poisoned list refuses the thread: its call is over.
Refused(t) ==
  /\ expected[t] = Poison
  /\ Goto(t, "push", "out")
  /\ UNCHANGED <<state, head, next, expected, sleeper, following, unparked,
                 flag, count, ended>>

\* The compare-and-swap: it installs the thread or reads the head anew.
Push(t) ==
  /\ pc[t] = "push" /\ expected[t] # Poison
  /\ IF head[flag[t]] = expected[t]
     THEN /\ Goto(t, "push", "link")
          /\ head' = [head EXCEPT ![flag[t]] = t]
          /\ UNCHANGED expected
     ELSE /\ Goto(t, "push", "push")
          /\ expected' = [expected EXCEPT ![t] = head[flag[t]]]
          /\ UNCHANGED head
  /\ UNCHANGED <<state, next, sleeper, following, unparked, flag, count, ended>>

Link(t) ==
  /\ Goto(t, "link", "park")
  /\ next' = [next EXCEPT ![t] = expected[t]]
  /\ UNCHANGED <<state, head, expected, sleeper, following, unparked, flag,
                 count, ended>>

Park(t) ==
  /\ Goto(t, "park", "out")
  /\ unparked[t] > 0
  /\ unparked' = [unparked EXCEPT ![t] = @ - 1]
  /\ UNCHANGED <<state, head, next, expected, sleeper, following, flag, count, ended>>

Step(t) ==
  \/ TestReady(t) \/ Claim(t)
  \/ Run(t) \/ StoreDone(t) \/ PoisonList(t) \/ Advance(t) \/ Wake(t)
  \/ Mark(t) \/ ReadHead(t) \/ Refused(t) \/ Push(t) \/ Link(t) \/ Park(t)

Next == \E t \in Threads : Step(t) \/ \E f \in Flags : Call(t, f)

Spec == Init /\ [][Next]_vars

\* Every thread in a call keeps being scheduled.
Fairness == \A t \in Threads : WF_vars(Step(t))

FairSpec == Spec /\ Fairness

-----------------------------------------------------------------------------
Runner(f) == {t \in Threads : pc[t] = "run" /\ flag[t] = f}

Calls == INSTANCE OnceCalls WITH
  None <- Null,
  calling <- [t \in Threads |-> IF pc[t] = "out" THEN Null ELSE flag[t]],
  runs <- [f \in Flags |-> IF Runner(f) = {} THEN Null
                           ELSE CHOOSE t \in Runner(f) : TRUE],
  done <- ended

\* call_once as a whole (once.hfa:74-105): the function of a flag is run by
\* one caller, no call returns before it has ended, and every call returns
\* once it has: no pushed thread is forgotten by the one that poisons the
\* list, none returns through a park that another list's waker ended.
FairlyImplementsOnceCalls == Calls!FairSpec
=============================================================================
