------------------------------- MODULE Monitor -------------------------------
(***************************************************************************)
(* Monitors with internal and external scheduling: concurrency/monitor.cfa.*)
(*                                                                         *)
(* A thread calls mutex routines on groups of monitors, which it enters    *)
(* one after the other.  Who leaves or waits passes a monitor on: to the   *)
(* top of its signal stack, where signalled threads, signallers and        *)
(* accepting threads are, or else to the head of its entry queue.  A       *)
(* thread that waits with several monitors runs when it has been passed    *)
(* all of them: it has a criterion for each.  waitfor accepts one routine, *)
(* signal_block and waitfor hand all monitors over to a thread at once.    *)
(*                                                                         *)
(* What is done under the spin locks of the monitors, which are taken in   *)
(* the order of their addresses, is one step, with the unpark after it:    *)
(* park and unpark are those of module ParkUnpark.  waitfor accepts only   *)
(* routines on the caller's own group, in any order of preference.  Left   *)
(* out: destructors and join, waitfor that does not block, user_info.      *)
(***************************************************************************)
EXTENDS Integers, SequencesExt, FiniteSetsExt

CONSTANTS
  Threads, Conditions,
  Monitors,    \* numbers, in the order of their addresses
  Routines,    \* what clients call: a function and its group of monitors
  None,
  MaxDepth     \* bound: how deep the calls of a thread nest

Groups == {r.group : r \in Routines}

ASSUME MonitorAssumption ==
  /\ Monitors \subseteq Nat
  /\ \A g \in Groups : g \subseteq Monitors /\ g # {} /\ IsFiniteSet(g)
  /\ None \notin Threads
  /\ MaxDepth \in Nat \ {0}

VARIABLES
  owner, recursion,
  entry_queue,     \* monitor -> the threads that wait to enter
  signal_stack,    \* monitor -> the threads that have a criterion on its stack
  mask,            \* monitor -> the routines that are accepted
  cond_monitors,   \* condition -> its monitors, {} before the first wait
  blocked,         \* condition -> the threads that wait on it
  calls,           \* thread -> its routines, the innermost last
  pc,              \* thread -> where it stands in the runtime
  todo,            \* thread -> monitors of the innermost call to enter or leave
  node,            \* thread -> the monitors it has a criterion for
  ready,           \* thread -> those whose criterion is ready
  saved,           \* thread -> recursion and masks it will restore
  permit           \* thread -> whether it was unparked and has not parked since

monVars == <<owner, recursion, entry_queue, signal_stack, mask>>
condVars == <<cond_monitors, blocked>>
nodeVars == <<node, ready, saved>>
vars == <<monVars, condVars, calls, pc, todo, nodeVars, permit>>

NothingSaved == [m \in Monitors |-> [recursion |-> 0, mask |-> {}]]

Init ==
  /\ owner = [m \in Monitors |-> None] /\ recursion = [m \in Monitors |-> 0]
  /\ entry_queue = [m \in Monitors |-> <<>>] /\ signal_stack = [m \in Monitors |-> <<>>]
  /\ mask = [m \in Monitors |-> {}]
  /\ cond_monitors = [c \in Conditions |-> {}] /\ blocked = [c \in Conditions |-> <<>>]
  /\ calls = [t \in Threads |-> <<>>]
  /\ pc = [t \in Threads |-> "run"] /\ todo = [t \in Threads |-> {}]
  /\ node = [t \in Threads |-> {}] /\ ready = [t \in Threads |-> {}]
  /\ saved = [t \in Threads |-> NothingSaved]
  /\ permit = [t \in Threads |-> FALSE]

Set(w, i, v) == w' = [w EXCEPT ![i] = v]

\* The routine that a thread called last.
Innermost(t) == Last(calls[t])
Group(t) == Innermost(t).group

\* w is changed at every monitor of the group.
At(w, ms, f(_)) == w' = [m \in Monitors |-> IF m \in ms THEN f(m) ELSE w[m]]

-----------------------------------------------------------------------------
(* Entering.                                                               *)

Call(t, r) ==
  /\ pc[t] = "run" /\ Len(calls[t]) < MaxDepth
  /\ Set(calls, t, Append(calls[t], r))
  /\ Set(pc, t, "enter") /\ Set(todo, t, r.group)
  /\ UNCHANGED <<monVars, condVars, nodeVars, permit>>

\* Mutant: the functions are not compared, only the monitors.
IsAcceptedAny(m, r) ==
  /\ mask[m] # {}
  /\ m = Min(r.group) => \E a \in mask[m] : a.group = r.group

\* is_accepted: the first monitor of the group decides.  The test for the
\* others compares a pointer with 0 and always holds.
IsAccepted(m, r) ==
  /\ mask[m] # {}
  /\ m = Min(r.group) => r \in mask[m]

Entered(t) ==
  /\ Set(todo, t, todo[t] \ {Min(todo[t])})
  /\ Set(pc, t, IF todo'[t] = {} THEN "run" ELSE "enter")

Enter(t) ==
  /\ pc[t] = "enter"
  /\ LET m == Min(todo[t])
     IN  \/ /\ owner[m] = None \/ (owner[m] # t /\ IsAccepted(m, Innermost(t)))
            /\ Set(owner, m, t) /\ Set(recursion, m, 1)
            /\ IF owner[m] = None THEN UNCHANGED mask ELSE Set(mask, m, {})
            /\ UNCHANGED entry_queue
            /\ Entered(t)
         \/ /\ owner[m] = t
            /\ Set(recursion, m, recursion[m] + 1)
            /\ UNCHANGED <<owner, entry_queue, mask>>
            /\ Entered(t)
         \/ /\ owner[m] \notin {None, t} /\ ~IsAccepted(m, Innermost(t))
            /\ Set(entry_queue, m, Append(entry_queue[m], t))
            /\ Set(pc, t, "blocked")
            /\ UNCHANGED <<owner, recursion, mask, todo>>
  /\ UNCHANGED <<signal_stack, condVars, calls, nodeVars, permit>>

\* The thread was given the monitor that it waited for.
EnterReturns(t) ==
  /\ pc[t] = "blocked" /\ permit[t]
  /\ Set(permit, t, FALSE)
  /\ Entered(t)
  /\ UNCHANGED <<monVars, condVars, calls, nodeVars>>

-----------------------------------------------------------------------------
(* Passing monitors on.                                                    *)

\* Mutant: the entry queue is not looked at.
PassOnUrgent(ms, readied) ==
  LET urgent == {m \in ms : signal_stack[m] # <<>>}
      next(m) == IF m \in urgent THEN Head(signal_stack[m]) ELSE None
      held(m) == IF next(m) = None THEN 0 ELSE 1
      criteria(u) == {m \in urgent : next(m) = u}
  IN  /\ At(owner, ms, next) /\ At(recursion, ms, held)
      /\ At(signal_stack, urgent, LAMBDA m : Tail(signal_stack[m]))
      /\ UNCHANGED entry_queue
      /\ ready' = [u \in Threads |-> readied[u] \cup criteria(u)]
      /\ permit' = [u \in Threads |-> permit[u] \/ (criteria(u) # {} /\ ready'[u] = node[u])]

\* next_thread, for every monitor of ms; readied are the criteria before it.
PassOn(ms, readied) ==
  LET urgent == {m \in ms : signal_stack[m] # <<>>}
      queued == {m \in ms \ urgent : entry_queue[m] # <<>>}
      next(m) == IF m \in urgent THEN Head(signal_stack[m])
                 ELSE IF m \in queued THEN Head(entry_queue[m]) ELSE None
      held(m) == IF next(m) = None THEN 0 ELSE 1
      criteria(u) == {m \in urgent : next(m) = u}
  IN  /\ At(owner, ms, next) /\ At(recursion, ms, held)
      /\ At(signal_stack, urgent, LAMBDA m : Tail(signal_stack[m]))
      /\ At(entry_queue, queued, LAMBDA m : Tail(entry_queue[m]))
      /\ ready' = [u \in Threads |-> readied[u] \cup criteria(u)]
      /\ permit' = [u \in Threads |->
           \/ permit[u]
           \/ criteria(u) # {} /\ ready'[u] = node[u]
           \/ \E m \in queued : next(m) = u]

StartLeave(t) ==
  /\ pc[t] = "run" /\ calls[t] # <<>>
  /\ Set(pc, t, "leave") /\ Set(todo, t, Group(t))
  /\ UNCHANGED <<monVars, condVars, calls, nodeVars, permit>>

\* __leave, the last monitor first.
Leave(t) ==
  /\ pc[t] = "leave"
  /\ LET m == Max(todo[t])
     IN  /\ IF recursion[m] # 1
            THEN Set(recursion, m, recursion[m] - 1) /\ UNCHANGED <<owner, entry_queue, signal_stack, ready, permit>>
            ELSE PassOn({m}, ready)
         /\ Set(todo, t, todo[t] \ {m})
  /\ IF todo'[t] = {} THEN Set(pc, t, "run") /\ Set(calls, t, Front(calls[t]))
                      ELSE UNCHANGED <<pc, calls>>
  /\ UNCHANGED <<mask, condVars, node, saved>>

-----------------------------------------------------------------------------
(* Internal and external scheduling.                                       *)

\* The context of a thread that will wait with the monitors of its group.
Save(t) ==
  /\ Set(pc, t, "waiting")
  /\ Set(node, t, Group(t))
  /\ Set(saved, t, [m \in Monitors |->
       IF m \in Group(t) THEN [recursion |-> recursion[m], mask |-> mask[m]] ELSE saved[t][m]])

\* A thread's criteria are pushed on the stacks of ms.
Push(ms, t) == At(signal_stack, ms, LAMBDA m : <<t>> \o signal_stack[m])

\* Mutant: the next owner counts from 1 at every monitor.
HandOverOnes(t, u) ==
  /\ Save(t) /\ Push(Group(t), t) /\ Set(ready, t, {})
  /\ At(owner, Group(t), LAMBDA m : u)
  /\ At(recursion, Group(t), LAMBDA m : 1)
  /\ Set(permit, u, TRUE)

\* Thread t hands its group over to thread u, which will restore or count up
\* the recursion of all monitors but the first; t gets it back from u.
HandOver(t, u) ==
  /\ Save(t) /\ Push(Group(t), t) /\ Set(ready, t, {})
  /\ At(owner, Group(t), LAMBDA m : u)
  /\ At(recursion, Group(t), LAMBDA m : IF m = Min(Group(t)) THEN 1 ELSE 0)
  /\ Set(permit, u, TRUE)

MayUse(t, c) == pc[t] = "run" /\ calls[t] # <<>> /\ cond_monitors[c] \in {{}, Group(t)}

Wait(t, c) ==
  /\ MayUse(t, c)
  /\ Set(cond_monitors, c, Group(t))
  /\ Set(blocked, c, Append(blocked[c], t))
  /\ Save(t)
  /\ PassOn(Group(t), [ready EXCEPT ![t] = {}])
  /\ UNCHANGED <<mask, calls, todo>>

\* Mutant: the signalled thread stays in the queue of the condition.
SignalKeeps(t, c) ==
  /\ MayUse(t, c) /\ blocked[c] # <<>>
  /\ Push(Group(t), Head(blocked[c]))
  /\ UNCHANGED <<owner, recursion, entry_queue, mask, condVars, calls, pc, todo, nodeVars, permit>>

\* The signalled thread gets the monitors when they are passed on.
Signal(t, c) ==
  /\ MayUse(t, c) /\ blocked[c] # <<>>
  /\ Push(Group(t), Head(blocked[c]))
  /\ Set(blocked, c, Tail(blocked[c]))
  /\ UNCHANGED <<owner, recursion, entry_queue, mask, cond_monitors, calls, pc, todo, nodeVars, permit>>

\* The clients make sure that somebody waits: the test of signal_block for
\* null never fails, as the head of an empty queue is 1.
SignalBlock(t, c) ==
  /\ MayUse(t, c) /\ blocked[c] # <<>>
  /\ HandOver(t, Head(blocked[c]))
  /\ Set(blocked, c, Tail(blocked[c]))
  /\ UNCHANGED <<entry_queue, mask, cond_monitors, calls, todo>>

\* search_entry_queue, for routine r: where its callers are in the queue of
\* the first monitor.
Callers(r) ==
  LET q == entry_queue[Min(r.group)]
  IN  {i \in DOMAIN q : Innermost(q[i]) = r}

MayAccept(t, accepted) ==
  /\ pc[t] = "run" /\ calls[t] # <<>>
  /\ accepted # {} /\ \A r \in accepted : r.group = Group(t)

\* waitfor, a caller being there already.
WaitforPresent(t, accepted) ==
  /\ MayAccept(t, accepted)
  /\ \E r \in accepted :
       LET m == Min(r.group)
           i == Min(Callers(r))
       IN  /\ Callers(r) # {}
           /\ HandOver(t, entry_queue[m][i])
           /\ Set(entry_queue, m, RemoveAt(entry_queue[m], i))
  /\ UNCHANGED <<mask, condVars, calls, todo>>

\* waitfor blocks, as the owner still, until somebody is accepted.
WaitforBlocks(t, accepted) ==
  /\ MayAccept(t, accepted)
  /\ \A r \in accepted : Callers(r) = {}
  /\ Save(t) /\ Push(Group(t), t) /\ Set(ready, t, {})
  /\ At(mask, Group(t), LAMBDA m : accepted)
  /\ UNCHANGED <<owner, recursion, entry_queue, condVars, calls, todo, permit>>

\* The thread has all monitors again: restore.
Resume(t) ==
  /\ pc[t] = "waiting" /\ permit[t]
  /\ Set(permit, t, FALSE) /\ Set(pc, t, "run")
  /\ At(recursion, node[t], LAMBDA m : saved[t][m].recursion)
  /\ At(mask, node[t], LAMBDA m : saved[t][m].mask)
  /\ Set(node, t, {}) /\ Set(ready, t, {}) /\ Set(saved, t, NothingSaved)
  /\ UNCHANGED <<owner, entry_queue, signal_stack, condVars, calls, todo>>

-----------------------------------------------------------------------------
Next ==
  \E t \in Threads :
    \/ \E r \in Routines : Call(t, r)
    \/ Enter(t) \/ EnterReturns(t) \/ StartLeave(t) \/ Leave(t)
    \/ \E c \in Conditions : Wait(t, c) \/ Signal(t, c) \/ SignalBlock(t, c)
    \/ \E accepted \in SUBSET Routines : WaitforPresent(t, accepted) \/ WaitforBlocks(t, accepted)
    \/ Resume(t)

Spec == Init /\ [][Next]_vars

-----------------------------------------------------------------------------
\* How many calls of t count m: those that it is in, less the entering or
\* leaving of the innermost one.
Entries(t, m) ==
  Cardinality({i \in DOMAIN calls[t] :
    /\ m \in calls[t][i].group
    /\ i = Len(calls[t]) =>
         CASE pc[t] \in {"enter", "blocked"} -> m \notin todo[t]
           [] pc[t] = "leave" -> m \in todo[t]
           [] OTHER -> TRUE})

(* Mutual exclusion: a thread that has entered a monitor and not left it   *)
(* or waited with it is its owner, whatever group it entered it with, and  *)
(* the recursion count is the number of its calls, so that only the last   *)
(* leave passes the monitor on (monitor.cfa:264), through all the          *)
(* hand-overs that set the counts to 1 and 0 (:749-760).                   *)
HoldersOwn ==
  \A t \in Threads, m \in Monitors :
    Entries(t, m) > 0 /\ m \notin node[t] =>
      owner[m] = t /\ recursion[m] = Entries(t, m)

Count(q, t) == Cardinality({i \in DOMAIN q : q[i] = t})

\* Where t is in the sequences w[x].
Places(w, t) == UNION {{<<x, i>> : i \in {j \in DOMAIN w[x] : w[x][j] = t}} : x \in DOMAIN w}

(* A thread that is blocked is where somebody will find it, once: in one   *)
(* entry queue, on a condition, or with one criterion for each monitor     *)
(* that it does not have yet.                                              *)
FoundOnce ==
  \A t \in Threads :
    /\ Cardinality(Places(entry_queue, t)) = IF pc[t] = "blocked" /\ ~permit[t] THEN 1 ELSE 0
    /\ pc[t] # "waiting" => Places(blocked, t) = {} /\ Places(signal_stack, t) = {}
    /\ pc[t] = "waiting" /\ ~permit[t] =>
         \/ Cardinality(Places(blocked, t)) = 1 /\ Places(signal_stack, t) = {}
         \/ Places(blocked, t) = {} /\ \A m \in Monitors :
              Count(signal_stack[m], t) = IF m \in node[t] \ ready[t] THEN 1 ELSE 0

(* A monitor that somebody waits for is in the hands of a thread that can  *)
(* go on, or that waits for another monitor, or that accepts callers.      *)
NobodyStranded ==
  \A m \in Monitors :
    /\ owner[m] = None => entry_queue[m] = <<>> /\ signal_stack[m] = <<>>
    /\ \A t \in Threads : owner[m] = t /\ pc[t] = "waiting" /\ ~permit[t] =>
         \/ m \notin node[t] \/ mask[m] # {}
         \/ m \in ready[t] /\ ready[t] # node[t]
    /\ \A t \in Threads : owner[m] = t /\ pc[t] = "blocked" /\ ~permit[t] =>
         \E n \in Monitors \ {m} : t \in ToSet(entry_queue[n])

(* Nobody is let in past a thread that accepts but the caller of what it   *)
(* accepts ("Some one was waiting for us, enter", monitor.cfa:111), as far *)
(* as the code looks: at the first monitor of the caller's group.          *)
AcceptsOnly ==
  [][\A m \in Monitors : mask[m] # {} /\ owner'[m] # owner[m] =>
       LET r == Innermost(owner'[m]) IN r \in mask[m] \/ m # Min(r.group)]_vars
=============================================================================
