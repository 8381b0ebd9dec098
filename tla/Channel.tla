------------------------------- MODULE Channel -------------------------------
(***************************************************************************)
(* channel(T) of concurrency/channel.hfa and the waituntil statement over  *)
(* channels: select.hfa, select.cfa and what the compiler generates in     *)
(* src/Concurrency/Waituntil.cpp.  Threads insert and remove, with or      *)
(* without blocking, close channels, and wait until one of several clauses *)
(* (an all-or waituntil, the "special case" of the code) or all of them    *)
(* are done.  An element is <<t, k>>, what thread t inserts in its k-th    *)
(* call.                                                                   *)
(*                                                                         *)
(* A routine that holds mutex_lock from one end to the other is one step.  *)
(* What a clause of an all-or waituntil does is not, because others win or *)
(* lose its status without that lock; a thread that spins on a status that *)
(* is PENDING is a step that is not enabled.  park and unpark are those of *)
(* module ParkUnpark.                                                      *)
(***************************************************************************)
EXTENDS Integers, Sequences, SequencesExt

CONSTANTS
  Threads,
  Chans,
  Size,       \* channel -> its size, 0 for a rendezvous
  Calls,      \* thread -> the calls it may make
  MaxCalls,   \* thread -> how many of them it makes
  None        \* not a thread

(* A call has one clause on each of its channels.  how: insert and remove   *)
(* ("block"), try_insert and try_remove ("try"), close, and waituntil with *)
(* its clauses joined by or, and with a timeout or an else, or by and.     *)
Call ==
  [how : {"block", "try", "close", "or", "and"},
   clause : [Chans -> {"none", "insert", "remove"}],
   other : {"none", "timeout", "else"}]

ClausesOf(call) == {c \in Chans : call.clause[c] # "none"}

ASSUME ChannelAssumption ==
  /\ None \notin Threads
  /\ IsFiniteSet(Chans)
  /\ Chans \cap {"plain", "and", "UNSAT", "PENDING", "SAT", "timeout"} = {}
  /\ Size \in [Chans -> Nat] /\ MaxCalls \in [Threads -> Nat]
  /\ Calls \in [Threads -> SUBSET Call]
  /\ \A t \in Threads : \A call \in Calls[t] :
       /\ ClausesOf(call) # {}
       /\ call.how \notin {"or", "and"} => \E c \in Chans : ClausesOf(call) = {c}
       /\ call.how # "or" => call.other = "none"

VARIABLES
  lock,       \* channel -> the thread that holds mutex_lock between steps
  closed,     \* channel -> closed
  buffer,     \* channel -> the elements in its buffer, the oldest first
  prods,      \* channel -> the threads whose nodes are on prods
  cons,       \* channel -> the threads whose nodes are on cons
  pc,         \* thread -> where its call stands
  call,       \* thread -> its call
  number,     \* thread -> the number of its call
  todo,       \* thread -> what its waituntil has still to register
  at,         \* thread -> the channel it is busy with
  wait,       \* thread -> its waiting state, see Idle
  armed,      \* thread -> whether its timeout may expire
  ran,        \* thread -> the clauses that the call reports as done
  moved,      \* thread, channel -> elements that moved on behalf of a clause
  last,       \* channel, thread -> the last element of the thread taken out
  overtaken   \* channels where a hand-off has passed elements in the buffer

chanVars == <<lock, closed, buffer, prods, cons>>
tallies == <<moved, last, overtaken>>
vars == <<chanVars, pc, call, number, todo, at, wait, armed, ran, tallies>>

(* The words through which a blocked thread is reached: the status of an   *)
(* all-or waituntil ("plain" and "and" for other nodes), the clauses of an *)
(* and that are SAT with its park_counter, the channels that have set the  *)
(* extra of its node to null, and its permit.                              *)
Status == {"plain", "and", "UNSAT", "PENDING", "SAT", "timeout"} \cup Chans
Idle == [status |-> "plain", sat |-> {}, park_counter |-> 0, shut |-> {}, permit |-> FALSE]

NoCall == [how |-> "none", clause |-> [c \in Chans |-> "none"], other |-> "none"]

Init ==
  /\ lock = [c \in Chans |-> None]
  /\ closed = [c \in Chans |-> FALSE]
  /\ buffer = [c \in Chans |-> <<>>]
  /\ prods = [c \in Chans |-> <<>>]
  /\ cons = [c \in Chans |-> <<>>]
  /\ pc = [t \in Threads |-> "run"]
  /\ call = [t \in Threads |-> NoCall]
  /\ number = [t \in Threads |-> 0]
  /\ todo = [t \in Threads |-> {}]
  /\ at = [t \in Threads |-> None]
  /\ wait = [t \in Threads |-> Idle]
  /\ armed = [t \in Threads |-> FALSE]
  /\ ran = [t \in Threads |-> {}]
  /\ moved = [t \in Threads |-> [c \in Chans |-> 0]]
  /\ last = [c \in Chans |-> [t \in Threads |-> 0]]
  /\ overtaken = {}

Set(f, t, v) == [f EXCEPT ![t] = v]
Goto(t, where) == pc' = Set(pc, t, where)
Clause(t, c) == call[t].clause[c]
Elem(t) == <<t, number[t]>>

-----------------------------------------------------------------------------
(* Queues of nodes.                                                        *)

\* A node of an all-or waituntil.
Special(t) == wait[t].status \notin {"plain", "and"}
Pending(t) == wait[t].status = "PENDING"
Decided(t) == Special(t) /\ wait[t].status \notin {"UNSAT", "PENDING"}

\* __handle_waituntil_OR and __handle_pending discard the nodes in front
\* whose waituntil has been decided.
Live(q) ==
  LET i == SelectInSeq(q, LAMBDA t : ~Decided(t))
  IN  IF i = 0 THEN <<>> ELSE SubSeq(q, i, Len(q))

\* Mutant: every clause of an and that is done unparks the thread.
WokenEachTime(w, t, c) ==
  [w EXCEPT ![t] =
     CASE @.status = "plain" -> [@ EXCEPT !.permit = TRUE]
       [] @.status = "and" -> [@ EXCEPT !.sat = @ \cup {c}, !.park_counter = @ + 1, !.permit = TRUE]
       [] OTHER -> [@ EXCEPT !.status = c, !.permit = TRUE]]

\* wake_one of thread t, whose node for channel c was first, and the win of its
\* status before: w is the waiting state of all threads.
Woken(w, t, c) ==
  [w EXCEPT ![t] =
     CASE @.status = "plain" -> [@ EXCEPT !.permit = TRUE]
       [] @.status = "and" -> [@ EXCEPT !.sat = @ \cup {c}, !.park_counter = @ + 1,
                                        !.permit = @ \/ w[t].park_counter = -1]
       [] OTHER -> [@ EXCEPT !.status = c, !.permit = TRUE]]

\* __make_select_node_available of the thread's own node, and-waituntil only.
MadeAvailable(t, c) ==
  IF wait[t].status = "and"
  THEN [wait EXCEPT ![t].sat = @ \cup {c}, ![t].park_counter = @ + 1]
  ELSE wait

-----------------------------------------------------------------------------
(* What happens to elements under the lock of channel c.  w is the waiting *)
(* state of all threads with what the thread does to its own.              *)

Moves(c, ts) == moved' = [t \in Threads |-> IF t \in ts THEN Set(moved[t], c, moved[t][c] + 1) ELSE moved[t]]
Taken(c, e) == last' = [last EXCEPT ![c][e[1]] = e[2]]

\* __cons_handoff to the first consumer that is still waiting.
ConsHandoff(t, c, w) ==
  LET q == Live(cons[c])
  IN  /\ q # <<>> /\ ~Pending(q[1])
      /\ cons' = Set(cons, c, Tail(q))
      /\ wait' = Woken(w, q[1], c)
      /\ Moves(c, {t, q[1]}) /\ Taken(c, Elem(t))
      /\ UNCHANGED <<buffer, prods, overtaken>>

\* __buf_insert, no consumer waiting.
BufInsert(t, c, w) ==
  /\ Live(cons[c]) = <<>> /\ Len(buffer[c]) < Size[c]
  /\ cons' = Set(cons, c, <<>>)
  /\ buffer' = Set(buffer, c, Append(buffer[c], Elem(t)))
  /\ wait' = w
  /\ Moves(c, {t})
  /\ UNCHANGED <<prods, last, overtaken>>

\* __prods_handoff by the first producer that is still waiting.
ProdsHandoff(t, c, w) ==
  LET q == Live(prods[c])
  IN  /\ q # <<>> /\ ~Pending(q[1])
      /\ prods' = Set(prods, c, Tail(q))
      /\ wait' = Woken(w, q[1], c)
      /\ Moves(c, {t, q[1]}) /\ Taken(c, Elem(q[1]))
      /\ overtaken' = IF buffer[c] = <<>> THEN overtaken ELSE overtaken \cup {c}
      /\ UNCHANGED <<buffer, cons>>

\* Mutant: the producers that wait for room are forgotten.
BufRemoveOnly(t, c, w) ==
  /\ buffer[c] # <<>>
  /\ buffer' = Set(buffer, c, Tail(buffer[c]))
  /\ wait' = w
  /\ Moves(c, {t}) /\ Taken(c, Head(buffer[c]))
  /\ UNCHANGED <<prods, cons, overtaken>>

\* __do_remove, no producer waiting for room.
BufRemove(t, c, w) ==
  /\ buffer[c] # <<>>
  /\ \/ Len(buffer[c]) < Size[c] /\ UNCHANGED prods
     \/ Len(buffer[c]) = Size[c] /\ Live(prods[c]) = <<>> /\ prods' = Set(prods, c, <<>>)
  /\ buffer' = Set(buffer, c, Tail(buffer[c]))
  /\ wait' = w
  /\ Moves(c, {t}) /\ Taken(c, Head(buffer[c]))
  /\ UNCHANGED <<cons, overtaken>>

\* Mutant: the reader gets the element of the producer that waits.
RefillNewest(t, c, w) ==
  LET q == Live(prods[c])
  IN  /\ buffer[c] # <<>> /\ Len(buffer[c]) = Size[c]
      /\ q # <<>> /\ ~Pending(q[1])
      /\ prods' = Set(prods, c, Tail(q))
      /\ wait' = Woken(w, q[1], c)
      /\ Moves(c, {t, q[1]}) /\ Taken(c, Elem(q[1]))
      /\ UNCHANGED <<buffer, cons, overtaken>>

\* __do_remove from a full buffer, with the work of a waiting producer.
BufRefill(t, c, w) ==
  LET q == Live(prods[c])
  IN  /\ buffer[c] # <<>> /\ Len(buffer[c]) = Size[c]
      /\ q # <<>> /\ ~Pending(q[1])
      /\ prods' = Set(prods, c, Tail(q))
      /\ buffer' = Set(buffer, c, Append(Tail(buffer[c]), Elem(q[1])))
      /\ wait' = Woken(w, q[1], c)
      /\ Moves(c, {t, q[1]}) /\ Taken(c, Head(buffer[c]))
      /\ UNCHANGED <<cons, overtaken>>

\* The operation of t's clause, done at once.
Transfer(t, c, w) ==
  \/ Clause(t, c) = "insert" /\ (ConsHandoff(t, c, w) \/ BufInsert(t, c, w))
  \/ Clause(t, c) = "remove" /\ Size[c] = 0 /\ ProdsHandoff(t, c, w)
  \/ Clause(t, c) = "remove" /\ (BufRemove(t, c, w) \/ BufRefill(t, c, w))

MustWait(t, c) ==
  \/ Clause(t, c) = "insert" /\ Live(cons[c]) = <<>> /\ Len(buffer[c]) = Size[c]
  \/ Clause(t, c) = "remove" /\ buffer[c] = <<>> /\ (Size[c] = 0 => Live(prods[c]) = <<>>)

\* The nodes that were found decided on the way to that.
Drain(t, c) ==
  /\ cons' = IF Clause(t, c) = "insert" THEN Set(cons, c, <<>>) ELSE cons
  /\ prods' = IF Clause(t, c) = "remove" /\ Size[c] = 0 THEN Set(prods, c, <<>>) ELSE prods

\* The node of t goes to the end of its queue.
Block(t, c) ==
  /\ cons' = IF Clause(t, c) = "insert" THEN Set(cons, c, <<>>) ELSE Set(cons, c, Append(cons[c], t))
  /\ prods' = IF Clause(t, c) = "insert" THEN Set(prods, c, Append(prods[c], t))
              ELSE IF Size[c] = 0 THEN Set(prods, c, <<>>) ELSE prods

-----------------------------------------------------------------------------
(* Calls that hold the lock once, and blocking.                            *)

Waits(k) == [Idle EXCEPT !.status = CASE k.how = "or" -> "UNSAT" [] k.how = "and" -> "and" [] OTHER -> "plain"]

\* A thread calls: a waituntil sets up its clauses.
Begin(t, k) ==
  /\ pc[t] = "run" /\ number[t] < MaxCalls[t]
  /\ call' = Set(call, t, k) /\ number' = Set(number, t, number[t] + 1)
  /\ wait' = Set(wait, t, Waits(k))
  /\ todo' = Set(todo, t, IF k.how \notin {"or", "and"} THEN {}
                          ELSE ClausesOf(k) \cup IF k.other = "timeout" THEN {"timeout"} ELSE {})
  /\ at' = Set(at, t, IF k.how \in {"or", "and"} THEN None ELSE CHOOSE c \in Chans : ClausesOf(k) = {c})
  /\ Goto(t, IF k.how \in {"or", "and"} THEN "register" ELSE k.how)
  /\ UNCHANGED <<chanVars, armed, ran, tallies>>

\* The call is done: its frame is gone.
End(t) ==
  /\ pc[t] = "end"
  /\ Goto(t, "run")
  /\ call' = Set(call, t, NoCall) /\ wait' = Set(wait, t, Idle) /\ at' = Set(at, t, None)
  /\ ran' = Set(ran, t, {}) /\ moved' = Set(moved, t, [c \in Chans |-> 0])
  /\ UNCHANGED <<chanVars, number, todo, armed, last, overtaken>>

\* The call, or the clause it is at, is done.
Done(t, where) == Goto(t, where) /\ ran' = Set(ran, t, ran[t] \cup {at[t]})

\* insert or remove when the channel is closed, looked up without the lock or
\* with it.
BlockClosed(t) ==
  /\ pc[t] = "block" /\ closed[at[t]]
  /\ Goto(t, "closed")
  /\ UNCHANGED <<chanVars, call, number, todo, at, wait, armed, ran, tallies>>

BlockTransfer(t) ==
  /\ pc[t] = "block" /\ lock[at[t]] = None /\ ~closed[at[t]]
  /\ Transfer(t, at[t], wait) /\ Done(t, "end")
  /\ UNCHANGED <<lock, closed, call, number, todo, at, armed>>

BlockWait(t) ==
  /\ pc[t] = "block" /\ lock[at[t]] = None /\ ~closed[at[t]]
  /\ MustWait(t, at[t]) /\ Block(t, at[t]) /\ Goto(t, "parked")
  /\ UNCHANGED <<lock, closed, buffer, call, number, todo, at, wait, armed, ran, tallies>>

\* __internal_try_insert and __internal_try_remove, called by their own or, with
\* the resumption of channel_closed handled, by __closed_insert and __closed_remove.
TryTransfer(t) ==
  /\ pc[t] \in {"try", "closed"} /\ lock[at[t]] = None
  /\ LET own == IF at[t] \in todo[t] THEN MadeAvailable(t, at[t]) ELSE wait
     IN  Transfer(t, at[t], own)
  /\ IF at[t] \in todo[t] /\ call[t].how = "and"
     THEN /\ todo' = Set(todo, t, todo[t] \ {at[t]})
          /\ Goto(t, "register") /\ UNCHANGED ran
     ELSE /\ Done(t, CASE call[t].how = "or" -> "unregister" [] call[t].how = "and" -> "bodies" [] OTHER -> "end")
          /\ UNCHANGED todo
  /\ UNCHANGED <<lock, closed, call, number, at, armed>>

\* The call is left with an exception, through the finally of a waituntil.
Leave(t) == Goto(t, IF call[t].how \in {"or", "and"} THEN "thrown" ELSE "end")

TryFails(t) ==
  /\ pc[t] \in {"try", "closed"} /\ lock[at[t]] = None
  /\ MustWait(t, at[t]) /\ Drain(t, at[t]) /\ Leave(t)
  /\ UNCHANGED <<lock, closed, buffer, call, number, todo, at, wait, armed, ran, tallies>>

\* channel_closed is not handled as a resumption.
Throw(t) ==
  /\ pc[t] = "closed" /\ Leave(t)
  /\ UNCHANGED <<chanVars, call, number, todo, at, wait, armed, ran, tallies>>

\* park returns in block.
BlockReturns(t) ==
  /\ pc[t] = "parked" /\ call[t].how = "block" /\ wait[t].permit
  /\ wait' = [wait EXCEPT ![t].permit = FALSE]
  /\ IF wait[t].shut # {} THEN Goto(t, "closed") /\ UNCHANGED ran ELSE Done(t, "end")
  /\ UNCHANGED <<chanVars, call, number, todo, at, armed, tallies>>

-----------------------------------------------------------------------------
(* close                                                                   *)

Close(t) ==
  /\ pc[t] = "close" /\ lock[at[t]] = None
  /\ lock' = Set(lock, at[t], t) /\ closed' = Set(closed, at[t], TRUE)
  /\ Goto(t, "flush")
  /\ UNCHANGED <<buffer, prods, cons, call, number, todo, at, wait, armed, ran, tallies>>

ShutAndWake(u, c) == Woken([wait EXCEPT ![u].shut = @ \cup {c}], u, c)

CloseCons(t) ==
  LET q == Live(cons[at[t]])
  IN  /\ pc[t] = "flush" /\ q # <<>> /\ ~Pending(q[1])
      /\ cons' = Set(cons, at[t], Tail(q))
      /\ wait' = ShutAndWake(q[1], at[t])
      /\ UNCHANGED <<lock, closed, buffer, prods, pc, call, number, todo, at, armed, ran, tallies>>

CloseProds(t) ==
  LET q == Live(prods[at[t]])
  IN  /\ pc[t] = "flush" /\ Live(cons[at[t]]) = <<>> /\ q # <<>> /\ ~Pending(q[1])
      /\ prods' = Set(prods, at[t], Tail(q))
      /\ wait' = ShutAndWake(q[1], at[t])
      /\ cons' = Set(cons, at[t], <<>>)
      /\ UNCHANGED <<lock, closed, buffer, pc, call, number, todo, at, armed, ran, tallies>>

CloseEnds(t) ==
  /\ pc[t] = "flush" /\ Live(cons[at[t]]) = <<>> /\ Live(prods[at[t]]) = <<>>
  /\ cons' = Set(cons, at[t], <<>>) /\ prods' = Set(prods, at[t], <<>>)
  /\ lock' = Set(lock, at[t], None)
  /\ Goto(t, "end")
  /\ UNCHANGED <<closed, buffer, call, number, todo, at, wait, armed, ran, tallies>>

-----------------------------------------------------------------------------
(* waituntil: register_select of a clause.                                 *)

Own(t, status) == [wait EXCEPT ![t].status = status]

\* The queue of the other side, and taking from its first thread that waits.
Others(t, c) == IF Clause(t, c) = "insert" THEN cons[c] ELSE prods[c]
Handoff(t, c, w) == IF Clause(t, c) = "insert" THEN ConsHandoff(t, c, w) ELSE ProdsHandoff(t, c, w)

CanComplete(t, c) ==
  \/ Others(t, c) # <<>> \/ closed[c]
  \/ Len(buffer[c]) # IF Clause(t, c) = "insert" THEN Size[c] ELSE 0

\* Mutant: a clause is done without a race for the status.
NoRaceLost(t, c) == FALSE

\* The race that comes first if the operation can be completed at once.
RaceLost(t, c) == call[t].how = "or" /\ CanComplete(t, c) /\ Decided(t)

Raced(t, c) == IF call[t].how = "or" /\ CanComplete(t, c) THEN Own(t, c) ELSE wait

\* register_select returns false.
NextClause(t, c) == Goto(t, "register") /\ todo' = Set(todo, t, todo[t] \ {c}) /\ at' = Set(at, t, None)

\* The part of register_select after the treatment of pending waituntils; the
\* lock is released at its end.
GiveUp(t, c) ==
  /\ RaceLost(t, c) /\ NextClause(t, c)
  /\ UNCHANGED <<closed, buffer, prods, cons, call, number, wait, armed, ran, tallies>>

FindClosed(t, c) ==
  /\ ~RaceLost(t, c) /\ closed[c]
  /\ wait' = Raced(t, c)
  /\ at' = Set(at, t, c) /\ Goto(t, "closed")
  /\ UNCHANGED <<closed, buffer, prods, cons, call, number, todo, armed, ran, tallies>>

Complete(t, c) ==
  /\ ~RaceLost(t, c) /\ ~closed[c]
  /\ IF call[t].how = "and"
     THEN /\ Transfer(t, c, MadeAvailable(t, c))
          /\ NextClause(t, c) /\ UNCHANGED ran
     ELSE /\ Transfer(t, c, Raced(t, c))
          /\ Goto(t, "unregister") /\ ran' = Set(ran, t, {c})
          /\ UNCHANGED <<todo, at>>
  /\ UNCHANGED <<closed, call, number, armed>>

Enqueue(t, c) ==
  /\ ~RaceLost(t, c) /\ ~closed[c] /\ MustWait(t, c)
  /\ wait' = Raced(t, c)
  /\ Block(t, c) /\ NextClause(t, c)
  /\ UNCHANGED <<closed, buffer, call, number, armed, ran, tallies>>

Operate(t, c) == GiveUp(t, c) \/ FindClosed(t, c) \/ Complete(t, c) \/ Enqueue(t, c)

\* Both this waituntil and that of the first waiting thread on the other side
\* are all-or.
BothSpecial(t, c) == call[t].how = "or" /\ ~closed[c] /\ Others(t, c) # <<>> /\ Special(Others(t, c)[1])

Register(t, c) ==
  /\ pc[t] = "register" /\ c \in todo[t] /\ lock[c] = None
  /\ ~BothSpecial(t, c)
  /\ Operate(t, c)
  /\ UNCHANGED lock

\* __make_select_node_pending
RegisterPending(t, c) ==
  /\ pc[t] = "register" /\ c \in todo[t] /\ lock[c] = None
  /\ BothSpecial(t, c)
  /\ IF Decided(t)
     THEN NextClause(t, c) /\ UNCHANGED <<lock, wait>>
     ELSE /\ wait' = Own(t, "PENDING") /\ lock' = Set(lock, c, t)
          /\ at' = Set(at, t, c) /\ Goto(t, "pending") /\ UNCHANGED todo
  /\ UNCHANGED <<closed, buffer, prods, cons, call, number, armed, ran, tallies>>

\* __handle_pending wins the first that can be won, or that needs no race.
PendingWins(t) ==
  /\ pc[t] = "pending"
  /\ Handoff(t, at[t], Own(t, "SAT"))
  /\ lock' = Set(lock, at[t], None)
  /\ Goto(t, "unregister") /\ ran' = Set(ran, t, {at[t]})
  /\ UNCHANGED <<closed, call, number, todo, at, armed>>

\* Mutant: the status stays PENDING while the other one is pending.
YieldsNot(t) ==
  LET q == Live(Others(t, at[t]))
  IN  /\ pc[t] = "pending" /\ q # <<>> /\ Pending(q[1])
      /\ Goto(t, "pending")
      /\ UNCHANGED <<chanVars, call, number, todo, at, wait, armed, ran, tallies>>

\* The other one is pending too: let it, or somebody else, win this one.
PendingYields(t) ==
  LET q == Live(Others(t, at[t]))
  IN  /\ pc[t] = "pending" /\ q # <<>> /\ Pending(q[1])
      /\ IF Clause(t, at[t]) = "insert" THEN cons' = Set(cons, at[t], q) /\ UNCHANGED prods
                                        ELSE prods' = Set(prods, at[t], q) /\ UNCHANGED cons
      /\ wait' = Own(t, "UNSAT")
      /\ Goto(t, "yielded")
      /\ UNCHANGED <<lock, closed, buffer, call, number, todo, at, armed, ran, tallies>>

PendingAgain(t) ==
  /\ pc[t] = "yielded"
  /\ IF Decided(t) THEN Goto(t, "race") /\ UNCHANGED wait
                   ELSE Goto(t, "pending") /\ wait' = Own(t, "PENDING")
  /\ UNCHANGED <<chanVars, call, number, todo, at, armed, ran, tallies>>

\* All of the other side are decided.
PendingDrained(t) ==
  /\ pc[t] = "pending" /\ Live(Others(t, at[t])) = <<>>
  /\ IF Clause(t, at[t]) = "insert" THEN cons' = Set(cons, at[t], <<>>) /\ UNCHANGED prods
                                    ELSE prods' = Set(prods, at[t], <<>>) /\ UNCHANGED cons
  /\ wait' = Own(t, "UNSAT")
  /\ Goto(t, "race")
  /\ UNCHANGED <<lock, closed, buffer, call, number, todo, at, armed, ran, tallies>>

Race(t) ==
  /\ pc[t] = "race"
  /\ Operate(t, at[t])
  /\ lock' = Set(lock, at[t], None)

\* register_select of a timeout, and the alarm that wakes the thread if it wins.
RegisterTimeout(t) ==
  /\ pc[t] = "register" /\ "timeout" \in todo[t]
  /\ armed' = Set(armed, t, TRUE)
  /\ todo' = Set(todo, t, todo[t] \ {"timeout"})
  /\ UNCHANGED <<chanVars, pc, call, number, at, wait, ran, tallies>>

Timeout(t) ==
  /\ armed[t] /\ ~Pending(t)
  /\ armed' = Set(armed, t, FALSE)
  /\ wait' = IF Decided(t) THEN wait ELSE [wait EXCEPT ![t].status = "timeout", ![t].permit = TRUE]
  /\ UNCHANGED <<chanVars, pc, call, number, todo, at, ran, tallies>>

-----------------------------------------------------------------------------
(* waituntil: after all clauses are registered.                            *)

\* __select_node_else_race, or park.
Registered(t) ==
  /\ pc[t] = "register" /\ todo[t] = {} /\ call[t].how = "or"
  /\ IF call[t].other = "else" /\ wait[t].status = "UNSAT"
     THEN Goto(t, "unregister") /\ wait' = Own(t, "SAT")
     ELSE Goto(t, "parked") /\ UNCHANGED wait
  /\ UNCHANGED <<chanVars, call, number, todo, at, armed, ran, tallies>>

\* park returns, and the clause that won is run; on_selected.
Selected(t) ==
  LET c == wait[t].status
  IN  /\ pc[t] = "parked" /\ call[t].how = "or" /\ wait[t].permit
      /\ wait' = [wait EXCEPT ![t].permit = FALSE]
      /\ at' = Set(at, t, IF c \in Chans THEN c ELSE None)
      /\ Goto(t, IF wait[t].shut # {} THEN "closed" ELSE "unregister")
      /\ ran' = IF wait[t].shut # {} \/ c \notin Chans THEN ran ELSE Set(ran, t, {c})
      /\ UNCHANGED <<chanVars, call, number, todo, armed, tallies>>

\* __CFA_maybe_park
MaybePark(t) ==
  /\ pc[t] = "register" /\ todo[t] = {} /\ call[t].how = "and"
  /\ wait' = [wait EXCEPT ![t].park_counter = @ - 1]
  /\ Goto(t, IF wait[t].park_counter > 0 THEN "bodies" ELSE "parked")
  /\ UNCHANGED <<chanVars, call, number, todo, at, armed, ran, tallies>>

AndReturns(t) ==
  /\ pc[t] = "parked" /\ call[t].how = "and" /\ wait[t].permit
  /\ wait' = [wait EXCEPT ![t].permit = FALSE]
  /\ Goto(t, "bodies")
  /\ UNCHANGED <<chanVars, call, number, todo, at, armed, ran, tallies>>

\* The clauses that are SAT are run, one that was woken by close first.
Bodies(t) ==
  LET due == wait[t].sat \ ran[t]
      shut == due \cap wait[t].shut
  IN  /\ pc[t] = "bodies"
      /\ IF shut # {}
         THEN (\E c \in shut : at' = Set(at, t, c)) /\ Goto(t, "closed") /\ UNCHANGED ran
         ELSE /\ ran' = Set(ran, t, ran[t] \cup due)
              /\ Goto(t, IF ran'[t] = ClausesOf(call[t]) THEN "unregister" ELSE "register")
              /\ UNCHANGED at
      /\ UNCHANGED <<chanVars, call, number, todo, wait, armed, tallies>>

\* The finally of a waituntil: unregister_chan under the lock ...
Unregister(t, c) ==
  /\ pc[t] \in {"unregister", "thrown"} /\ lock[c] = None
  /\ Contains(prods[c] \o cons[c], t)
  /\ prods' = Set(prods, c, RemoveFirst(prods[c], t)) /\ cons' = Set(cons, c, RemoveFirst(cons[c], t))
  /\ UNCHANGED <<lock, closed, buffer, pc, call, number, todo, at, wait, armed, ran, tallies>>

\* ... until no node is listed.  What was done for an and is run, whatever was
\* thrown.
Unregistered(t) ==
  /\ pc[t] \in {"unregister", "thrown"}
  /\ \A c \in Chans : ~Contains(prods[c] \o cons[c], t)
  /\ ran' = Set(ran, t, ran[t] \cup (wait[t].sat \ wait[t].shut))
  /\ armed' = Set(armed, t, FALSE) /\ todo' = Set(todo, t, {})
  /\ Goto(t, "end")
  /\ UNCHANGED <<chanVars, call, number, at, wait, tallies>>

-----------------------------------------------------------------------------
Step(t) ==
  \/ BlockClosed(t) \/ BlockTransfer(t) \/ BlockWait(t) \/ BlockReturns(t)
  \/ TryTransfer(t) \/ TryFails(t) \/ Throw(t)
  \/ Close(t) \/ CloseCons(t) \/ CloseProds(t) \/ CloseEnds(t)
  \/ \E c \in Chans : Register(t, c) \/ RegisterPending(t, c) \/ Unregister(t, c)
  \/ PendingWins(t) \/ PendingYields(t) \/ PendingAgain(t) \/ PendingDrained(t) \/ Race(t)
  \/ RegisterTimeout(t) \/ Registered(t) \/ Selected(t)
  \/ MaybePark(t) \/ AndReturns(t) \/ Bodies(t) \/ Unregistered(t)
  \/ End(t)

Next ==
  \E t \in Threads : Step(t) \/ Timeout(t) \/ \E k \in Calls[t] : Begin(t, k)

Spec == Init /\ [][Next]_vars

\* A thread goes on; one that waits for mutex_lock or for a status to be settled
\* gets it in the end, and two pending waituntils do not yield in lockstep
\* for ever.  Alarms go off.
FairSpec ==
  Spec /\ \A t \in Threads : SF_vars(Step(t)) /\ SF_vars(PendingWins(t)) /\ WF_vars(Timeout(t))

-----------------------------------------------------------------------------
(* Every clause that a call reports as done has moved one element, and no  *)
(* other clause has moved any: a waituntil that is won by one channel, by  *)
(* its timeout, by its else or by an exception leaves nothing taken from   *)
(* or given to another (channel.hfa:358-372, :393-456, :506-571).          *)
ExactlyOnce ==
  \A t \in Threads : pc[t] = "end" =>
    \A c \in Chans : moved[t][c] = IF c \in ran[t] THEN 1 ELSE 0

(* Nobody waits for what the channel could give: a producer waits only for *)
(* a full buffer, a consumer only for an empty one, never both, and nobody *)
(* at a closed channel (channel.hfa:107-125, :189-231, :288-327).          *)
WaitersMatch ==
  \A c \in Chans : lock[c] = None =>
    /\ Live(prods[c]) # <<>> => Len(buffer[c]) = Size[c]
    /\ Live(cons[c]) # <<>> => buffer[c] = <<>>
    /\ closed[c] \/ (Live(prods[c]) # <<>> /\ Live(cons[c]) # <<>>)
         => Live(prods[c]) \o Live(cons[c]) = <<>>

(* Who sleeps has been unparked or can still be reached: the node of each  *)
(* clause that is not done is on its queue, and no race is won that the    *)
(* winner has not told of (select.hfa:170-191, Waituntil.cpp:930-1048).    *)
SleepersReachable ==
  \A t \in Threads : pc[t] = "parked" /\ ~wait[t].permit =>
    /\ wait[t].status \in {"plain", "and", "UNSAT"}
    /\ \A c \in ClausesOf(call[t]) \ wait[t].sat : Contains(IF Clause(t, c) = "insert" THEN prods[c] ELSE cons[c], t)
    /\ call[t].other = "timeout" => armed[t]
    /\ wait[t].status = "and" => wait[t].park_counter = -1 /\ ClausesOf(call[t]) # wait[t].sat

(* An unpark is meant for a park of this call, so that a later park of the *)
(* thread does not return too early: only a call that sleeps, or a         *)
(* waituntil that has lost and will sleep, is unparked (select.hfa:186).   *)
UnparksMeant ==
  \A t \in Threads : wait[t].permit =>
    \/ pc[t] = "parked"
    \/ pc[t] \in {"register", "race", "yielded"} /\ Decided(t)

(* The two parts for the sleepers of all operations and waituntils.        *)
UnparksMatchParks == SleepersReachable /\ UnparksMeant

(* The elements of one producer leave a channel in the order in which they *)
(* were inserted (tests/concurrency/waituntil/channel_close.cfa:28).       *)
InOrder ==
  \A c \in Chans : \A i \in 1..Len(buffer[c]) :
    LET e == buffer[c][i]
    IN  /\ e[2] > last[c][e[1]]
        /\ \A j \in 1..(i - 1) : buffer[c][j][1] = e[1] => buffer[c][j][2] < e[2]

(* That is so until an all-or reader takes an element from an all-or       *)
(* writer past a buffer that is not empty (channel.hfa:403-414).           *)
InOrderUnlessOvertaken == \/ overtaken # {} \/ InOrder

(* Every call ends, unless it sleeps for want of others: a close reaches   *)
(* whoever waits at its channel or comes to it later, a timeout whoever    *)
(* has one, and two waituntils that are pending at each other's channels   *)
(* do not hold each other up (channel.hfa:107-125, select.hfa:129-146).    *)
Busy(t) ==
  /\ pc[t] # "run"
  /\ pc[t] = "parked" => \/ call[t].other = "timeout"
                         \/ \E c \in ClausesOf(call[t]) \ wait[t].sat : closed[c]

CallsEnd == \A t \in Threads : Busy(t) ~> ~Busy(t)
=============================================================================
