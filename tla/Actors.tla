------------------------------- MODULE Actors -------------------------------
(***************************************************************************)
(* The executor of concurrency/actor.hfa: actors are assigned to work      *)
(* queues, workers take whole queues over and deliver the requests in them *)
(* one after the other, and a worker that has found nothing for a while    *)
(* swaps one of its queues with one of another worker.  The thread that    *)
(* calls actor_start and actor_stop (Main here) makes actors and sends     *)
(* messages; actors send more when they receive.                           *)
(*                                                                         *)
(* insert and transfer hold the lock of the work queue from end to end and *)
(* are one step.  The worker's array of queues is read and exchanged       *)
(* without one: each access is a step.                                     *)
(***************************************************************************)
EXTENDS Integers, Sequences, FiniteSets

CONSTANTS
  NWorkers,
  NQueues,     \* nrqueues
  Actors,
  Messages,
  To,          \* message -> the actor it is sent to
  Reaction,    \* message -> what its receiver sends, in order
  Endings,     \* messages whose receiver returns Delete, Destroy or Finished
  Script,      \* actors that Main makes and messages that it sends, in order
  Null         \* neither a queue, an actor nor a message

Workers == 0 .. NWorkers - 1
Queues == 0 .. NQueues - 1

ASSUME ActorsAssumption ==
  /\ NWorkers \in Nat \ {0} /\ NQueues \in Nat /\ NQueues >= NWorkers
  /\ To \in [Messages -> Actors]
  /\ Reaction \in [Messages -> Seq(Messages)]
  /\ Endings \subseteq Messages
  /\ Script \in Seq(Actors \cup Messages) /\ Actors \cap Messages = {}
  /\ \A k, l \in DOMAIN Script : Script[k] = Script[l] /\ Script[k] \in Actors => k = l
  /\ Null \notin Queues \cup Actors \cup Messages
  /\ IsFiniteSet(Actors)

VARIABLES
  slots,       \* worker_req_queues: slot -> the queue in it
  inbox,       \* queue -> the requests in its c_queue
  processed,   \* queue -> being_processed
  ticket,      \* actor -> the queue of its messages, Null before it is made
  num_actors,
  is_shutdown,
  no_steal,
  permits,     \* unparks of the thread of Main that it has not used
  main,        \* where Main stands
  step,        \* what it has done of Script, then how many workers it has joined
  pc,          \* worker -> where it stands
  i,           \* worker -> the number of the slot it is at, of its own
  empty_count, \* worker -> empty queues seen
  curr,        \* worker -> curr_work_queue
  gulp,        \* worker -> the requests in its current_queue
  req,         \* worker -> the message that is being received
  sends,       \* worker -> what the receiver has still to send
  swap         \* worker -> its locals in choose_queue and try_swap_queues

sysVars == <<ticket, num_actors, permits, main, step, is_shutdown, no_steal>>
queueVars == <<slots, inbox, processed>>
loopVars == <<i, empty_count, curr, gulp>>
reqVars == <<req, sends>>
vars == <<sysVars, queueVars, pc, loopVars, reqVars, swap>>

NoSwap == [my_idx |-> Null, victim_idx |-> Null, tries |-> 0, curr_steal_queue |-> Null, my_queue |-> Null,
           other_queue |-> Null]

\* Each worker has a range of consecutive slots, the first ones one more if
\* they cannot be divided.
RangeOf(w) == NQueues \div NWorkers + IF w < NQueues % NWorkers THEN 1 ELSE 0
Start(w) == w * (NQueues \div NWorkers) + IF w < NQueues % NWorkers THEN w ELSE NQueues % NWorkers
Own(w) == Start(w) .. Start(w) + RangeOf(w) - 1
Threshold(w) == 2 * RangeOf(w)

\* no_steal is never reset: it may be true from an earlier executor.
Init ==
  /\ slots = [k \in Queues |-> k]
  /\ inbox = [q \in Queues |-> <<>>]
  /\ processed = [q \in Queues |-> FALSE]
  /\ ticket = [a \in Actors |-> Null]
  /\ num_actors = 0 /\ permits = 0
  /\ is_shutdown = FALSE
  /\ no_steal \in BOOLEAN /\ (NWorkers = NQueues => no_steal)
  /\ main = "script" /\ step = 0
  /\ pc = [w \in Workers |-> "look"]
  /\ i = [w \in Workers |-> 0]
  /\ empty_count = [w \in Workers |-> 0]
  /\ curr = [w \in Workers |-> Null]
  /\ gulp = [w \in Workers |-> <<>>]
  /\ req = [w \in Workers |-> Null]
  /\ sends = [w \in Workers |-> <<>>]
  /\ swap = [w \in Workers |-> NoSwap]

Set(f, x, v) == [f EXCEPT ![x] = v]

\* send: insert of the work queue.
Insert(m) == inbox' = Set(inbox, ticket[To[m]], Append(inbox[ticket[To[m]]], m))

-----------------------------------------------------------------------------
(* The thread of Main.                                                     *)

\* An actor is made; tickets go round.
MakeActor(a) ==
  /\ main = "script" /\ step < Len(Script) /\ Script[step + 1] = a
  /\ ticket' = Set(ticket, a, Cardinality({b \in Actors : ticket[b] # Null}) % NQueues)
  /\ num_actors' = num_actors + 1
  /\ step' = step + 1
  /\ UNCHANGED <<permits, main, is_shutdown, no_steal, queueVars, pc, loopVars, reqVars, swap>>

SendMessage(m) ==
  /\ main = "script" /\ step < Len(Script) /\ Script[step + 1] = m
  /\ Insert(m)
  /\ step' = step + 1
  /\ UNCHANGED <<ticket, num_actors, permits, main, is_shutdown, no_steal, slots, processed, pc, loopVars,
                 reqVars, swap>>

\* actor_stop: park returns; the destructor of the executor tells the workers.
Stop ==
  /\ main = "script" /\ step = Len(Script) /\ permits > 0
  /\ permits' = permits - 1
  /\ is_shutdown' = TRUE
  /\ main' = "joining" /\ step' = 0
  /\ UNCHANGED <<ticket, num_actors, no_steal, queueVars, pc, loopVars, reqVars, swap>>

\* It joins them, the first one first, and frees everything.
Join ==
  /\ main = "joining" /\ pc[step] = "gone"
  /\ step' = step + 1
  /\ main' = IF step + 1 = NWorkers THEN "stopped" ELSE main
  /\ UNCHANGED <<ticket, num_actors, permits, is_shutdown, no_steal, queueVars, pc, loopVars, reqVars, swap>>

-----------------------------------------------------------------------------
(* The loop of a worker.                                                   *)

Slot(w) == Start(w) + i[w]
Goto(w, where) == pc' = Set(pc, w, where)

\* On to the next slot.  curr, which is read before it is used again, is reset.
Continue(w) == Goto(w, "look") /\ i' = Set(i, w, (i[w] + 1) % RangeOf(w)) /\ curr' = Set(curr, w, Null)
Remain(w, where) == Goto(w, where) /\ UNCHANGED <<i, curr>>

\* CHECK_TERMINATION
ContinueOrExit(w) == IF is_shutdown THEN Remain(w, "gone") ELSE Continue(w)

\* One more empty queue.  Beyond the threshold the count makes no difference.
Missed(w) == empty_count' = Set(empty_count, w, IF empty_count[w] < Threshold(w) THEN empty_count[w] + 1
                                                ELSE empty_count[w])

Look(w) ==
  /\ pc[w] = "look"
  /\ curr' = Set(curr, w, slots[Slot(w)])
  /\ Goto(w, "check")
  /\ UNCHANGED <<sysVars, queueVars, i, empty_count, gulp, reqVars, swap>>

\* is_empty of the c_queue, without its lock.
Check(w) ==
  /\ pc[w] = "check"
  /\ IF inbox[curr[w]] = <<>>
     THEN Missed(w) /\ IF empty_count'[w] < Threshold(w) THEN Continue(w) ELSE Remain(w, "transfer")
     ELSE Remain(w, "transfer") /\ UNCHANGED empty_count
  /\ UNCHANGED <<sysVars, queueVars, gulp, reqVars, swap>>

\* Mutant: a queue that is being processed elsewhere is taken over as well.
TransferAlways(w) ==
  /\ inbox' = Set(inbox, curr[w], gulp[w])
  /\ gulp' = Set(gulp, w, inbox[curr[w]])
  /\ processed' = Set(processed, curr[w], inbox[curr[w]] # <<>>)

\* transfer: the worker's own queue, which is empty, is swapped with c_queue.
Transfer(w) ==
  IF processed[curr[w]]
  THEN UNCHANGED <<inbox, gulp, processed>>
  ELSE /\ inbox' = Set(inbox, curr[w], gulp[w])
       /\ gulp' = Set(gulp, w, inbox[curr[w]])
       /\ processed' = Set(processed, curr[w], inbox[curr[w]] # <<>>)

Gulp(w) ==
  /\ pc[w] = "transfer" /\ Transfer(w) /\ gulp'[w] # <<>>
  /\ Goto(w, "serve")
  /\ UNCHANGED <<sysVars, slots, i, empty_count, curr, reqVars, swap>>

\* Nothing was taken over.
GulpNothing(w) ==
  /\ pc[w] = "transfer" /\ Transfer(w) /\ gulp'[w] = <<>>
  /\ \/ no_steal /\ ContinueOrExit(w) /\ UNCHANGED empty_count
     \/ /\ ~no_steal /\ empty_count[w] + 1 < Threshold(w)
        /\ Missed(w) /\ Continue(w)
  /\ UNCHANGED <<sysVars, slots, reqVars, swap>>

\* Mutant: a thief does not look whether the executor shuts down.
GoStealingOn(w) ==
  /\ pc[w] = "transfer" /\ Transfer(w) /\ gulp'[w] = <<>>
  /\ ~no_steal /\ empty_count[w] + 1 >= Threshold(w)
  /\ empty_count' = Set(empty_count, w, 0) /\ curr' = Set(curr, w, Null)
  /\ Goto(w, "choose")
  /\ \E v \in IF NWorkers = 1 THEN {w} ELSE Workers \ {w} :
     \E k \in Own(w), l \in Own(v) :
       swap' = Set(swap, w, [NoSwap EXCEPT !.my_idx = k, !.victim_idx = l])
  /\ UNCHANGED <<sysVars, slots, i, reqVars>>

\* ... often enough: choose_queue starts at any slot of the other worker that
\* steal_work picks, which is the one with the oldest time stamp.
GoStealing(w) ==
  /\ pc[w] = "transfer" /\ Transfer(w) /\ gulp'[w] = <<>>
  /\ ~no_steal /\ empty_count[w] + 1 >= Threshold(w)
  /\ empty_count' = Set(empty_count, w, 0) /\ curr' = Set(curr, w, Null)
  /\ IF is_shutdown
     THEN Goto(w, "gone") /\ UNCHANGED swap
     ELSE /\ Goto(w, "choose")
          /\ \E v \in IF NWorkers = 1 THEN {w} ELSE Workers \ {w} :
             \E k \in Own(w), l \in Own(v) :
               swap' = Set(swap, w, [NoSwap EXCEPT !.my_idx = k, !.victim_idx = l])
  /\ UNCHANGED <<sysVars, slots, i, reqVars>>

\* deliver_request: the receiver is called.
Deliver(w) ==
  /\ pc[w] = "serve" /\ gulp[w] # <<>>
  /\ req' = Set(req, w, Head(gulp[w]))
  /\ sends' = Set(sends, w, Reaction[Head(gulp[w])])
  /\ gulp' = Set(gulp, w, Tail(gulp[w]))
  /\ Goto(w, "receive")
  /\ UNCHANGED <<sysVars, queueVars, i, empty_count, curr, swap>>

ReceiverSends(w) ==
  /\ pc[w] = "receive" /\ sends[w] # <<>>
  /\ Insert(Head(sends[w]))
  /\ sends' = Set(sends, w, Tail(sends[w]))
  /\ UNCHANGED <<sysVars, slots, processed, pc, loopVars, req, swap>>

\* Mutant: the last actor but one wakes Main.
CheckActorEarly(m) ==
  IF m \in Endings
  THEN /\ num_actors' = num_actors - 1
       /\ permits' = IF num_actors' = 1 THEN permits + 1 ELSE permits
  ELSE UNCHANGED <<num_actors, permits>>

\* check_actor: the last actor that ends unparks Main.  A second unpark before
\* Main parks aborts the program (kernel.cfa:534-536); it is counted here, and
\* the rest goes on.
CheckActor(m) ==
  IF m \in Endings
  THEN /\ num_actors' = num_actors - 1
       /\ permits' = IF num_actors' = 0 THEN permits + 1 ELSE permits
  ELSE UNCHANGED <<num_actors, permits>>

Received(w) ==
  /\ pc[w] = "receive" /\ sends[w] = <<>>
  /\ CheckActor(req[w])
  /\ req' = Set(req, w, Null)
  /\ Goto(w, "serve")
  /\ UNCHANGED <<ticket, main, step, is_shutdown, no_steal, queueVars, loopVars, sends, swap>>

\* Mutant: the worker goes on without clearing the mark.
ServedMarked(w) ==
  /\ pc[w] = "serve" /\ gulp[w] = <<>>
  /\ empty_count' = Set(empty_count, w, 0)
  /\ ContinueOrExit(w)
  /\ UNCHANGED <<sysVars, queueVars, gulp, reqVars, swap>>

\* The current queue is empty.
Served(w) ==
  /\ pc[w] = "serve" /\ gulp[w] = <<>>
  /\ processed' = Set(processed, curr[w], FALSE)
  /\ empty_count' = Set(empty_count, w, 0)
  /\ ContinueOrExit(w)
  /\ UNCHANGED <<sysVars, slots, inbox, gulp, reqVars, swap>>

-----------------------------------------------------------------------------
(* Stealing.                                                               *)

\* steal_work returns.
Return(w) == Continue(w) /\ swap' = Set(swap, w, NoSwap)

\* choose_queue takes the first queue that has requests and is not being
\* processed, if there is one: on to the next queue of the victim ...
NextChoice(w) ==
  LET k == swap[w].victim_idx
      v == CHOOSE u \in Workers : k \in Own(u)
  IN  IF swap[w].tries + 1 = RangeOf(v) THEN Return(w)
      ELSE /\ Remain(w, "choose")
           /\ swap' = [swap EXCEPT ![w].tries = @ + 1, ![w].curr_steal_queue = Null,
                                   ![w].victim_idx = Start(v) + ((k - Start(v) + 1) % RangeOf(v))]

\* ... if its slot is empty ...
Choose(w) ==
  /\ pc[w] = "choose"
  /\ IF slots[swap[w].victim_idx] = Null
     THEN NextChoice(w)
     ELSE /\ swap' = [swap EXCEPT ![w].curr_steal_queue = slots[swap[w].victim_idx]]
          /\ Remain(w, "busy")
  /\ UNCHANGED <<sysVars, queueVars, empty_count, gulp, reqVars>>

\* ... if the queue is being processed ...
ChooseIdle(w) ==
  /\ pc[w] = "busy"
  /\ IF processed[swap[w].curr_steal_queue] THEN NextChoice(w) ELSE Remain(w, "mail") /\ UNCHANGED swap
  /\ UNCHANGED <<sysVars, queueVars, empty_count, gulp, reqVars>>

\* ... and if it has no requests.
ChooseFull(w) ==
  /\ pc[w] = "mail"
  /\ IF inbox[swap[w].curr_steal_queue] = <<>>
     THEN NextChoice(w)
     ELSE Remain(w, "mine") /\ swap' = [swap EXCEPT ![w].curr_steal_queue = Null]
  /\ UNCHANGED <<sysVars, queueVars, empty_count, gulp, reqVars>>

\* try_swap_queues reads both slots ...
ReadMine(w) ==
  /\ pc[w] = "mine"
  /\ swap' = [swap EXCEPT ![w].my_queue = slots[swap[w].my_idx]]
  /\ Goto(w, "theirs")
  /\ UNCHANGED <<sysVars, queueVars, loopVars, reqVars>>

ReadTheirs(w) ==
  /\ pc[w] = "theirs"
  /\ IF slots[swap[w].victim_idx] = Null
     THEN Return(w)
     ELSE /\ swap' = [swap EXCEPT ![w].other_queue = slots[swap[w].victim_idx]]
          /\ Remain(w, "take")
  /\ UNCHANGED <<sysVars, queueVars, empty_count, gulp, reqVars>>

\* Mutant: the worker's own slot keeps its queue.
TakeNot(w) ==
  /\ pc[w] = "take" /\ slots[swap[w].my_idx] = swap[w].my_queue
  /\ UNCHANGED slots
  /\ Goto(w, "give")
  /\ UNCHANGED <<sysVars, inbox, processed, loopVars, reqVars, swap>>

\* ... empties its own by compare-and-exchange ...
Take(w) ==
  /\ pc[w] = "take" /\ slots[swap[w].my_idx] = swap[w].my_queue
  /\ slots' = Set(slots, swap[w].my_idx, Null)
  /\ Goto(w, "give")
  /\ UNCHANGED <<sysVars, inbox, processed, loopVars, reqVars, swap>>

TakeFails(w) ==
  /\ pc[w] = "take" /\ slots[swap[w].my_idx] # swap[w].my_queue
  /\ Return(w)
  /\ UNCHANGED <<sysVars, queueVars, empty_count, gulp, reqVars>>

\* ... puts its queue into the other by another one ...
Give(w) ==
  /\ pc[w] = "give" /\ slots[swap[w].victim_idx] = swap[w].other_queue
  /\ slots' = Set(slots, swap[w].victim_idx, swap[w].my_queue)
  /\ Goto(w, "put")
  /\ UNCHANGED <<sysVars, inbox, processed, loopVars, reqVars, swap>>

\* ... that fails if another thief was faster: the worker keeps its queue ...
GiveFails(w) ==
  /\ pc[w] = "give" /\ slots[swap[w].victim_idx] # swap[w].other_queue
  /\ Goto(w, "undo")
  /\ UNCHANGED <<sysVars, queueVars, loopVars, reqVars, swap>>

Undo(w) ==
  /\ pc[w] = "undo"
  /\ slots' = Set(slots, swap[w].my_idx, swap[w].my_queue)
  /\ Return(w)
  /\ UNCHANGED <<sysVars, inbox, processed, empty_count, gulp, reqVars>>

\* ... and has the queue of the other in its slot, if not.
Put(w) ==
  /\ pc[w] = "put"
  /\ slots' = Set(slots, swap[w].my_idx, swap[w].other_queue)
  /\ Return(w)
  /\ UNCHANGED <<sysVars, inbox, processed, empty_count, gulp, reqVars>>

-----------------------------------------------------------------------------
Main ==
  \/ \E a \in Actors : MakeActor(a)
  \/ \E m \in Messages : SendMessage(m)
  \/ Stop \/ Join

Worker(w) ==
  \/ Look(w) \/ Check(w) \/ Gulp(w) \/ GulpNothing(w) \/ GoStealing(w)
  \/ Deliver(w) \/ ReceiverSends(w) \/ Received(w) \/ Served(w)
  \/ Choose(w) \/ ChooseIdle(w) \/ ChooseFull(w)
  \/ ReadMine(w) \/ ReadTheirs(w) \/ Take(w) \/ TakeFails(w)
  \/ Give(w) \/ GiveFails(w) \/ Undo(w) \/ Put(w)

Next == Main \/ \E w \in Workers : Worker(w)

Spec == Init /\ [][Next]_vars

\* Threads go on, and nothing else is assumed of them.
FairSpec == Spec /\ WF_vars(Main) /\ \A w \in Workers : WF_vars(Worker(w))

-----------------------------------------------------------------------------
(* Stealing loses and doubles no queue: each one is in one slot or in the  *)
(* hand of one thief, a worker finds one in each of its own slots when it  *)
(* comes to look, and a queue is marked as being processed exactly while   *)
(* one worker has the requests it took from it, wherever the queue was     *)
(* moved to meanwhile (actor.hfa:166-174, :492-513, :604, :642-651).       *)
InHand(w, q) ==
  \/ pc[w] \in {"give", "undo"} /\ swap[w].my_queue = q
  \/ pc[w] = "put" /\ swap[w].other_queue = q

Serving(w, q) == pc[w] \in {"serve", "receive"} /\ curr[w] = q

QueuesKept ==
  /\ \A q \in Queues :
       Cardinality({k \in Queues : slots[k] = q}) + Cardinality({w \in Workers : InHand(w, q)}) = 1
  /\ \A w \in Workers : pc[w] = "look" => slots[Slot(w)] # Null
  /\ \A q \in Queues : Cardinality({w \in Workers : Serving(w, q)}) = IF processed[q] THEN 1 ELSE 0

\* No actor is left of those made so far, and no request: none waits, none was
\* taken over and none is being received.
Finished ==
  /\ num_actors = 0
  /\ \A q \in Queues : inbox[q] = <<>>
  /\ \A w \in Workers : gulp[w] = <<>> /\ req[w] = Null

(* Main is woken when "all actors have terminated" (actor.hfa:434), those   *)
(* that were made by then, and with them all their messages: the count is  *)
(* lowered by the workers in any order, and no queue is looked at.         *)
WokenWhenFinished == [][permits' > permits => Finished']_vars

(* An executor that does not steal comes to its end: no worker sleeps or   *)
(* spins past a request, so that the count of actors reaches 0 and Main is *)
(* woken (actor.hfa:433-436, :622, :640-655).  And with stealing or not,   *)
(* the destructor of the executor joins all workers, which see that it     *)
(* shuts down whether they serve, steal, are robbed or find nothing        *)
(* (actor.hfa:585, :628-634, :655, :331-338).                              *)
Stops ==
  /\ no_steal => <>(main = "stopped")
  /\ main = "joining" ~> main = "stopped"

(* What was taken over from the queue of an actor and what is still in it. *)
Gulped(q) ==
  LET s == {w \in Workers : Serving(w, q)}
  IN  IF s = {} THEN <<>> ELSE gulp[CHOOSE w \in s : TRUE]

\* The messages of s that are sent to a: SelectSeq, as a recursive function.
SentTo(a, s) ==
  LET f[n \in 0 .. Len(s)] ==
        IF n = 0 THEN <<>> ELSE IF To[s[n]] = a THEN Append(f[n - 1], s[n]) ELSE f[n - 1]
  IN  f[Len(s)]

Mailbox(a) ==
  IF ticket[a] = Null THEN <<>> ELSE SentTo(a, Gulped(ticket[a]) \o inbox[ticket[a]])

Receiving(a) == {m \in Messages : To[m] = a /\ \E w \in Workers : req[w] = m}

Boxes == INSTANCE Mailboxes WITH mailbox <- [a \in Actors |-> Mailbox(a)],
                                 receiving <- [a \in Actors |-> Receiving(a)]

(* Each actor gets its messages in order, each once, one at a time,        *)
(* whichever workers its queue passes to (actor.hfa:155-184, :480-660).    *)
ImplementsMailboxes == Boxes!Spec
=============================================================================
