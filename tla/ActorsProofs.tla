---------------------------- MODULE ActorsProofs ----------------------------
(***************************************************************************)
(* Proof that the executor of actors keeps its queues, for any numbers of  *)
(* workers, queues, actors and messages and for any script: whatever the   *)
(* thieves do at the same time, each queue is in one slot or one hand, a   *)
(* worker finds a queue in each of its slots when it comes to look, and    *)
(* the mark of a queue says that one worker serves it.  Then, that each    *)
(* actor has a mailbox, and that nothing is left in one when the last of   *)
(* the actors wakes Main, if nobody sends to actors that are told to end.  *)
(***************************************************************************)
EXTENDS Actors, TLAPS, FiniteSetTheorems, WellFoundedInduction

(***************************************************************************)
(* The ranges of the workers.                                              *)
(***************************************************************************)

\* The length of a short range, and how many ranges are longer by one.
Short == NQueues \div NWorkers
Longer == NQueues % NWorkers

(* What division gives. *)
LEMMA Quotient ==
  ASSUME NEW a \in Int, NEW n \in Int, n > 0
  PROVE  a = n * (a \div n) + (a % n)
OBVIOUS

(* The short ranges hold a queue each at least (actor.hfa:280-290). *)
LEMMA Division ==
  /\ Short \in Nat \ {0} /\ Longer \in 0 .. NWorkers - 1
  /\ NQueues = NWorkers * Short + Longer
<1> DEFINE n == NWorkers
           q == NQueues
<1>1. n \in Int /\ n > 0 /\ q \in Int /\ q >= n /\ q \in Nat /\ n \in Nat \ {0} BY ActorsAssumption DEF ActorsAssumption
<1> HIDE DEF n, q
<1>2. q = n * (q \div n) + (q % n) BY <1>1, Quotient
<1>3. q \div n \in Nat /\ q % n \in 0 .. n - 1 BY <1>1
<1>4. q \div n # 0 BY <1>1, <1>2, <1>3
<1> QED BY <1>2, <1>3, <1>4 DEF n, q, Short, Longer

(* The product grows by a whole factor. *)
LEMMA ProductBound ==
  ASSUME NEW d \in Nat, NEW m \in Nat, NEW n \in Nat, m < n
  PROVE  m * d + d <= n * d
<1>1. PICK k \in Nat : n = m + 1 + k BY SMT
<1>2. n * d = m * d + d + k * d BY <1>1
<1>3. k * d \in Nat OBVIOUS
<1>4. m * d \in Nat /\ n * d \in Nat OBVIOUS
<1> QED BY <1>2, <1>3, <1>4

(* Ranges follow each other and end where the queues end. *)
LEMMA Ranges ==
  /\ \A w \in Workers : RangeOf(w) \in Nat \ {0} /\ Start(w) \in Nat /\ Start(w) + RangeOf(w) <= NQueues
  /\ \A v, w \in Workers : v < w => Start(v) + RangeOf(v) <= Start(w)
<1>1. Short \in Nat \ {0} /\ Longer \in Nat /\ Longer < NWorkers /\ NQueues = NWorkers * Short + Longer /\ NWorkers \in Nat /\ NQueues \in Nat
  BY Division, ActorsAssumption DEF ActorsAssumption
<1>2. \A w \in Workers : /\ w \in Nat /\ w < NWorkers
                         /\ w * Short \in Nat
                         /\ RangeOf(w) = Short + IF w < Longer THEN 1 ELSE 0
                         /\ Start(w) = w * Short + IF w < Longer THEN w ELSE Longer
  BY <1>1 DEF Workers, RangeOf, Start, Short, Longer
<1> HIDE DEF Short, Longer
<1>3. ASSUME NEW w \in Workers
      PROVE  RangeOf(w) \in Nat \ {0} /\ Start(w) \in Nat /\ Start(w) + RangeOf(w) <= NQueues
  <2>1. w * Short + Short <= NWorkers * Short BY <1>1, <1>2, ProductBound
  <2>2. w * Short \in Nat /\ NWorkers * Short \in Nat BY <1>1, <1>2
  <2> QED BY <1>1, <1>2, <2>1, <2>2
<1>4. ASSUME NEW v \in Workers, NEW w \in Workers, v < w
      PROVE  Start(v) + RangeOf(v) <= Start(w)
  <2>1. v * Short + Short <= w * Short BY <1>1, <1>2, <1>4, ProductBound
  <2>2. v * Short \in Nat /\ w * Short \in Nat BY <1>1, <1>2
  <2> QED BY <1>1, <1>2, <1>4, <2>1, <2>2
<1> QED BY <1>3, <1>4

(* No slot belongs to two workers, and the round of a worker stays in its range. *)
LEMMA OwnSlots ==
  /\ \A w \in Workers : Own(w) \subseteq Queues /\ Own(w) # {}
  /\ \A v, w \in Workers : \A k \in Own(v) : k \in Own(w) => v = w
  /\ \A w \in Workers : \A n \in Nat : Start(w) + (n % RangeOf(w)) \in Own(w)
<1>1. ASSUME NEW w \in Workers PROVE Own(w) \subseteq Queues /\ Own(w) # {}
  <2>1. Start(w) \in Own(w) BY Ranges DEF Own
  <2>2. NQueues \in Nat BY ActorsAssumption DEF ActorsAssumption
  <2> QED BY Ranges, <2>1, <2>2 DEF Own, Queues
<1>2. ASSUME NEW v \in Workers, NEW w \in Workers, NEW k \in Own(v), k \in Own(w), v # w PROVE FALSE
  <2>1. v < w \/ w < v BY <1>2, ActorsAssumption DEF ActorsAssumption, Workers
  <2> QED BY Ranges, <1>2, <2>1 DEF Own
<1>3. ASSUME NEW w \in Workers, NEW n \in Nat PROVE Start(w) + (n % RangeOf(w)) \in Own(w)
  <2>1. RangeOf(w) \in Nat \ {0} /\ Start(w) \in Nat BY Ranges
  <2>2. n % RangeOf(w) \in 0 .. RangeOf(w) - 1 BY <2>1
  <2> QED BY <2>1, <2>2 DEF Own
<1> QED BY <1>1, <1>2, <1>3

-----------------------------------------------------------------------------
(***************************************************************************)
(* The inductive invariant.                                                *)
(***************************************************************************)
Pcs == {"look", "check", "transfer", "serve", "receive", "choose", "busy", "mail", "mine", "theirs", "take",
        "give", "put", "undo", "gone"}

Swaps == [my_idx : Queues \cup {Null}, victim_idx : Queues \cup {Null}, tries : Nat,
          curr_steal_queue : Queues \cup {Null}, my_queue : Queues \cup {Null}, other_queue : Queues \cup {Null}]

TypeOK ==
  /\ slots \in [Queues -> Queues \cup {Null}]
  /\ inbox \in [Queues -> Seq(Messages)]
  /\ processed \in [Queues -> BOOLEAN]
  /\ ticket \in [Actors -> Queues \cup {Null}]
  /\ num_actors \in Int /\ permits \in Nat /\ step \in Nat
  /\ main \in {"script", "joining", "stopped"}
  /\ is_shutdown \in BOOLEAN /\ no_steal \in BOOLEAN
  /\ pc \in [Workers -> Pcs]
  /\ i \in [Workers -> Nat]
  /\ empty_count \in [Workers -> Nat]
  /\ curr \in [Workers -> Queues \cup {Null}]
  /\ gulp \in [Workers -> Seq(Messages)]
  /\ req \in [Workers -> Messages \cup {Null}]
  /\ sends \in [Workers -> Seq(Messages)]
  /\ swap \in [Workers -> Swaps]

\* A thief, from choose_queue to the end of try_swap_queues; one that has a
\* queue in its hand.
Thief(w) == pc[w] \in {"choose", "busy", "mail", "mine", "theirs", "take", "give", "put", "undo"}
Holding(w) == pc[w] \in {"give", "put", "undo"}

\* Worker's slots, the thief's slot and queues are what the steps take them for.
PlaceInv ==
  /\ \A w \in Workers : Slot(w) \in Own(w)
  /\ \A w \in Workers : Thief(w) =>
       /\ swap[w].my_idx \in Own(w)
       /\ \E v \in Workers : swap[w].victim_idx \in Own(v)
       /\ pc[w] \notin {"choose", "busy", "mail", "mine"} => swap[w].my_queue \in Queues
       /\ pc[w] \notin {"choose", "busy", "mail", "mine", "theirs"} => swap[w].other_queue \in Queues

\* Only a slot whose owner has its queue in the hand is empty.
EmptyInv ==
  \A w \in Workers : \A k \in Own(w) : slots[k] = Null <=> Holding(w) /\ k = swap[w].my_idx

\* Each queue is in one place.
OneSlot == \A k, l \in Queues : slots[k] = slots[l] /\ slots[k] # Null => k = l
OneHand == \A v, w \in Workers : \A q \in Queues : InHand(v, q) /\ InHand(w, q) => v = w
NotBoth == \A w \in Workers : \A q, k \in Queues : InHand(w, q) => slots[k] # q
Somewhere == \A q \in Queues : (\E k \in Queues : slots[k] = q) \/ \E w \in Workers : InHand(w, q)

\* The mark of a queue says that one worker has taken its requests over.
ServeInv ==
  /\ \A w \in Workers : pc[w] \in {"check", "transfer", "serve", "receive"} => curr[w] \in Queues
  /\ \A w \in Workers : pc[w] \notin {"serve", "receive"} => gulp[w] = <<>>
  /\ \A q \in Queues : processed[q] <=> \E w \in Workers : Serving(w, q)
  /\ \A q \in Queues : \A v, w \in Workers : Serving(v, q) /\ Serving(w, q) => v = w

Hands == EmptyInv /\ OneSlot /\ OneHand /\ NotBoth /\ Somewhere

IInv == TypeOK /\ PlaceInv /\ Hands /\ ServeInv

-----------------------------------------------------------------------------
(***************************************************************************)
(* Every state of a run is of its type, and the places stay what the steps *)
(* take them for.                                                          *)
(***************************************************************************)

(* The executor starts with each queue in its own slot. *)
LEMMA InitIInv == Init => IInv
<1> SUFFICES ASSUME Init PROVE IInv OBVIOUS
<1> USE ActorsAssumption DEF ActorsAssumption, Init
<1>1. TypeOK
  <2>1. NoSwap \in Swaps BY DEF NoSwap, Swaps
  <2>2. <<>> \in Seq(Messages) OBVIOUS
  <2>3. /\ slots \in [Queues -> Queues \cup {Null}]
        /\ inbox \in [Queues -> Seq(Messages)]
        /\ processed \in [Queues -> BOOLEAN]
        /\ ticket \in [Actors -> Queues \cup {Null}]
    BY <2>2
  <2>4. /\ num_actors \in Int /\ permits \in Nat /\ step \in Nat
        /\ main \in {"script", "joining", "stopped"}
    OBVIOUS
  <2>5. is_shutdown \in BOOLEAN /\ no_steal \in BOOLEAN BY Zenon
  <2>6. pc \in [Workers -> Pcs] /\ i \in [Workers -> Nat] /\ empty_count \in [Workers -> Nat]
    BY DEF Pcs
  <2>7. /\ curr \in [Workers -> Queues \cup {Null}]
        /\ gulp \in [Workers -> Seq(Messages)]
        /\ req \in [Workers -> Messages \cup {Null}]
        /\ sends \in [Workers -> Seq(Messages)]
        /\ swap \in [Workers -> Swaps]
    BY <2>1, <2>2
  <2> QED BY <2>3, <2>4, <2>5, <2>6, <2>7 DEF TypeOK
<1>2. PlaceInv
  <2>1. \A w \in Workers : Slot(w) \in Own(w) BY Ranges DEF Slot, Own
  <2> QED BY <2>1 DEF PlaceInv, Thief
<1>3. EmptyInv BY OwnSlots DEF EmptyInv, Holding
<1>4. OneSlot /\ OneHand /\ NotBoth /\ Somewhere BY DEF OneSlot, OneHand, NotBoth, Somewhere, InHand
<1>5. ServeInv BY DEF ServeInv, Serving
<1> QED BY <1>1, <1>2, <1>3, <1>4, <1>5 DEF IInv, Hands

(* A step that moves no worker, no queue and no request taken over changes *)
(* nothing but the type to look at. *)
LEMMA Frame ==
  ASSUME IInv, TypeOK', UNCHANGED <<slots, processed, pc, i, curr, gulp, swap>>
  PROVE  IInv'
<1>1. PlaceInv' BY DEF IInv, PlaceInv, Thief, Slot
<1>2. EmptyInv' BY DEF IInv, Hands, EmptyInv, Holding
<1>3. (OneSlot /\ OneHand /\ NotBoth /\ Somewhere)'
  BY DEF IInv, Hands, OneSlot, OneHand, NotBoth, Somewhere, InHand
<1>4. ServeInv' BY DEF IInv, ServeInv, Serving
<1> QED BY <1>1, <1>2, <1>3, <1>4 DEF IInv, Hands

(* A message is put at the end of a queue (or nowhere, for an actor that   *)
(* has none): the queues stay sequences of messages. *)
LEMMA InsertType ==
  ASSUME TypeOK, NEW m \in Messages, Insert(m)
  PROVE  inbox' \in [Queues -> Seq(Messages)]
<1> DEFINE q == ticket[To[m]]
<1>1. inbox \in [Queues -> Seq(Messages)] BY DEF TypeOK
<1>2. inbox' = [inbox EXCEPT ![q] = Append(inbox[q], m)] BY DEF Insert, Set
<1> HIDE DEF q
<1>3. CASE q \in Queues
  <2>1. Append(inbox[q], m) \in Seq(Messages) BY <1>1, <1>3
  <2> QED BY <1>1, <1>2, <1>3, <2>1
<1>4. CASE q \notin Queues BY <1>1, <1>2, <1>4
<1> QED BY <1>3, <1>4

(* The steps of Main.                                                      *)
LEMMA MainStep == ASSUME IInv, Main PROVE IInv'
<1> USE DEF IInv
<1>1. ASSUME NEW a \in Actors, MakeActor(a) PROVE IInv'
  <2>1. NQueues \in Nat \ {0} BY ActorsAssumption DEF ActorsAssumption
  <2> DEFINE n == Cardinality({b \in Actors : ticket[b] # Null})
  <2>2. n \in Nat BY FS_Subset, FS_CardinalityType, ActorsAssumption DEF ActorsAssumption
  <2> HIDE DEF n
  <2>3. n % NQueues \in Queues BY <2>1, <2>2 DEF Queues
  <2>4. ticket' = Set(ticket, a, n % NQueues) BY <1>1 DEF MakeActor, n
  <2>5. TypeOK' BY <1>1, <2>3, <2>4 DEF MakeActor, TypeOK, Set, queueVars, loopVars, reqVars
  <2> QED BY <1>1, <2>5, Frame DEF MakeActor, queueVars, loopVars, reqVars
<1>2. ASSUME NEW m \in Messages, SendMessage(m) PROVE IInv'
  <2>1. TypeOK' BY <1>2, InsertType DEF SendMessage, TypeOK, loopVars, reqVars
  <2> QED BY <1>2, <2>1, Frame DEF SendMessage, loopVars, reqVars
<1>3. ASSUME Stop \/ Join PROVE IInv'
  <2>1. CASE Stop
    <3>1. permits - 1 \in Nat BY <2>1 DEF Stop, TypeOK
    <3>2. TypeOK' BY <2>1, <3>1 DEF Stop, TypeOK, queueVars, loopVars, reqVars
    <3> QED BY <2>1, <3>2, Frame DEF Stop, queueVars, loopVars, reqVars
  <2>2. CASE Join
    <3>1. TypeOK' BY <2>2 DEF Join, TypeOK, queueVars, loopVars, reqVars
    <3> QED BY <2>2, <3>1, Frame DEF Join, queueVars, loopVars, reqVars
  <2> QED BY <1>3, <2>1, <2>2
<1> QED BY <1>1, <1>2, <1>3 DEF Main

-----------------------------------------------------------------------------
(***************************************************************************)
(* What the steps of a worker have in common.                              *)
(***************************************************************************)

Others(w) == Workers \ {w}

(* A worker that exchanges nothing before and after leaves slots and hands *)
(* as they are. *)
LEMMA HandsStill ==
  ASSUME TypeOK, Hands, NEW w \in Workers, NEW x, pc' = Set(pc, w, x), slots' = slots,
         pc[w] \notin {"give", "put", "undo"}, x \notin {"give", "put", "undo"},
         \A v \in Others(w) : swap'[v] = swap[v]
  PROVE  Hands'
<1>1. \A v \in Others(w) : pc'[v] = pc[v] BY DEF Others, Set, TypeOK
<1>2. pc'[w] = x BY DEF Set, TypeOK
<1>3. \A v \in Workers : /\ Holding(v)' <=> Holding(v)
                         /\ Holding(v) => swap'[v] = swap[v]
  BY <1>1, <1>2 DEF Holding, Others
<1>4. \A v \in Workers : \A q \in Queues : InHand(v, q)' <=> InHand(v, q)
  BY <1>1, <1>2 DEF InHand, Others
<1>5. EmptyInv' BY <1>3 DEF Hands, EmptyInv
<1>6. OneSlot' BY DEF Hands, OneSlot
<1>7. OneHand' BY <1>4 DEF Hands, OneHand
<1>8. NotBoth' BY <1>4 DEF Hands, NotBoth
<1>9. Somewhere' BY <1>4 DEF Hands, Somewhere
<1> QED BY <1>5, <1>6, <1>7, <1>8, <1>9 DEF Hands

(* A worker that serves no queue before and after leaves the marks right. *)
LEMMA ServingStill ==
  ASSUME TypeOK, ServeInv, NEW w \in Workers, NEW x, pc' = Set(pc, w, x),
         UNCHANGED <<processed, gulp>>,
         pc[w] \notin {"serve", "receive"}, x \notin {"serve", "receive"},
         \A v \in Others(w) : curr'[v] = curr[v],
         x \in {"check", "transfer"} => curr'[w] \in Queues
  PROVE  ServeInv'
<1>1. \A v \in Others(w) : pc'[v] = pc[v] BY DEF Others, Set, TypeOK
<1>2. pc'[w] = x BY DEF Set, TypeOK
<1>3. \A v \in Workers : \A q \in Queues : Serving(v, q)' <=> Serving(v, q)
  BY <1>1, <1>2 DEF Serving, Others
<1>4. \A v \in Workers : pc'[v] \in {"check", "transfer", "serve", "receive"} => curr'[v] \in Queues
  BY <1>1, <1>2 DEF ServeInv, Others
<1>5. \A v \in Workers : pc'[v] \notin {"serve", "receive"} => gulp'[v] = <<>>
  BY <1>1, <1>2 DEF ServeInv, Others
<1>6. \A q \in Queues : processed'[q] <=> \E v \in Workers : Serving(v, q)'
  BY <1>3 DEF ServeInv
<1>7. \A q \in Queues : \A u, v \in Workers : Serving(u, q)' /\ Serving(v, q)' => u = v
  BY <1>3 DEF ServeInv
<1> QED BY <1>4, <1>5, <1>6, <1>7 DEF ServeInv

(* A worker that is no thief afterwards and is at a slot of its own keeps *)
(* all to their places. *)
LEMMA PlacesStill ==
  ASSUME TypeOK, PlaceInv, NEW w \in Workers, NEW x, pc' = Set(pc, w, x),
         x \notin {"choose", "busy", "mail", "mine", "theirs", "take", "give", "put", "undo"},
         \A v \in Others(w) : i'[v] = i[v] /\ swap'[v] = swap[v],
         Slot(w)' \in Own(w)
  PROVE  PlaceInv'
<1>1. \A v \in Others(w) : pc'[v] = pc[v] BY DEF Others, Set, TypeOK
<1>2. pc'[w] = x BY DEF Set, TypeOK
<1>3. \A v \in Others(w) : Slot(v)' = Slot(v) BY DEF Slot
<1>4. \A v \in Workers : Slot(v)' \in Own(v) BY <1>3 DEF PlaceInv, Others
<1>5. \A v \in Workers : Thief(v)' => v \in Others(w) /\ Thief(v) BY <1>1, <1>2 DEF Thief, Others
<1> QED BY <1>1, <1>4, <1>5 DEF PlaceInv, Others

(* On to the next slot: it is one of the worker's own. *)
LEMMA ContinueFacts ==
  ASSUME TypeOK, NEW w \in Workers, Continue(w)
  PROVE  /\ pc' = Set(pc, w, "look")
         /\ i' \in [Workers -> Nat] /\ \A v \in Others(w) : i'[v] = i[v]
         /\ Slot(w)' \in Own(w)
         /\ curr' = Set(curr, w, Null)
<1>1. RangeOf(w) \in Nat \ {0} BY Ranges
<1>2. i[w] + 1 \in Nat BY DEF TypeOK
<1>3. (i[w] + 1) % RangeOf(w) \in Nat BY <1>1, <1>2
<1>4. i' = [i EXCEPT ![w] = (i[w] + 1) % RangeOf(w)] BY DEF Continue, Set
<1>5. i' \in [Workers -> Nat] /\ \A v \in Others(w) : i'[v] = i[v] BY <1>3, <1>4 DEF TypeOK, Others
<1>6. i'[w] = (i[w] + 1) % RangeOf(w) BY <1>4 DEF TypeOK
<1>7. Slot(w)' \in Own(w) BY <1>2, <1>6, OwnSlots DEF Slot
<1> QED BY <1>5, <1>7 DEF Continue, Goto

-----------------------------------------------------------------------------
(***************************************************************************)
(* The loop of a worker.                                                   *)
(***************************************************************************)

(* The worker comes to a slot of its own while it holds no queue, so it    *)
(* finds one there. *)
LEMMA LookStep == ASSUME IInv, NEW w \in Workers, Look(w) PROVE IInv'
<1> USE DEF IInv
<1>1. /\ pc[w] = "look" /\ pc' = Set(pc, w, "check")
      /\ curr' = Set(curr, w, slots[Slot(w)])
      /\ UNCHANGED <<sysVars, queueVars, i, empty_count, gulp, reqVars, swap>>
  BY DEF Look, Goto
<1>2. slots[Slot(w)] \in Queues
  <2>1. Slot(w) \in Own(w) BY DEF PlaceInv
  <2>2. Slot(w) \in Queues BY <2>1, OwnSlots
  <2>3. slots[Slot(w)] # Null BY <1>1, <2>1 DEF Hands, EmptyInv, Holding
  <2> QED BY <2>2, <2>3 DEF TypeOK
<1>3. TypeOK' BY <1>1, <1>2 DEF TypeOK, Set, Pcs, sysVars, queueVars, reqVars
<1>4. Slot(w)' \in Own(w) BY <1>1 DEF Slot, PlaceInv
<1>5. PlaceInv' BY <1>1, <1>4, PlacesStill
<1>6. Hands' BY <1>1, HandsStill DEF queueVars
<1>7. \A v \in Others(w) : curr'[v] = curr[v] BY <1>1 DEF Set, TypeOK, Others
<1>8. curr'[w] \in Queues BY <1>1, <1>2 DEF Set, TypeOK
<1>9. ServeInv' BY <1>1, <1>7, <1>8, ServingStill DEF queueVars
<1> QED BY <1>3, <1>5, <1>6, <1>9

(* One more empty queue is counted, or none. *)
LEMMA MissedType ==
  ASSUME TypeOK, NEW w \in Workers, Missed(w)
  PROVE  empty_count' \in [Workers -> Nat]
BY DEF Missed, TypeOK, Set

(* A worker that holds nothing, serves nothing and goes on or ends. *)
LEMMA GoOn ==
  ASSUME IInv, NEW w \in Workers, Continue(w) \/ Remain(w, "gone"),
         pc[w] \in {"check", "transfer", "choose", "busy", "mail", "mine", "theirs", "take"},
         UNCHANGED <<slots, processed, gulp>>,
         \A v \in Others(w) : swap'[v] = swap[v]
  PROVE  /\ pc' \in [Workers -> Pcs] /\ i' \in [Workers -> Nat]
         /\ curr' \in [Workers -> Queues \cup {Null}]
         /\ PlaceInv' /\ Hands' /\ ServeInv'
<1> USE DEF IInv
<1>1. CASE Continue(w)
  <2>1. Continue(w) BY <1>1
  <2>2. PlaceInv' BY <2>1, ContinueFacts, PlacesStill
  <2>3. Hands' BY <2>1, ContinueFacts, HandsStill
  <2>4. \A v \in Others(w) : curr'[v] = curr[v] BY <2>1, ContinueFacts DEF Set, TypeOK, Others
  <2>5. ServeInv' BY <2>1, <2>4, ContinueFacts, ServingStill
  <2>6. pc' \in [Workers -> Pcs] /\ curr' \in [Workers -> Queues \cup {Null}]
    BY <2>1, ContinueFacts DEF Set, TypeOK, Pcs
  <2> QED BY <2>1, <2>2, <2>3, <2>5, <2>6, ContinueFacts
<1>2. CASE Remain(w, "gone")
  <2>1. pc' = Set(pc, w, "gone") /\ UNCHANGED <<i, curr>> BY <1>2 DEF Remain, Goto
  <2>2. Slot(w)' \in Own(w) BY <2>1 DEF PlaceInv, Slot
  <2>3. PlaceInv' BY <2>1, <2>2, PlacesStill
  <2>4. Hands' BY <2>1, HandsStill
  <2>5. ServeInv' BY <2>1, ServingStill
  <2>6. pc' \in [Workers -> Pcs] /\ i' \in [Workers -> Nat] /\ curr' \in [Workers -> Queues \cup {Null}]
    BY <2>1 DEF Set, TypeOK, Pcs
  <2> QED BY <2>3, <2>4, <2>5, <2>6
<1> QED BY <1>1, <1>2

(* The worker passes over a queue that looks empty, or goes on to take it. *)
LEMMA CheckStep == ASSUME IInv, NEW w \in Workers, Check(w) PROVE IInv'
<1> USE DEF IInv
<1>1. /\ pc[w] = "check" /\ (Continue(w) \/ Remain(w, "transfer"))
      /\ Missed(w) \/ UNCHANGED empty_count
      /\ UNCHANGED <<sysVars, queueVars, gulp, reqVars, swap>>
  BY DEF Check
<1>2. empty_count' \in [Workers -> Nat] BY <1>1, MissedType DEF TypeOK
<1>3. /\ pc' \in [Workers -> Pcs] /\ i' \in [Workers -> Nat]
      /\ curr' \in [Workers -> Queues \cup {Null}]
      /\ PlaceInv' /\ Hands' /\ ServeInv'
  <2>1. CASE Continue(w) BY <1>1, <2>1, GoOn DEF queueVars, Others
  <2>2. CASE Remain(w, "transfer")
    <3>1. pc' = Set(pc, w, "transfer") /\ UNCHANGED <<i, curr>> BY <2>2 DEF Remain, Goto
    <3>2. Slot(w)' \in Own(w) BY <3>1 DEF PlaceInv, Slot
    <3>3. PlaceInv' BY <1>1, <3>1, <3>2, PlacesStill
    <3>4. Hands' BY <1>1, <3>1, HandsStill DEF queueVars
    <3>5. curr'[w] \in Queues BY <1>1, <3>1 DEF ServeInv
    <3>6. ServeInv' BY <1>1, <3>1, <3>5, ServingStill DEF queueVars
    <3>7. pc' \in [Workers -> Pcs] /\ i' \in [Workers -> Nat] /\ curr' \in [Workers -> Queues \cup {Null}]
      BY <3>1 DEF Set, TypeOK, Pcs
    <3> QED BY <3>3, <3>4, <3>6, <3>7
  <2> QED BY <1>1, <2>1, <2>2
<1>4. TypeOK' BY <1>1, <1>2, <1>3 DEF TypeOK, sysVars, queueVars, reqVars
<1> QED BY <1>3, <1>4

(* transfer keeps requests in sequences; a worker that comes with an empty *)
(* queue and goes with one has changed no mark. *)
LEMMA TransferFacts ==
  ASSUME IInv, NEW w \in Workers, pc[w] = "transfer", Transfer(w)
  PROVE  /\ curr[w] \in Queues
         /\ inbox' \in [Queues -> Seq(Messages)] /\ gulp' \in [Workers -> Seq(Messages)]
         /\ processed' \in [Queues -> BOOLEAN]
         /\ \A v \in Others(w) : gulp'[v] = gulp[v]
         /\ gulp'[w] = <<>> => UNCHANGED <<processed, gulp>>
         /\ gulp'[w] # <<>> => ~processed[curr[w]] /\ processed' = Set(processed, curr[w], TRUE)
<1> DEFINE q == curr[w]
<1>1. q \in Queues /\ gulp[w] = <<>> BY DEF IInv, ServeInv
<1>2. /\ inbox \in [Queues -> Seq(Messages)] /\ gulp \in [Workers -> Seq(Messages)]
      /\ processed \in [Queues -> BOOLEAN]
  BY DEF IInv, TypeOK
<1>3. \/ processed[q] /\ UNCHANGED <<inbox, gulp, processed>>
      \/ /\ ~processed[q]
         /\ inbox' = [inbox EXCEPT ![q] = gulp[w]]
         /\ gulp' = [gulp EXCEPT ![w] = inbox[q]]
         /\ processed' = [processed EXCEPT ![q] = (inbox[q] # <<>>)]
  BY DEF Transfer, Set
<1> HIDE DEF q
<1>4. CASE processed[q] /\ UNCHANGED <<inbox, gulp, processed>> BY <1>1, <1>2, <1>4 DEF q
<1>5. CASE /\ ~processed[q]
           /\ inbox' = [inbox EXCEPT ![q] = gulp[w]]
           /\ gulp' = [gulp EXCEPT ![w] = inbox[q]]
           /\ processed' = [processed EXCEPT ![q] = (inbox[q] # <<>>)]
  <2>1. inbox' \in [Queues -> Seq(Messages)] /\ gulp' \in [Workers -> Seq(Messages)]
        /\ gulp'[w] = inbox[q] /\ \A v \in Others(w) : gulp'[v] = gulp[v]
    BY <1>1, <1>2, <1>5 DEF Others
  <2>2. processed' \in [Queues -> BOOLEAN] BY <1>1, <1>2, <1>5
  <2>3. ASSUME gulp'[w] = <<>> PROVE processed' = processed /\ gulp' = gulp
    <3>1. inbox[q] = <<>> BY <2>1, <2>3
    <3>2. gulp' = gulp BY <1>1, <1>2, <1>5, <3>1
    <3>3. processed' = [processed EXCEPT ![q] = FALSE] BY <1>5, <3>1
    <3>4. processed[q] = FALSE BY <1>1, <1>2, <1>5
    <3>5. processed' = processed BY <1>1, <1>2, <3>3, <3>4
    <3> QED BY <3>2, <3>5
  <2>4. ASSUME gulp'[w] # <<>> PROVE processed' = [processed EXCEPT ![q] = TRUE]
    <3>1. (inbox[q] # <<>>) = TRUE BY <2>1, <2>4
    <3> QED BY <1>5, <3>1
  <2> QED BY <1>1, <1>5, <2>1, <2>2, <2>3, <2>4 DEF q, Set
<1> QED BY <1>3, <1>4, <1>5

(* A queue is taken over: the worker serves it, and nobody else does. *)
LEMMA GulpStep == ASSUME IInv, NEW w \in Workers, Gulp(w) PROVE IInv'
<1> USE DEF IInv
<1> DEFINE q == curr[w]
<1>1. /\ pc[w] = "transfer" /\ Transfer(w) /\ gulp'[w] # <<>>
      /\ pc' = Set(pc, w, "serve")
      /\ UNCHANGED <<sysVars, slots, i, empty_count, curr, reqVars, swap>>
  BY DEF Gulp, Goto
<1>2. /\ q \in Queues
      /\ inbox' \in [Queues -> Seq(Messages)] /\ gulp' \in [Workers -> Seq(Messages)]
      /\ processed' \in [Queues -> BOOLEAN]
      /\ \A v \in Others(w) : gulp'[v] = gulp[v]
      /\ ~processed[q] /\ processed' = [processed EXCEPT ![q] = TRUE]
  BY <1>1, TransferFacts DEF Set
<1>3. TypeOK' BY <1>1, <1>2 DEF TypeOK, Set, Pcs, sysVars, reqVars
<1>4. Slot(w)' \in Own(w) BY <1>1 DEF Slot, PlaceInv
<1>5. PlaceInv' BY <1>1, <1>4, PlacesStill
<1>6. Hands' BY <1>1, HandsStill
<1>7. ServeInv'
  <2>1. pc'[w] = "serve" /\ \A v \in Others(w) : pc'[v] = pc[v] BY <1>1 DEF Set, TypeOK, Others
  <2>2. \A v \in Workers : ~Serving(v, q) BY <1>2 DEF ServeInv
  <2>3. ~\E r \in Queues : Serving(w, r) BY <1>1 DEF Serving
  <2>4. \A v \in Workers : \A r \in Queues : Serving(v, r)' <=> (Serving(v, r) \/ (v = w /\ r = q))
    BY <1>1, <2>1, <2>3 DEF Serving, Others
  <2>5. \A r \in Queues : processed'[r] <=> (processed[r] \/ r = q) BY <1>2 DEF TypeOK
  <2>6. \A r \in Queues : processed'[r] <=> \E v \in Workers : Serving(v, r)'
    BY <2>4, <2>5 DEF ServeInv
  <2>7. \A r \in Queues : \A u, v \in Workers : Serving(u, r)' /\ Serving(v, r)' => u = v
    BY <2>2, <2>3, <2>4 DEF ServeInv
  <2>8. \A v \in Workers : pc'[v] \in {"check", "transfer", "serve", "receive"} => curr'[v] \in Queues
    BY <1>1, <1>2, <2>1 DEF ServeInv, Others
  <2>9. \A v \in Workers : pc'[v] \notin {"serve", "receive"} => gulp'[v] = <<>>
    BY <1>2, <2>1 DEF ServeInv, Others
  <2> QED BY <2>6, <2>7, <2>8, <2>9 DEF ServeInv
<1> QED BY <1>3, <1>5, <1>6, <1>7

(* Nothing was taken over: the marks are as they were, the worker goes on. *)
LEMMA GulpNothingStep == ASSUME IInv, NEW w \in Workers, GulpNothing(w) PROVE IInv'
<1> USE DEF IInv
<1>1. /\ pc[w] = "transfer" /\ Transfer(w) /\ gulp'[w] = <<>>
      /\ Continue(w) \/ Remain(w, "gone")
      /\ Missed(w) \/ UNCHANGED empty_count
      /\ UNCHANGED <<sysVars, slots, reqVars, swap>>
  BY DEF GulpNothing, ContinueOrExit
<1>2. /\ inbox' \in [Queues -> Seq(Messages)] /\ gulp' \in [Workers -> Seq(Messages)]
      /\ processed' \in [Queues -> BOOLEAN]
      /\ UNCHANGED <<processed, gulp>>
  BY <1>1, TransferFacts
<1>3. empty_count' \in [Workers -> Nat] BY <1>1, MissedType DEF TypeOK
<1>4. /\ pc' \in [Workers -> Pcs] /\ i' \in [Workers -> Nat]
      /\ curr' \in [Workers -> Queues \cup {Null}]
      /\ PlaceInv' /\ Hands' /\ ServeInv'
  BY <1>1, <1>2, GoOn DEF Others
<1>5. TypeOK' BY <1>1, <1>2, <1>3, <1>4 DEF TypeOK, sysVars, reqVars
<1> QED BY <1>4, <1>5

(* The thief sets out with a slot of its own and one of its victim. *)
LEMMA GoStealingStep == ASSUME IInv, NEW w \in Workers, GoStealing(w) PROVE IInv'
<1> USE DEF IInv
<1>1. /\ pc[w] = "transfer" /\ Transfer(w) /\ gulp'[w] = <<>>
      /\ empty_count' = Set(empty_count, w, 0) /\ curr' = Set(curr, w, Null)
      /\ UNCHANGED <<sysVars, slots, i, reqVars>>
      /\ \/ pc' = Set(pc, w, "gone") /\ UNCHANGED swap
         \/ /\ pc' = Set(pc, w, "choose")
            /\ \E v \in Workers : \E k \in Own(w), l \in Own(v) :
                 swap' = Set(swap, w, [NoSwap EXCEPT !.my_idx = k, !.victim_idx = l])
  BY DEF GoStealing, Goto
<1>2. /\ inbox' \in [Queues -> Seq(Messages)] /\ UNCHANGED <<processed, gulp>>
  BY <1>1, TransferFacts
<1>3. \A v \in Others(w) : curr'[v] = curr[v] /\ swap'[v] = swap[v]
  BY <1>1 DEF Set, TypeOK, Others
<1>4. curr' \in [Workers -> Queues \cup {Null}] /\ empty_count' \in [Workers -> Nat]
  BY <1>1 DEF Set, TypeOK
<1>5. Slot(w)' \in Own(w) BY <1>1 DEF Slot, PlaceInv
<1>6. CASE pc' = Set(pc, w, "gone") /\ UNCHANGED swap
  <2>1. TypeOK' BY <1>1, <1>2, <1>4, <1>6 DEF TypeOK, Set, Pcs, sysVars, reqVars
  <2>2. PlaceInv' BY <1>1, <1>3, <1>5, <1>6, PlacesStill
  <2>3. Hands' BY <1>1, <1>3, <1>6, HandsStill
  <2>4. ServeInv' BY <1>1, <1>2, <1>3, <1>6, ServingStill
  <2> QED BY <2>1, <2>2, <2>3, <2>4
<1>7. ASSUME NEW v \in Workers, NEW k \in Own(w), NEW l \in Own(v),
             pc' = Set(pc, w, "choose"),
             swap' = Set(swap, w, [NoSwap EXCEPT !.my_idx = k, !.victim_idx = l])
      PROVE  IInv'
  <2>1. k \in Queues /\ l \in Queues BY OwnSlots
  <2>2. pc'[w] = "choose" /\ swap'[w].my_idx = k /\ swap'[w].victim_idx = l
    BY <1>7 DEF Set, TypeOK, NoSwap
  <2>3. [NoSwap EXCEPT !.my_idx = k, !.victim_idx = l] \in Swaps BY <2>1 DEF NoSwap, Swaps
  <2>4. TypeOK' BY <1>1, <1>2, <1>4, <1>7, <2>3 DEF TypeOK, Set, Pcs, sysVars, reqVars
  <2>5. PlaceInv'
    <3>1. \A u \in Others(w) : pc'[u] = pc[u] BY <1>7 DEF Set, TypeOK, Others
    <3>2. \A u \in Workers : Slot(u)' \in Own(u) BY <1>1 DEF PlaceInv, Slot
    <3>3. \A u \in Others(w) : Thief(u)' <=> Thief(u) BY <3>1 DEF Thief
    <3>4. \A u \in Others(w) : Thief(u)' =>
             /\ swap'[u].my_idx \in Own(u)
             /\ \E t \in Workers : swap'[u].victim_idx \in Own(t)
             /\ pc'[u] \notin {"choose", "busy", "mail", "mine"} => swap'[u].my_queue \in Queues
             /\ pc'[u] \notin {"choose", "busy", "mail", "mine", "theirs"} => swap'[u].other_queue \in Queues
      BY <1>3, <3>1, <3>3 DEF PlaceInv, Others
    <3>5. /\ swap'[w].my_idx \in Own(w)
          /\ \E t \in Workers : swap'[w].victim_idx \in Own(t)
      BY <2>2
    <3> QED BY <2>2, <3>2, <3>4, <3>5 DEF PlaceInv, Others
  <2>6. Hands' BY <1>1, <1>3, <1>7, HandsStill
  <2>7. pc' = Set(pc, w, "choose") BY <1>7
  <2>8. ServeInv'
    <3>1. pc[w] = "transfer" /\ UNCHANGED <<processed, gulp>> BY <1>1, <1>2
    <3>2. \A u \in Others(w) : curr'[u] = curr[u] BY <1>3
    <3>3. TypeOK /\ ServeInv OBVIOUS
    <3> HIDE DEF IInv
    <3> QED BY <2>7, <3>1, <3>2, <3>3, ServingStill
  <2> QED BY <2>4, <2>5, <2>6, <2>8
<1> QED BY <1>1, <1>6, <1>7

(* A request is delivered from what the worker has taken over. *)
LEMMA DeliverStep == ASSUME IInv, NEW w \in Workers, Deliver(w) PROVE IInv'
<1> USE DEF IInv
<1>1. /\ pc[w] = "serve" /\ gulp[w] # <<>>
      /\ req' = Set(req, w, Head(gulp[w]))
      /\ sends' = Set(sends, w, Reaction[Head(gulp[w])])
      /\ gulp' = Set(gulp, w, Tail(gulp[w]))
      /\ pc' = Set(pc, w, "receive")
      /\ UNCHANGED <<sysVars, queueVars, i, empty_count, curr, swap>>
  BY DEF Deliver, Goto
<1>2. Head(gulp[w]) \in Messages /\ Tail(gulp[w]) \in Seq(Messages) BY <1>1 DEF TypeOK
<1>3. Reaction[Head(gulp[w])] \in Seq(Messages) BY <1>2, ActorsAssumption DEF ActorsAssumption
<1>4. TypeOK' BY <1>1, <1>2, <1>3 DEF TypeOK, Set, Pcs, sysVars, queueVars
<1>5. Slot(w)' \in Own(w) BY <1>1 DEF Slot, PlaceInv
<1>6. PlaceInv' BY <1>1, <1>5, PlacesStill
<1>7. Hands' BY <1>1, HandsStill DEF queueVars
<1>8. ServeInv'
  <2>1. pc'[w] = "receive" /\ \A v \in Others(w) : pc'[v] = pc[v] /\ gulp'[v] = gulp[v]
    BY <1>1 DEF Set, TypeOK, Others
  <2>2. \A v \in Workers : \A q \in Queues : Serving(v, q)' <=> Serving(v, q)
    BY <1>1, <2>1 DEF Serving, Others
  <2> QED BY <1>1, <2>1, <2>2 DEF ServeInv, queueVars, Others
<1> QED BY <1>4, <1>6, <1>7, <1>8

(* The receiver sends, and returns. *)
LEMMA ReceiverStep == ASSUME IInv, NEW w \in Workers, ReceiverSends(w) \/ Received(w) PROVE IInv'
<1> USE DEF IInv
<1>1. CASE ReceiverSends(w)
  <2>1. /\ sends[w] # <<>> /\ Insert(Head(sends[w]))
        /\ sends' = Set(sends, w, Tail(sends[w]))
        /\ UNCHANGED <<sysVars, slots, processed, pc, loopVars, req, swap>>
    BY <1>1 DEF ReceiverSends
  <2>2. Head(sends[w]) \in Messages /\ Tail(sends[w]) \in Seq(Messages) BY <2>1 DEF TypeOK
  <2>3. inbox' \in [Queues -> Seq(Messages)] BY <2>1, <2>2, InsertType
  <2>4. TypeOK' BY <2>1, <2>2, <2>3 DEF TypeOK, Set, sysVars, loopVars
  <2> QED BY <2>1, <2>4, Frame DEF loopVars
<1>2. CASE Received(w)
  <2>1. /\ pc[w] = "receive" /\ pc' = Set(pc, w, "serve")
        /\ CheckActor(req[w]) /\ req' = Set(req, w, Null)
        /\ UNCHANGED <<ticket, main, step, is_shutdown, no_steal, queueVars, loopVars, sends, swap>>
    BY <1>2 DEF Received, Goto
  <2>2. num_actors' \in Int /\ permits' \in Nat BY <2>1 DEF CheckActor, TypeOK
  <2>3. TypeOK' BY <2>1, <2>2 DEF TypeOK, Set, Pcs, queueVars, loopVars
  <2>4. Slot(w)' \in Own(w) BY <2>1 DEF Slot, PlaceInv, loopVars
  <2>5. PlaceInv' BY <2>1, <2>4, PlacesStill DEF loopVars
  <2>6. Hands' BY <2>1, HandsStill DEF queueVars
  <2>7. pc'[w] = "serve" /\ \A v \in Others(w) : pc'[v] = pc[v] BY <2>1 DEF Set, TypeOK, Others
  <2>8. \A v \in Workers : \A q \in Queues : Serving(v, q)' <=> Serving(v, q)
    BY <2>1, <2>7 DEF Serving, Others, loopVars
  <2>9. ServeInv' BY <2>1, <2>7, <2>8 DEF ServeInv, queueVars, loopVars, Others
  <2> QED BY <2>3, <2>5, <2>6, <2>9
<1> QED BY <1>1, <1>2

(* The worker has served all and clears the mark of its queue. *)
LEMMA ServedStep == ASSUME IInv, NEW w \in Workers, Served(w) PROVE IInv'
<1> USE DEF IInv
<1> DEFINE q == curr[w]
<1>1. /\ pc[w] = "serve" /\ gulp[w] = <<>>
      /\ processed' = Set(processed, q, FALSE)
      /\ empty_count' = Set(empty_count, w, 0)
      /\ Continue(w) \/ Remain(w, "gone")
      /\ UNCHANGED <<sysVars, slots, inbox, gulp, reqVars, swap>>
  BY DEF Served, ContinueOrExit
<1>2. PICK x \in {"look", "gone"} :
        /\ pc' = Set(pc, w, x)
        /\ i' \in [Workers -> Nat] /\ \A v \in Others(w) : i'[v] = i[v]
        /\ Slot(w)' \in Own(w)
        /\ curr' \in [Workers -> Queues \cup {Null}] /\ \A v \in Others(w) : curr'[v] = curr[v]
  <2>1. CASE Continue(w) BY <2>1, ContinueFacts DEF Set, TypeOK, Others
  <2>2. CASE Remain(w, "gone")
    <3>1. pc' = Set(pc, w, "gone") /\ UNCHANGED <<i, curr>> BY <2>2 DEF Remain, Goto
    <3>2. Slot(w)' \in Own(w) BY <3>1 DEF PlaceInv, Slot
    <3> QED BY <3>1, <3>2 DEF TypeOK
  <2> QED BY <1>1, <2>1, <2>2
<1>3. TypeOK' BY <1>1, <1>2 DEF TypeOK, Set, Pcs, sysVars, reqVars
<1>4. PlaceInv' BY <1>1, <1>2, PlacesStill
<1>5. Hands' BY <1>1, <1>2, HandsStill
<1>6. ServeInv'
  <2>1. pc'[w] = x /\ \A v \in Others(w) : pc'[v] = pc[v] BY <1>2 DEF Set, TypeOK, Others
  <2>2. q \in Queues /\ Serving(w, q) BY <1>1 DEF ServeInv, Serving
  <2>3. \A v \in Workers : \A r \in Queues : Serving(v, r)' <=> (Serving(v, r) /\ v # w)
    BY <1>2, <2>1 DEF Serving, Others
  <2>4. \A r \in Queues : processed'[r] <=> (processed[r] /\ r # q) BY <1>1 DEF TypeOK, Set
  <2>5. \A r \in Queues : Serving(w, r) => r = q BY DEF Serving
  <2>6. \A r \in Queues : processed'[r] <=> \E v \in Workers : Serving(v, r)'
    BY <2>2, <2>3, <2>4, <2>5 DEF ServeInv
  <2>7. \A r \in Queues : \A u, v \in Workers : Serving(u, r)' /\ Serving(v, r)' => u = v
    BY <2>3 DEF ServeInv
  <2>8. \A v \in Workers : pc'[v] \in {"check", "transfer", "serve", "receive"} => curr'[v] \in Queues
    BY <1>2, <2>1 DEF ServeInv, Others
  <2>9. \A v \in Workers : pc'[v] \notin {"serve", "receive"} => gulp'[v] = <<>>
    BY <1>1, <2>1 DEF ServeInv, Others
  <2> QED BY <2>6, <2>7, <2>8, <2>9 DEF ServeInv
<1> QED BY <1>3, <1>4, <1>5, <1>6

-----------------------------------------------------------------------------
(***************************************************************************)
(* Stealing.                                                               *)
(***************************************************************************)

(* A thief that goes on keeps its places. *)
LEMMA ThiefPlaces ==
  ASSUME TypeOK, PlaceInv, NEW w \in Workers, NEW x, pc' = Set(pc, w, x), i' = i,
         \A v \in Others(w) : swap'[v] = swap[v],
         swap'[w].my_idx \in Own(w),
         \E v \in Workers : swap'[w].victim_idx \in Own(v),
         x \notin {"choose", "busy", "mail", "mine"} => swap'[w].my_queue \in Queues,
         x \notin {"choose", "busy", "mail", "mine", "theirs"} => swap'[w].other_queue \in Queues
  PROVE  PlaceInv'
<1>1. pc'[w] = x /\ \A v \in Others(w) : pc'[v] = pc[v] BY DEF Set, TypeOK, Others
<1>2. \A v \in Workers : Slot(v)' \in Own(v) BY DEF PlaceInv, Slot
<1>3. \A v \in Others(w) : Thief(v)' =>
         /\ swap'[v].my_idx \in Own(v)
         /\ \E u \in Workers : swap'[v].victim_idx \in Own(u)
         /\ pc'[v] \notin {"choose", "busy", "mail", "mine"} => swap'[v].my_queue \in Queues
         /\ pc'[v] \notin {"choose", "busy", "mail", "mine", "theirs"} => swap'[v].other_queue \in Queues
  BY <1>1 DEF PlaceInv, Thief, Others
<1> QED BY <1>1, <1>2, <1>3 DEF PlaceInv, Others

(* Stealing ends without a queue in the hand. *)
LEMMA ReturnStep ==
  ASSUME IInv, NEW w \in Workers, Return(w), pc[w] \in {"choose", "busy", "mail", "theirs", "take"},
         UNCHANGED <<sysVars, queueVars, empty_count, gulp, reqVars>>
  PROVE  IInv'
<1> USE DEF IInv
<1>1. Continue(w) /\ swap' = Set(swap, w, NoSwap) BY DEF Return
<1>2. \A v \in Others(w) : swap'[v] = swap[v] BY <1>1 DEF Set, TypeOK, Others
<1>3. /\ pc' \in [Workers -> Pcs] /\ i' \in [Workers -> Nat]
      /\ curr' \in [Workers -> Queues \cup {Null}]
      /\ PlaceInv' /\ Hands' /\ ServeInv'
  BY <1>1, <1>2, GoOn DEF queueVars
<1>4. NoSwap \in Swaps BY DEF NoSwap, Swaps
<1>5. swap' \in [Workers -> Swaps] BY <1>1, <1>4 DEF Set, TypeOK
<1>6. TypeOK' BY <1>3, <1>5 DEF TypeOK, sysVars, queueVars, reqVars
<1> QED BY <1>3, <1>6

(* choose_queue goes round in the range of its victim. *)
LEMMA NextChoiceStep ==
  ASSUME IInv, NEW w \in Workers, NextChoice(w), pc[w] \in {"choose", "busy", "mail"},
         UNCHANGED <<sysVars, queueVars, empty_count, gulp, reqVars>>
  PROVE  IInv'
<1> USE DEF IInv
<1> DEFINE k == swap[w].victim_idx
           v == CHOOSE u \in Workers : k \in Own(u)
           next == Start(v) + ((k - Start(v) + 1) % RangeOf(v))
<1>1. \/ Return(w)
      \/ /\ swap' = [swap EXCEPT ![w].tries = @ + 1, ![w].curr_steal_queue = Null, ![w].victim_idx = next]
         /\ Remain(w, "choose")
  BY DEF NextChoice
<1>2. swap[w].my_idx \in Own(w) /\ \E u \in Workers : k \in Own(u) BY DEF PlaceInv, Thief
<1>3. v \in Workers /\ k \in Own(v) BY <1>2
<1> HIDE DEF v
<1>4. next \in Own(v) /\ next \in Queues
  <2>1. k - Start(v) + 1 \in Nat BY <1>3, Ranges DEF Own
  <2> QED BY <1>3, <2>1, OwnSlots
<1> HIDE DEF next, k
<1>5. CASE Return(w) BY <1>5, ReturnStep
<1>6. CASE /\ swap' = [swap EXCEPT ![w].tries = @ + 1, ![w].curr_steal_queue = Null, ![w].victim_idx = next]
           /\ Remain(w, "choose")
  <2>1. swap[w] \in Swaps BY DEF TypeOK
  <2>2. [swap[w] EXCEPT !.tries = swap[w].tries + 1, !.curr_steal_queue = Null, !.victim_idx = next] \in Swaps
    <3>1. swap[w].tries + 1 \in Nat BY <2>1 DEF Swaps
    <3> QED BY <1>4, <2>1, <3>1 DEF Swaps
  <2>3. /\ swap' \in [Workers -> Swaps] /\ \A u \in Others(w) : swap'[u] = swap[u]
        /\ swap'[w].my_idx = swap[w].my_idx /\ swap'[w].victim_idx = next
    BY <1>6, <2>1, <2>2 DEF TypeOK, Others, Swaps
  <2>4. pc' = Set(pc, w, "choose") /\ UNCHANGED <<i, curr>> BY <1>6 DEF Remain, Goto
  <2>5. TypeOK' BY <2>3, <2>4 DEF TypeOK, Set, Pcs, sysVars, queueVars, reqVars
  <2>6. PlaceInv' BY <1>2, <1>3, <1>4, <2>3, <2>4, ThiefPlaces
  <2>7. Hands' BY <2>3, <2>4, HandsStill DEF queueVars
  <2>8. ServeInv' BY <2>4, ServingStill DEF queueVars
  <2> QED BY <2>5, <2>6, <2>7, <2>8
<1> QED BY <1>1, <1>5, <1>6

(* ... and stays at a queue while it looks at it. *)
LEMMA ThiefGoesOn ==
  ASSUME IInv, NEW w \in Workers, NEW x \in {"busy", "mail", "mine"}, NEW q \in Queues \cup {Null},
         pc[w] \in {"choose", "busy", "mail"}, Remain(w, x),
         swap' = [swap EXCEPT ![w].curr_steal_queue = q],
         UNCHANGED <<sysVars, queueVars, empty_count, gulp, reqVars>>
  PROVE  IInv'
<1> USE DEF IInv
<1>1. swap[w].my_idx \in Own(w) /\ \E u \in Workers : swap[w].victim_idx \in Own(u) BY DEF PlaceInv, Thief
<1>2. swap[w] \in Swaps BY DEF TypeOK
<1>3. /\ swap' \in [Workers -> Swaps] /\ \A u \in Others(w) : swap'[u] = swap[u]
      /\ swap'[w].my_idx = swap[w].my_idx /\ swap'[w].victim_idx = swap[w].victim_idx
  BY <1>2 DEF TypeOK, Others, Swaps
<1>4. pc' = Set(pc, w, x) /\ UNCHANGED <<i, curr>> BY DEF Remain, Goto
<1>5. TypeOK' BY <1>3, <1>4 DEF TypeOK, Set, Pcs, sysVars, queueVars, reqVars
<1>6. PlaceInv' BY <1>1, <1>3, <1>4, ThiefPlaces
<1>7. Hands' BY <1>3, <1>4, HandsStill DEF queueVars
<1>8. ServeInv' BY <1>4, ServingStill DEF queueVars
<1> QED BY <1>5, <1>6, <1>7, <1>8

(* The three reads of choose_queue. *)
LEMMA ChooseSteps ==
  ASSUME IInv, NEW w \in Workers, Choose(w) \/ ChooseIdle(w) \/ ChooseFull(w)
  PROVE  IInv'
<1>1. CASE Choose(w)
  <2> DEFINE q == slots[swap[w].victim_idx]
  <2>1. /\ pc[w] = "choose" /\ UNCHANGED <<sysVars, queueVars, empty_count, gulp, reqVars>>
        /\ NextChoice(w) \/ (swap' = [swap EXCEPT ![w].curr_steal_queue = q] /\ Remain(w, "busy"))
    BY <1>1 DEF Choose
  <2>2. PICK u \in Workers : swap[w].victim_idx \in Own(u) BY <2>1 DEF IInv, PlaceInv, Thief
  <2>3. swap[w].victim_idx \in Queues BY <2>2, OwnSlots
  <2>4. q \in Queues \cup {Null} BY <2>3 DEF IInv, TypeOK
  <2> HIDE DEF q
  <2> QED BY <2>1, <2>4, NextChoiceStep, ThiefGoesOn
<1>2. CASE ChooseIdle(w)
  <2>1. /\ pc[w] = "busy" /\ UNCHANGED <<sysVars, queueVars, empty_count, gulp, reqVars>>
        /\ NextChoice(w) \/ (swap' = swap /\ Remain(w, "mail"))
    BY <1>2 DEF ChooseIdle
  <2>2. swap \in [Workers -> Swaps] BY DEF IInv, TypeOK
  <2>3. swap[w].curr_steal_queue \in Queues \cup {Null} BY <2>2 DEF Swaps
  <2>4. swap = [swap EXCEPT ![w].curr_steal_queue = swap[w].curr_steal_queue] BY <2>2 DEF Swaps
  <2>5. CASE NextChoice(w) BY <2>1, <2>5, NextChoiceStep
  <2>6. CASE swap' = swap /\ Remain(w, "mail")
    <3>1. swap' = [swap EXCEPT ![w].curr_steal_queue = swap[w].curr_steal_queue] BY <2>4, <2>6
    <3> QED BY <2>1, <2>3, <2>6, <3>1, ThiefGoesOn
  <2> QED BY <2>1, <2>5, <2>6
<1>3. CASE ChooseFull(w)
  <2>1. /\ pc[w] = "mail" /\ UNCHANGED <<sysVars, queueVars, empty_count, gulp, reqVars>>
        /\ NextChoice(w) \/ (swap' = [swap EXCEPT ![w].curr_steal_queue = Null] /\ Remain(w, "mine"))
    BY <1>3 DEF ChooseFull
  <2> QED BY <2>1, NextChoiceStep, ThiefGoesOn
<1> QED BY <1>1, <1>2, <1>3

(* The thief reads its own slot: there is a queue in it. *)
LEMMA ReadMineStep == ASSUME IInv, NEW w \in Workers, ReadMine(w) PROVE IInv'
<1> USE DEF IInv
<1> DEFINE q == slots[swap[w].my_idx]
<1>1. /\ pc[w] = "mine" /\ pc' = Set(pc, w, "theirs")
      /\ swap' = [swap EXCEPT ![w].my_queue = q]
      /\ UNCHANGED <<sysVars, queueVars, loopVars, reqVars>>
  BY DEF ReadMine, Goto
<1>2. swap[w].my_idx \in Own(w) /\ \E v \in Workers : swap[w].victim_idx \in Own(v)
  BY <1>1 DEF PlaceInv, Thief
<1>3. q \in Queues
  <2>1. q # Null BY <1>1, <1>2 DEF Hands, EmptyInv, Holding
  <2>2. swap[w].my_idx \in Queues BY <1>2, OwnSlots
  <2> QED BY <2>1, <2>2 DEF TypeOK
<1> HIDE DEF q
<1>4. swap[w] \in Swaps BY DEF TypeOK
<1>5. /\ swap' \in [Workers -> Swaps] /\ \A u \in Others(w) : swap'[u] = swap[u]
      /\ swap'[w].my_idx = swap[w].my_idx /\ swap'[w].victim_idx = swap[w].victim_idx
      /\ swap'[w].my_queue = q
  BY <1>1, <1>3, <1>4 DEF TypeOK, Others, Swaps
<1>6. TypeOK' BY <1>1, <1>5 DEF TypeOK, Set, Pcs, sysVars, queueVars, loopVars, reqVars
<1>7. PlaceInv' BY <1>1, <1>2, <1>3, <1>5, ThiefPlaces DEF loopVars
<1>8. Hands' BY <1>1, <1>5, HandsStill DEF queueVars
<1>9. ServeInv' BY <1>1, ServingStill DEF queueVars, loopVars
<1> QED BY <1>6, <1>7, <1>8, <1>9

(* ... and that of its victim, if there is one in it. *)
LEMMA ReadTheirsStep == ASSUME IInv, NEW w \in Workers, ReadTheirs(w) PROVE IInv'
<1> USE DEF IInv
<1> DEFINE q == slots[swap[w].victim_idx]
<1>1. /\ pc[w] = "theirs"
      /\ UNCHANGED <<sysVars, queueVars, empty_count, gulp, reqVars>>
      /\ \/ Return(w)
         \/ /\ q # Null /\ swap' = [swap EXCEPT ![w].other_queue = q]
            /\ Remain(w, "take")
  BY DEF ReadTheirs
<1>2. /\ swap[w].my_idx \in Own(w) /\ \E v \in Workers : swap[w].victim_idx \in Own(v)
      /\ swap[w].my_queue \in Queues
  BY <1>1 DEF PlaceInv, Thief
<1>3. CASE Return(w) BY <1>1, <1>3, ReturnStep
<1>4. CASE /\ q # Null /\ swap' = [swap EXCEPT ![w].other_queue = q]
           /\ Remain(w, "take")
  <2>1. pc' = Set(pc, w, "take") /\ UNCHANGED <<i, curr>> BY <1>4 DEF Remain, Goto
  <2>2. swap[w].victim_idx \in Queues BY <1>2, OwnSlots
  <2>3. q \in Queues BY <1>4, <2>2 DEF TypeOK
  <2>4. swap' = [swap EXCEPT ![w].other_queue = q] BY <1>4
  <2> HIDE DEF q
  <2>5. swap[w] \in Swaps BY DEF TypeOK
  <2>6. /\ swap' \in [Workers -> Swaps] /\ \A u \in Others(w) : swap'[u] = swap[u]
        /\ swap'[w].my_idx = swap[w].my_idx /\ swap'[w].victim_idx = swap[w].victim_idx
        /\ swap'[w].my_queue = swap[w].my_queue /\ swap'[w].other_queue = q
    BY <2>3, <2>4, <2>5 DEF TypeOK, Others, Swaps
  <2>7. TypeOK' BY <1>1, <2>1, <2>6 DEF TypeOK, Set, Pcs, sysVars, queueVars, reqVars
  <2>8. PlaceInv' BY <1>2, <2>1, <2>3, <2>6, ThiefPlaces
  <2>9. Hands' BY <1>1, <2>1, <2>6, HandsStill DEF queueVars
  <2>10. ServeInv' BY <1>1, <2>1, ServingStill DEF queueVars
  <2> QED BY <2>7, <2>8, <2>9, <2>10
<1> QED BY <1>1, <1>3, <1>4

(* The thief takes its queue into its hand: that slot, and none besides,   *)
(* is empty. *)
LEMMA TakeStep == ASSUME IInv, NEW w \in Workers, Take(w) PROVE IInv'
<1> USE DEF IInv
<1> DEFINE k == swap[w].my_idx
           q == swap[w].my_queue
<1>1. /\ pc[w] = "take" /\ slots[k] = q
      /\ slots' = [slots EXCEPT ![k] = Null]
      /\ pc' = Set(pc, w, "give")
      /\ UNCHANGED <<sysVars, inbox, processed, loopVars, reqVars, swap>>
  BY DEF Take, Goto, Set
<1>2. /\ k \in Own(w) /\ \E v \in Workers : swap[w].victim_idx \in Own(v)
      /\ q \in Queues /\ swap[w].other_queue \in Queues
  BY <1>1 DEF PlaceInv, Thief
<1>3. k \in Queues /\ q # Null /\ Null \notin Queues
  BY <1>2, OwnSlots, ActorsAssumption DEF ActorsAssumption
<1>4. pc'[w] = "give" /\ \A v \in Others(w) : pc'[v] = pc[v] BY <1>1 DEF Set, TypeOK, Others
<1>5. TypeOK' BY <1>1, <1>3 DEF TypeOK, Set, Pcs, sysVars, loopVars, reqVars
<1>6. PlaceInv' BY <1>1, <1>2, ThiefPlaces DEF loopVars
<1>7. ServeInv' BY <1>1, ServingStill DEF loopVars
<1>8. Hands'
  <2>1. \A l \in Queues : slots'[l] = IF l = k THEN Null ELSE slots[l] BY <1>1, <1>3 DEF TypeOK
  <2>2. \A v \in Workers : Holding(v)' <=> (Holding(v) \/ v = w) BY <1>4 DEF Holding, Others
  <2>3. ~Holding(w) /\ \A r \in Queues : ~InHand(w, r) BY <1>1 DEF Holding, InHand
  <2>4. \A v \in Workers : \A r \in Queues : InHand(v, r)' <=> (InHand(v, r) \/ (v = w /\ r = q))
    BY <1>1, <1>4, <2>3 DEF InHand, Others
  <2>5. \A v \in Others(w) : k \notin Own(v) BY <1>2, OwnSlots DEF Others
  <2>6. EmptyInv'
    <3>1. ASSUME NEW v \in Workers, NEW l \in Own(v)
          PROVE  slots'[l] = Null <=> (Holding(v)' /\ l = swap'[v].my_idx)
      <4>1. l \in Queues BY OwnSlots
      <4>2. slots[l] = Null <=> (Holding(v) /\ l = swap[v].my_idx) BY DEF Hands, EmptyInv
      <4>3. swap' = swap BY <1>1
      <4> QED BY <2>1, <2>2, <2>3, <2>5, <4>1, <4>2, <4>3 DEF Others
    <3> QED BY <3>1 DEF EmptyInv
  <2>7. OneSlot' BY <2>1 DEF Hands, OneSlot
  <2>8. \A v \in Workers : ~InHand(v, q) BY <1>1, <1>2, <1>3 DEF Hands, NotBoth
  <2>9. OneHand' BY <2>3, <2>4, <2>8 DEF Hands, OneHand
  <2>10. \A l \in Queues : slots[l] = q => l = k BY <1>1, <1>3 DEF Hands, OneSlot
  <2>11. NotBoth' BY <1>3, <2>1, <2>4, <2>10 DEF Hands, NotBoth
  <2>12. Somewhere' BY <1>1, <1>2, <2>1, <2>4 DEF Hands, Somewhere
  <2> QED BY <2>6, <2>7, <2>9, <2>11, <2>12 DEF Hands
<1> QED BY <1>5, <1>6, <1>7, <1>8

(* The thief exchanges the queue in its hand for the one of its victim. *)
LEMMA GiveStep == ASSUME IInv, NEW w \in Workers, Give(w) PROVE IInv'
<1> USE DEF IInv
<1> DEFINE k == swap[w].victim_idx
           q == swap[w].my_queue
           r == swap[w].other_queue
<1>1. /\ pc[w] = "give" /\ slots[k] = r
      /\ slots' = [slots EXCEPT ![k] = q]
      /\ pc' = Set(pc, w, "put")
      /\ UNCHANGED <<sysVars, inbox, processed, loopVars, reqVars, swap>>
  BY DEF Give, Goto, Set
<1>2. /\ swap[w].my_idx \in Own(w) /\ \E v \in Workers : k \in Own(v)
      /\ q \in Queues /\ r \in Queues
  BY <1>1 DEF PlaceInv, Thief
<1>3. k \in Queues /\ q # Null /\ r # Null /\ Null \notin Queues
  BY <1>2, OwnSlots, ActorsAssumption DEF ActorsAssumption
<1>4. pc'[w] = "put" /\ \A v \in Others(w) : pc'[v] = pc[v] BY <1>1 DEF Set, TypeOK, Others
<1>5. TypeOK' BY <1>1, <1>2, <1>3 DEF TypeOK, Set, Pcs, sysVars, loopVars, reqVars
<1>6. PlaceInv' BY <1>1, <1>2, ThiefPlaces DEF loopVars
<1>7. ServeInv' BY <1>1, ServingStill DEF loopVars
<1>8. Hands'
  <2>1. \A l \in Queues : slots'[l] = IF l = k THEN q ELSE slots[l] BY <1>1, <1>3 DEF TypeOK
  <2>2. \A v \in Workers : Holding(v)' <=> Holding(v) BY <1>1, <1>4 DEF Holding, Others
  <2>3. \A s \in Queues : InHand(w, s) <=> s = q BY <1>1 DEF InHand
  <2>4. \A s \in Queues : InHand(w, s)' <=> s = r BY <1>1, <1>4 DEF InHand
  <2>5. \A v \in Others(w) : \A s \in Queues : InHand(v, s)' <=> InHand(v, s)
    BY <1>1, <1>4 DEF InHand, Others
  <2>6. EmptyInv'
    <3>1. ASSUME NEW v \in Workers, NEW l \in Own(v)
          PROVE  slots'[l] = Null <=> (Holding(v)' /\ l = swap'[v].my_idx)
      <4>1. l \in Queues BY OwnSlots
      <4>2. slots[l] = Null <=> (Holding(v) /\ l = swap[v].my_idx) BY DEF Hands, EmptyInv
      <4>3. swap' = swap BY <1>1
      <4> QED BY <1>1, <1>3, <2>1, <2>2, <4>1, <4>2, <4>3
    <3> QED BY <3>1 DEF EmptyInv
  <2>7. \A l \in Queues : slots[l] # q BY <1>2, <2>3 DEF Hands, NotBoth
  <2>8. \A l \in Queues : slots[l] = r => l = k BY <1>1, <1>3 DEF Hands, OneSlot
  <2>9. OneSlot' BY <2>1, <2>7 DEF Hands, OneSlot
  <2>10. \A v \in Workers : ~InHand(v, r) BY <1>1, <1>2, <1>3 DEF Hands, NotBoth
  <2>11. OneHand' BY <2>4, <2>5, <2>10 DEF Hands, OneHand, Others
  <2>12. \A v \in Others(w) : ~InHand(v, q) BY <1>2, <2>3 DEF Hands, OneHand, Others
  <2>13. NotBoth'
    <3>1. \A s, l \in Queues : InHand(w, s)' => slots'[l] # s
      BY <1>1, <1>2, <2>1, <2>4, <2>7, <2>8
    <3>2. \A v \in Others(w) : \A s, l \in Queues : InHand(v, s)' => slots'[l] # s
      BY <2>1, <2>5, <2>12 DEF Hands, NotBoth, Others
    <3> QED BY <3>1, <3>2 DEF NotBoth, Others
  <2>14. Somewhere'
    <3>1. ASSUME NEW s \in Queues
          PROVE  (\E l \in Queues : slots'[l] = s) \/ \E v \in Workers : InHand(v, s)'
      <4>1. CASE s = q BY <1>3, <2>1, <4>1
      <4>2. CASE s = r BY <2>4, <4>2
      <4>3. CASE s # q /\ s # r
        <5>1. (\E l \in Queues : slots[l] = s) \/ \E v \in Workers : InHand(v, s)
          BY DEF Hands, Somewhere
        <5>2. CASE \E l \in Queues : slots[l] = s BY <1>1, <2>1, <4>3, <5>2
        <5>3. CASE \E v \in Workers : InHand(v, s) BY <2>3, <2>5, <4>3, <5>3 DEF Others
        <5> QED BY <5>1, <5>2, <5>3
      <4> QED BY <4>1, <4>2, <4>3
    <3> QED BY <3>1 DEF Somewhere
  <2> QED BY <2>6, <2>9, <2>11, <2>13, <2>14 DEF Hands
<1> QED BY <1>5, <1>6, <1>7, <1>8

(* Another thief was faster: the queue stays in the hand. *)
LEMMA GiveFailsStep == ASSUME IInv, NEW w \in Workers, GiveFails(w) PROVE IInv'
<1> USE DEF IInv
<1>1. /\ pc[w] = "give" /\ pc' = Set(pc, w, "undo")
      /\ UNCHANGED <<sysVars, queueVars, loopVars, reqVars, swap>>
  BY DEF GiveFails, Goto
<1>2. /\ swap[w].my_idx \in Own(w) /\ \E v \in Workers : swap[w].victim_idx \in Own(v)
      /\ swap[w].my_queue \in Queues /\ swap[w].other_queue \in Queues
  BY <1>1 DEF PlaceInv, Thief
<1>3. pc'[w] = "undo" /\ \A v \in Others(w) : pc'[v] = pc[v] BY <1>1 DEF Set, TypeOK, Others
<1>4. TypeOK' BY <1>1 DEF TypeOK, Set, Pcs, sysVars, queueVars, loopVars, reqVars
<1>5. PlaceInv' BY <1>1, <1>2, ThiefPlaces DEF loopVars
<1>6. ServeInv' BY <1>1, ServingStill DEF loopVars, queueVars
<1>7. Hands'
  <2>1. \A v \in Workers : Holding(v)' <=> Holding(v) BY <1>1, <1>3 DEF Holding, Others
  <2>2. \A v \in Workers : \A q \in Queues : InHand(v, q)' <=> InHand(v, q)
    BY <1>1, <1>3 DEF InHand, Others
  <2>3. swap' = swap /\ slots' = slots BY <1>1 DEF queueVars
  <2>4. EmptyInv' BY <2>1, <2>3 DEF Hands, EmptyInv
  <2>5. OneSlot' BY <2>3 DEF Hands, OneSlot
  <2>6. OneHand' BY <2>2 DEF Hands, OneHand
  <2>7. NotBoth' BY <2>2, <2>3 DEF Hands, NotBoth
  <2>8. Somewhere' BY <2>2, <2>3 DEF Hands, Somewhere
  <2> QED BY <2>4, <2>5, <2>6, <2>7, <2>8 DEF Hands
<1> QED BY <1>4, <1>5, <1>6, <1>7

(* The queue in the hand of the thief goes into its own slot, which is     *)
(* empty, and stealing ends. *)
LEMMA FillStep ==
  ASSUME IInv, NEW w \in Workers, NEW q \in Queues,
         pc[w] \in {"undo", "put"}, InHand(w, q), \A s \in Queues : InHand(w, s) => s = q,
         slots' = Set(slots, swap[w].my_idx, q), Return(w),
         UNCHANGED <<sysVars, inbox, processed, empty_count, gulp, reqVars>>
  PROVE  IInv'
<1> USE DEF IInv
<1> DEFINE k == swap[w].my_idx
<1>1. slots' = [slots EXCEPT ![k] = q] BY DEF Set
<1>2. Continue(w) /\ swap' = Set(swap, w, NoSwap) BY DEF Return
<1>3. k \in Own(w) BY DEF PlaceInv, Thief
<1>4. k \in Queues /\ q # Null BY <1>3, OwnSlots, ActorsAssumption DEF ActorsAssumption
<1>5. pc' = Set(pc, w, "look") BY <1>2, ContinueFacts
<1>6. pc'[w] = "look" /\ \A v \in Others(w) : pc'[v] = pc[v] /\ swap'[v] = swap[v]
  BY <1>2, <1>5 DEF Set, TypeOK, Others
<1>7. TypeOK'
  <2>1. NoSwap \in Swaps BY DEF NoSwap, Swaps
  <2>2. swap' \in [Workers -> Swaps] BY <1>2, <2>1 DEF Set, TypeOK
  <2>3. slots' \in [Queues -> Queues \cup {Null}] BY <1>1 DEF TypeOK
  <2>4. /\ pc' \in [Workers -> Pcs] /\ i' \in [Workers -> Nat]
        /\ curr' \in [Workers -> Queues \cup {Null}]
    BY <1>2, ContinueFacts DEF Set, TypeOK, Pcs
  <2> QED BY <2>2, <2>3, <2>4 DEF TypeOK, sysVars, reqVars
<1>8. PlaceInv' BY <1>2, <1>6, ContinueFacts, PlacesStill
<1>9. ServeInv'
  <2>1. \A v \in Others(w) : curr'[v] = curr[v] BY <1>2, ContinueFacts DEF Set, TypeOK, Others
  <2> QED BY <1>5, <2>1, ServingStill
<1>10. Hands'
  <2>1. \A l \in Queues : slots'[l] = IF l = k THEN q ELSE slots[l] BY <1>1, <1>4 DEF TypeOK
  <2>2. \A v \in Workers : Holding(v)' <=> (Holding(v) /\ v # w) BY <1>6 DEF Holding, Others
  <2>3. \A v \in Workers : \A s \in Queues : InHand(v, s)' <=> (InHand(v, s) /\ v # w)
    BY <1>6 DEF InHand, Others
  <2>4. EmptyInv'
    <3>1. ASSUME NEW v \in Workers, NEW l \in Own(v)
          PROVE  slots'[l] = Null <=> (Holding(v)' /\ l = swap'[v].my_idx)
      <4>1. l \in Queues BY OwnSlots
      <4>2. slots[l] = Null <=> (Holding(v) /\ l = swap[v].my_idx) BY DEF Hands, EmptyInv
      <4>3. CASE v = w BY <1>4, <2>1, <2>2, <4>1, <4>2, <4>3
      <4>4. CASE v # w
        <5>1. l # k BY <1>3, <4>4, OwnSlots
        <5> QED BY <1>6, <2>1, <2>2, <4>1, <4>2, <4>4, <5>1 DEF Others
      <4> QED BY <4>3, <4>4
    <3> QED BY <3>1 DEF EmptyInv
  <2>5. \A l \in Queues : slots[l] # q BY DEF Hands, NotBoth
  <2>6. OneSlot' BY <2>1, <2>5 DEF Hands, OneSlot
  <2>7. OneHand' BY <2>3 DEF Hands, OneHand
  <2>8. \A v \in Others(w) : ~InHand(v, q) BY DEF Hands, OneHand, Others
  <2>9. NotBoth'
    <3>1. \A v \in Others(w) : \A s, l \in Queues : InHand(v, s)' => slots'[l] # s
      BY <2>1, <2>3, <2>8 DEF Hands, NotBoth, Others
    <3> QED BY <2>3, <3>1 DEF NotBoth, Others
  <2>10. slots[k] = Null BY <1>3 DEF Hands, EmptyInv, Holding
  <2>11. Somewhere'
    <3>1. ASSUME NEW s \in Queues
          PROVE  (\E l \in Queues : slots'[l] = s) \/ \E v \in Workers : InHand(v, s)'
      <4>1. CASE s = q BY <1>4, <2>1, <4>1
      <4>2. CASE s # q
        <5>1. (\E l \in Queues : slots[l] = s) \/ \E v \in Workers : InHand(v, s)
          BY DEF Hands, Somewhere
        <5>2. s # Null BY ActorsAssumption DEF ActorsAssumption
        <5>3. CASE \E l \in Queues : slots[l] = s BY <2>1, <2>10, <5>2, <5>3
        <5>4. CASE \E v \in Workers : InHand(v, s) BY <2>3, <4>2, <5>4
        <5> QED BY <5>1, <5>3, <5>4
      <4> QED BY <4>1, <4>2
    <3> QED BY <3>1 DEF Somewhere
  <2> QED BY <2>4, <2>6, <2>7, <2>9, <2>11 DEF Hands
<1> QED BY <1>7, <1>8, <1>9, <1>10

LEMMA UndoOrPutStep == ASSUME IInv, NEW w \in Workers, Undo(w) \/ Put(w) PROVE IInv'
<1>1. CASE Undo(w)
  <2> DEFINE q == swap[w].my_queue
  <2>1. /\ pc[w] = "undo" /\ slots' = Set(slots, swap[w].my_idx, q) /\ Return(w)
        /\ UNCHANGED <<sysVars, inbox, processed, empty_count, gulp, reqVars>>
    BY <1>1 DEF Undo
  <2>2. q \in Queues BY <2>1 DEF IInv, PlaceInv, Thief
  <2>3. \A s \in Queues : InHand(w, s) <=> s = q BY <2>1 DEF InHand
  <2> QED BY <2>1, <2>2, <2>3, FillStep
<1>2. CASE Put(w)
  <2> DEFINE q == swap[w].other_queue
  <2>1. /\ pc[w] = "put" /\ slots' = Set(slots, swap[w].my_idx, q) /\ Return(w)
        /\ UNCHANGED <<sysVars, inbox, processed, empty_count, gulp, reqVars>>
    BY <1>2 DEF Put
  <2>2. q \in Queues BY <2>1 DEF IInv, PlaceInv, Thief
  <2>3. \A s \in Queues : InHand(w, s) <=> s = q BY <2>1 DEF InHand
  <2> QED BY <2>1, <2>2, <2>3, FillStep
<1> QED BY <1>1, <1>2

-----------------------------------------------------------------------------
(***************************************************************************)
(* The theorems.                                                           *)
(***************************************************************************)

LEMMA Preservation == IInv /\ [Next]_vars => IInv'
<1> SUFFICES ASSUME IInv, [Next]_vars PROVE IInv' OBVIOUS
<1>1. CASE Main BY <1>1, MainStep
<1>2. ASSUME NEW w \in Workers, Worker(w) PROVE IInv'
  <2>1. CASE Look(w) BY <2>1, LookStep
  <2>2. CASE Check(w) BY <2>2, CheckStep
  <2>3. CASE Gulp(w) BY <2>3, GulpStep
  <2>4. CASE GulpNothing(w) BY <2>4, GulpNothingStep
  <2>5. CASE GoStealing(w) BY <2>5, GoStealingStep
  <2>6. CASE Deliver(w) BY <2>6, DeliverStep
  <2>7. CASE ReceiverSends(w) \/ Received(w) BY <2>7, ReceiverStep
  <2>8. CASE Served(w) BY <2>8, ServedStep
  <2>9. CASE Choose(w) \/ ChooseIdle(w) \/ ChooseFull(w) BY <2>9, ChooseSteps
  <2>10. CASE ReadMine(w) BY <2>10, ReadMineStep
  <2>11. CASE ReadTheirs(w) BY <2>11, ReadTheirsStep
  <2>12. CASE Take(w) BY <2>12, TakeStep
  <2>13. CASE TakeFails(w) BY <2>13, ReturnStep DEF TakeFails
  <2>14. CASE Give(w) BY <2>14, GiveStep
  <2>15. CASE GiveFails(w) BY <2>15, GiveFailsStep
  <2>16. CASE Undo(w) \/ Put(w) BY <2>16, UndoOrPutStep
  <2> QED BY <1>2, <2>1, <2>2, <2>3, <2>4, <2>5, <2>6, <2>7, <2>8, <2>9, <2>10, <2>11, <2>12, <2>13, <2>14,
             <2>15, <2>16 DEF Worker
<1>3. CASE UNCHANGED vars
  <2>1. TypeOK' BY <1>3 DEF IInv, TypeOK, vars, sysVars, queueVars, loopVars, reqVars
  <2> QED BY <1>3, <2>1, Frame DEF vars, queueVars, loopVars
<1> QED BY <1>1, <1>2, <1>3 DEF Next

(* The places of queues and workers, and the marks, are always as the      *)
(* executor takes them to be (actor.hfa:166-184, :480-660). *)
THEOREM Invariance == Spec => []IInv
<1>1. Init => IInv BY InitIInv
<1>2. IInv /\ [Next]_vars => IInv' BY Preservation
<1> QED BY <1>1, <1>2, PTL DEF Spec

(* One holder of a property among the members of a finite set. *)
LEMMA CountOne ==
  ASSUME NEW S, IsFiniteSet(S), NEW T \in SUBSET S
  PROVE  /\ (\A x, y \in T : x = y) /\ T # {} => Cardinality(T) = 1
         /\ T = {} => Cardinality(T) = 0
<1>1. IsFiniteSet(T) BY FS_Subset
<1>2. ASSUME \A x, y \in T : x = y, T # {} PROVE Cardinality(T) = 1
  <2>1. PICK x \in T : T = {x} BY <1>2
  <2> QED BY <2>1, FS_Singleton
<1> QED BY <1>2, FS_EmptySet

LEMMA KeepsQueues == IInv => QueuesKept
<1> SUFFICES ASSUME IInv PROVE QueuesKept OBVIOUS
<1> USE DEF IInv
<1>1. IsFiniteSet(Queues) /\ IsFiniteSet(Workers)
  BY FS_Interval, ActorsAssumption DEF ActorsAssumption, Queues, Workers
<1>2. ASSUME NEW q \in Queues
      PROVE  Cardinality({k \in Queues : slots[k] = q}) + Cardinality({w \in Workers : InHand(w, q)}) = 1
  <2> DEFINE S == {k \in Queues : slots[k] = q}
             H == {w \in Workers : InHand(w, q)}
  <2>1. S \in SUBSET Queues /\ H \in SUBSET Workers OBVIOUS
  <2>2. q # Null BY ActorsAssumption DEF ActorsAssumption
  <2>3. \A x, y \in S : x = y BY <2>2 DEF Hands, OneSlot
  <2>4. \A x, y \in H : x = y BY DEF Hands, OneHand
  <2>5. S = {} \/ H = {} BY DEF Hands, NotBoth
  <2>6. S # {} \/ H # {} BY DEF Hands, Somewhere
  <2> HIDE DEF S, H
  <2>7. CASE S # {} /\ H = {}
    <3>1. Cardinality(S) = 1 BY <1>1, <2>1, <2>3, <2>7, CountOne
    <3>2. Cardinality(H) = 0 BY <1>1, <2>1, <2>7, CountOne
    <3> QED BY <3>1, <3>2 DEF S, H
  <2>8. CASE S = {} /\ H # {}
    <3>1. Cardinality(S) = 0 BY <1>1, <2>1, <2>8, CountOne
    <3>2. Cardinality(H) = 1 BY <1>1, <2>1, <2>4, <2>8, CountOne
    <3> QED BY <3>1, <3>2 DEF S, H
  <2> QED BY <2>5, <2>6, <2>7, <2>8
<1>3. ASSUME NEW w \in Workers, pc[w] = "look" PROVE slots[Slot(w)] # Null
  BY <1>3 DEF PlaceInv, Hands, EmptyInv, Holding
<1>4. ASSUME NEW q \in Queues
      PROVE  Cardinality({w \in Workers : Serving(w, q)}) = IF processed[q] THEN 1 ELSE 0
  <2> DEFINE S == {w \in Workers : Serving(w, q)}
  <2>1. S \in SUBSET Workers OBVIOUS
  <2>2. \A x, y \in S : x = y BY DEF ServeInv
  <2>3. processed[q] <=> S # {} BY DEF ServeInv
  <2> HIDE DEF S
  <2>4. Cardinality(S) = IF processed[q] THEN 1 ELSE 0 BY <1>1, <2>1, <2>2, <2>3, CountOne
  <2> QED BY <2>4 DEF S
<1> QED BY <1>2, <1>3, <1>4 DEF QueuesKept

(* Stealing loses and doubles no queue, leaves none of a worker's own      *)
(* slots empty when the worker comes to look, and no queue is served twice *)
(* at a time (actor.hfa:166-174, :492-513, :604, :642-651). *)
THEOREM NoQueueIsLost == Spec => []QueuesKept
BY Invariance, KeepsQueues, PTL

-----------------------------------------------------------------------------
(***************************************************************************)
(* The messages of an actor in a sequence.  What SentTo defines by         *)
(* recursion is followed up to the least number where it could be wrong.   *)
(***************************************************************************)
(* The least of a set of numbers. *)
LEMMA Least == ASSUME NEW T \in SUBSET Nat, T # {} PROVE \E n \in T : \A k \in T : n <= k
<1> DEFINE R == {p \in Nat \X Nat : p[1] < p[2]}
<1>1. IsWellFoundedOn(R, Nat) BY NatLessThanWellFounded DEF OpToRel
<1>2. PICK n \in T : \A k \in T : <<k, n>> \notin R
  <2> HIDE DEF R
  <2> QED BY <1>1, WFMin
<1>3. ASSUME NEW k \in T PROVE n <= k
  <2>1. <<k, n>> \in Nat \X Nat OBVIOUS
  <2> QED BY <1>2, <2>1
<1> QED BY <1>3

\* f lists, for each n, what the first n messages of s have for a.
Lists(f, a, s, n) ==
  f = [k \in 0 .. n |->
         IF k = 0 THEN <<>> ELSE IF To[s[k]] = a THEN Append(f[k - 1], s[k]) ELSE f[k - 1]]

LEMMA ListStep ==
  ASSUME NEW a, NEW s, NEW n \in Nat, NEW f, Lists(f, a, s, n)
  PROVE  /\ f[0] = <<>>
         /\ \A k \in 1 .. n : f[k] = IF To[s[k]] = a THEN Append(f[k - 1], s[k]) ELSE f[k - 1]
<1>1. \A k \in 1 .. n : k \in 0 .. n /\ k # 0 OBVIOUS
<1>2. 0 \in 0 .. n OBVIOUS
<1> QED BY <1>1, <1>2 DEF Lists

LEMMA ListExists == ASSUME NEW a, NEW s, NEW n \in Nat PROVE \E f : Lists(f, a, s, n)
<1> DEFINE T == {k \in Nat : ~ \E f : Lists(f, a, s, k)}
<1>1. SUFFICES ASSUME n \in T PROVE FALSE OBVIOUS
<1>2. PICK k \in T : \A j \in T : k <= j
  <2> HIDE DEF T
  <2>1. T \in SUBSET Nat BY DEF T
  <2> QED BY <1>1, <2>1, Least
<1>3. CASE k = 0
  <2> DEFINE f == [j \in {0} |-> <<>>]
  <2>1. 0 .. 0 = {0} OBVIOUS
  <2>2. Lists(f, a, s, 0) BY <2>1 DEF Lists
  <2> QED BY <1>2, <1>3, <2>2
<1>4. CASE k # 0
  <2>1. k - 1 \in Nat /\ k - 1 \notin T BY <1>2, <1>4
  <2>2. PICK f : Lists(f, a, s, k - 1) BY <2>1
  <2> DEFINE e == IF To[s[k]] = a THEN Append(f[k - 1], s[k]) ELSE f[k - 1]
             g == [j \in 0 .. k |-> IF j = k THEN e ELSE f[j]]
  <2>3. g[k] = e /\ \A j \in 0 .. k - 1 : g[j] = f[j] BY <2>1
  <2>4. \A j \in 0 .. k - 1 : f[j] = IF j = 0 THEN <<>> ELSE IF To[s[j]] = a THEN Append(f[j - 1], s[j]) ELSE f[j - 1]
    BY <2>2 DEF Lists
  <2>5. g = [j \in 0 .. k |-> g[j]] OBVIOUS
  <2> HIDE DEF g
  <2>6. \A j \in 0 .. k : g[j] = IF j = 0 THEN <<>> ELSE IF To[s[j]] = a THEN Append(g[j - 1], s[j]) ELSE g[j - 1]
    <3>1. TAKE j \in 0 .. k
    <3>2. CASE j = k BY <1>4, <2>1, <2>3, <3>2
    <3>3. CASE j # k
      <4>1. j \in 0 .. k - 1 /\ (j # 0 => j - 1 \in 0 .. k - 1) BY <2>1, <3>3
      <4> QED BY <2>3, <2>4, <4>1
    <3> QED BY <3>2, <3>3
  <2>7. Lists(g, a, s, k) BY <2>5, <2>6 DEF Lists
  <2> QED BY <1>2, <2>7
<1> QED BY <1>3, <1>4

LEMMA ListUnique ==
  ASSUME NEW a, NEW s, NEW t, NEW n \in Nat, NEW m \in Nat, n <= m, NEW f, NEW g,
         Lists(f, a, s, n), Lists(g, a, t, m), \A k \in 1 .. n : s[k] = t[k]
  PROVE  f[n] = g[n]
<1> DEFINE T == {k \in 0 .. n : f[k] # g[k]}
<1>1. SUFFICES ASSUME n \in T PROVE FALSE OBVIOUS
<1>2. PICK k \in T : \A j \in T : k <= j
  <2>1. T \in SUBSET Nat OBVIOUS
  <2> HIDE DEF T
  <2> QED BY <1>1, <2>1, Least
<1>3. f[k] = IF k = 0 THEN <<>> ELSE IF To[s[k]] = a THEN Append(f[k - 1], s[k]) ELSE f[k - 1] BY <1>2 DEF Lists
<1>4. g[k] = IF k = 0 THEN <<>> ELSE IF To[t[k]] = a THEN Append(g[k - 1], t[k]) ELSE g[k - 1]
  <2>1. k \in 0 .. m BY <1>2
  <2> QED BY <2>1 DEF Lists
<1>5. k # 0 => f[k - 1] = g[k - 1]
  <2>1. k # 0 => k - 1 \in 0 .. n /\ k - 1 \notin T BY <1>2
  <2> QED BY <2>1
<1>6. k # 0 => s[k] = t[k] BY <1>2
<1> QED BY <1>2, <1>3, <1>4, <1>5, <1>6

LEMMA SentToValue ==
  ASSUME NEW a, NEW S, NEW s \in Seq(S), NEW f, Lists(f, a, s, Len(s))
  PROVE  SentTo(a, s) = f[Len(s)]
<1> DEFINE g == CHOOSE h : Lists(h, a, s, Len(s))
<1>1. Lists(g, a, s, Len(s)) BY Zenon
<1>2. SentTo(a, s) = g[Len(s)] BY DEF SentTo, Lists
<1> HIDE DEF g
<1>3. Len(s) \in Nat OBVIOUS
<1> QED BY <1>1, <1>2, <1>3, ListUnique

LEMMA ListType ==
  ASSUME NEW a, NEW S, NEW s \in Seq(S), NEW f, Lists(f, a, s, Len(s))
  PROVE  \A n \in 0 .. Len(s) : f[n] \in Seq({m \in S : To[m] = a})
<1> DEFINE Q == Seq({m \in S : To[m] = a})
           T == {k \in 0 .. Len(s) : f[k] \notin Q}
<1>1. SUFFICES ASSUME T # {} PROVE FALSE OBVIOUS
<1>2. PICK k \in T : \A j \in T : k <= j
  <2>1. T \in SUBSET Nat OBVIOUS
  <2> HIDE DEF T
  <2> QED BY <1>1, <2>1, Least
<1>3. f[k] = IF k = 0 THEN <<>> ELSE IF To[s[k]] = a THEN Append(f[k - 1], s[k]) ELSE f[k - 1] BY <1>2 DEF Lists
<1>6. <<>> \in Q OBVIOUS
<1>4. k # 0 => f[k - 1] \in Q /\ s[k] \in S
  <2>1. k # 0 => k - 1 \in 0 .. Len(s) /\ k - 1 \notin T BY <1>2
  <2> QED BY <2>1
<1>5. k # 0 /\ To[s[k]] = a => Append(f[k - 1], s[k]) \in Q BY <1>4
<1>7. f[k] \in Q
  <2> HIDE DEF Q, T
  <2> QED BY <1>3, <1>4, <1>5, <1>6
<1> QED BY <1>2, <1>7

(* What is for a in a sequence, in nothing ... *)
LEMMA SentToType ==
  ASSUME NEW a, NEW S, NEW s \in Seq(S)
  PROVE  /\ SentTo(a, s) \in Seq({m \in S : To[m] = a})
         /\ SentTo(a, <<>>) = <<>>
<1>1. Len(s) \in Nat OBVIOUS
<1>2. PICK f : Lists(f, a, s, Len(s)) BY <1>1, ListExists
<1>3. SentTo(a, s) = f[Len(s)] BY <1>2, SentToValue
<1>4. SentTo(a, s) \in Seq({m \in S : To[m] = a})
  <2>1. \A n \in 0 .. Len(s) : f[n] \in Seq({m \in S : To[m] = a}) BY <1>2, ListType
  <2>2. Len(s) \in 0 .. Len(s) BY <1>1
  <2> QED BY <1>3, <2>1, <2>2
<1>5. SentTo(a, <<>>) = <<>>
  <2>1. PICK g : Lists(g, a, <<>>, 0) BY ListExists
  <2>2. g[0] = <<>> BY <2>1 DEF Lists
  <2>3. <<>> \in Seq(S) /\ Len(<<>>) = 0 OBVIOUS
  <2> QED BY <2>1, <2>2, <2>3, SentToValue
<1> QED BY <1>4, <1>5

(* ... in a sequence that grew by a message ... *)
LEMMA SentToAppend ==
  ASSUME NEW a, NEW S, NEW s \in Seq(S), NEW m \in S
  PROVE  SentTo(a, Append(s, m)) = IF To[m] = a THEN Append(SentTo(a, s), m) ELSE SentTo(a, s)
<1>1. Len(s) \in Nat OBVIOUS
<1>2. PICK f : Lists(f, a, s, Len(s)) BY <1>1, ListExists
<1>3. SentTo(a, s) = f[Len(s)] BY <1>2, SentToValue
<1> DEFINE t == Append(s, m)
<1>4. t \in Seq(S) /\ Len(t) = Len(s) + 1 /\ t[Len(t)] = m /\ \A k \in 1 .. Len(s) : s[k] = t[k] OBVIOUS
<1> HIDE DEF t
<1>5. PICK g : Lists(g, a, t, Len(t))
  <2>1. Len(t) \in Nat BY <1>1, <1>4
  <2> QED BY <2>1, ListExists
<1>6. SentTo(a, t) = g[Len(t)] BY <1>4, <1>5, SentToValue
<1>7. g[Len(t)] = IF To[m] = a THEN Append(g[Len(s)], m) ELSE g[Len(s)]
  <2>1. Len(t) \in Nat /\ Len(t) \in 1 .. Len(t) /\ Len(t) - 1 = Len(s) BY <1>1, <1>4
  <2>2. g[Len(t)] = IF To[t[Len(t)]] = a THEN Append(g[Len(t) - 1], t[Len(t)]) ELSE g[Len(t) - 1]
    BY <1>5, <2>1, ListStep
  <2> QED BY <1>4, <2>1, <2>2
<1>8. f[Len(s)] = g[Len(s)] BY <1>1, <1>2, <1>4, <1>5, ListUnique
<1>9. SentTo(a, t) = IF To[m] = a THEN Append(SentTo(a, s), m) ELSE SentTo(a, s) BY <1>3, <1>6, <1>7, <1>8
<1> QED BY <1>9 DEF t

(* ... and in one whose first message was taken. *)
LEMMA SentToTail ==
  ASSUME NEW a, NEW S, NEW s \in Seq(S), s # <<>>
  PROVE  SentTo(a, s) = IF To[Head(s)] = a THEN <<Head(s)>> \o SentTo(a, Tail(s)) ELSE SentTo(a, Tail(s))
<1> DEFINE t == Tail(s)
           front == IF To[s[1]] = a THEN <<s[1]>> ELSE <<>>
<1>1. /\ Len(s) \in Nat /\ Len(s) >= 1 /\ Len(t) \in Nat /\ t \in Seq(S) /\ Len(t) = Len(s) - 1
      /\ Head(s) = s[1] /\ s[1] \in S
      /\ \A k \in 1 .. Len(t) : t[k] = s[k + 1]
  OBVIOUS
<1> HIDE DEF t
<1>2. PICK f : Lists(f, a, s, Len(s)) BY <1>1, ListExists
<1>3. PICK g : Lists(g, a, t, Len(t)) BY <1>1, ListExists
<1>4. \A k \in 0 .. Len(t) : g[k] \in Seq(S) /\ g[k] \in Seq({m \in S : To[m] = a})
  <2>1. TAKE k \in 0 .. Len(t)
  <2>2. g[k] \in Seq({m \in S : To[m] = a}) BY <1>1, <1>3, ListType
  <2>3. g[k] \in Seq(S) BY <2>2
  <2> QED BY <2>2, <2>3
<1>5. f[1] = front \o g[0]
  <2>1. f[0] = <<>> /\ f[1] = IF To[s[1]] = a THEN Append(f[1 - 1], s[1]) ELSE f[1 - 1]
    <3>1. 1 \in 1 .. Len(s) BY <1>1
    <3> QED BY <1>1, <1>2, <3>1, ListStep
  <2>2. g[0] = <<>> BY <1>1, <1>3, ListStep
  <2>3. 1 - 1 = 0 OBVIOUS
  <2>4. f[1] = IF To[s[1]] = a THEN <<s[1]>> ELSE <<>>
    <3>1. Append(<<>>, s[1]) = <<s[1]>> OBVIOUS
    <3> QED BY <2>1, <2>3, <3>1
  <2>5. <<s[1]>> \o <<>> = <<s[1]>> /\ <<>> \o <<>> = <<>> OBVIOUS
  <2> QED BY <2>2, <2>4, <2>5
<1>6. front \in Seq(S) BY <1>1
<1> HIDE DEF front
<1> DEFINE T == {k \in 1 .. Len(s) : f[k] # front \o g[k - 1]}
<1>7. T = {}
  <2>1. SUFFICES ASSUME T # {} PROVE FALSE OBVIOUS
  <2>2. PICK k \in T : \A j \in T : k <= j
    <3>1. T \in SUBSET Nat OBVIOUS
    <3> HIDE DEF T
    <3> QED BY <2>1, <3>1, Least
  <2>3. k # 1 /\ k \in 1 .. Len(s) /\ k \in 2 .. Len(s)
    <3>1. f[k] # front \o g[k - 1] /\ k \in 1 .. Len(s) BY <2>2
    <3>2. 1 - 1 = 0 OBVIOUS
    <3>3. k # 1 BY <1>5, <3>1, <3>2
    <3> QED BY <1>1, <3>1, <3>3
  <2>4. k - 1 \notin T /\ k - 1 \in 1 .. Len(s) /\ k - 1 \in 1 .. Len(t) /\ k - 2 \in 0 .. Len(t) BY <1>1, <2>2, <2>3
  <2>5. f[k - 1] = front \o g[k - 2]
    <3>1. (k - 1) - 1 = k - 2 BY <2>3
    <3> QED BY <2>4, <3>1
  <2>6. f[k] = IF To[s[k]] = a THEN Append(f[k - 1], s[k]) ELSE f[k - 1]
    BY <1>1, <1>2, <2>3, ListStep
  <2>7. g[k - 1] = IF To[t[k - 1]] = a THEN Append(g[(k - 1) - 1], t[k - 1]) ELSE g[(k - 1) - 1]
    BY <1>1, <1>3, <2>4, ListStep
  <2>8. t[k - 1] = s[k] /\ s[k] \in S /\ (k - 1) - 1 = k - 2
    <3>1. t[k - 1] = s[(k - 1) + 1] BY <1>1, <2>4
    <3>2. (k - 1) + 1 = k BY <2>3
    <3> QED BY <3>1, <3>2, <2>3
  <2>9. g[k - 2] \in Seq(S) BY <1>4, <2>4
  <2>10. front \o Append(g[k - 2], s[k]) = Append(front \o g[k - 2], s[k])
    <3>1. \A x, y \in Seq(S) : \A z \in S : x \o Append(y, z) = Append(x \o y, z) OBVIOUS
    <3>2. front \in Seq(S) /\ g[k - 2] \in Seq(S) /\ s[k] \in S BY <1>6, <2>8, <2>9
    <3> QED BY <3>1, <3>2
  <2>11. f[k] = front \o g[k - 1] BY <2>5, <2>6, <2>7, <2>8, <2>10
  <2> QED BY <2>2, <2>11
<1>8. f[Len(s)] = front \o g[Len(t)]
  <2>1. Len(s) \in 1 .. Len(s) BY <1>1
  <2>2. Len(s) \notin T
    <3> HIDE DEF T
    <3> QED BY <1>7
  <2> QED BY <1>1, <2>1, <2>2
<1>9. SentTo(a, s) = front \o SentTo(a, t) BY <1>1, <1>2, <1>3, <1>8, SentToValue
<1>10. SentTo(a, t) \in Seq(S)
  <2>1. SentTo(a, t) = g[Len(t)] BY <1>1, <1>3, SentToValue
  <2>2. Len(t) \in 0 .. Len(t) BY <1>1
  <2> QED BY <1>4, <2>1, <2>2
<1>11. <<>> \o SentTo(a, t) = SentTo(a, t) BY <1>10
<1> QED BY <1>1, <1>9, <1>11 DEF t, front

-----------------------------------------------------------------------------
(***************************************************************************)
(* Each actor has a mailbox: what was taken over from its queue and what   *)
(* is still in it, as far as it is sent to the actor.                      *)
(***************************************************************************)

\* The messages that go through a queue.
Addressed(tickets, q) == {m \in Messages : tickets[To[m]] = q}

\* Messages are only where the tickets of their actors say.
AddressInv ==
  /\ \A q \in Queues : inbox[q] \in Seq(Addressed(ticket, q))
  /\ \A w \in Workers : gulp[w] \in Seq(Addressed(ticket, curr[w]))
  /\ \A w \in Workers : pc[w] = "receive" => req[w] \in Addressed(ticket, curr[w])
  /\ \A w \in Workers : pc[w] # "receive" => req[w] = Null

\* Who has a ticket was made by the script.
MadeInv == main = "script" => \A a \in Actors : ticket[a] # Null => \E k \in 1 .. step : Script[k] = a

MailInv == IInv /\ AddressInv /\ MadeInv

Content(q) == Gulped(q) \o inbox[q]
Mail == [a \in Actors |-> Mailbox(a)]
Got == [a \in Actors |-> Receiving(a)]

(* What was taken over is what the worker that serves the queue has. *)
LEMMA GulpedIs ==
  ASSUME ServeInv, NEW q \in Queues, NEW w \in Workers, Serving(w, q)
  PROVE  Gulped(q) = gulp[w]
<1>1. {v \in Workers : Serving(v, q)} = {w} BY DEF ServeInv
<1> QED BY <1>1 DEF Gulped

LEMMA GulpedWillBe ==
  ASSUME NEW q \in Queues, NEW w \in Workers, Serving(w, q)',
         \A v \in Workers : Serving(v, q)' => v = w
  PROVE  Gulped(q)' = gulp'[w]
<1>1. {v \in Workers : Serving(v, q)'} = {w} OBVIOUS
<1> QED BY <1>1 DEF Gulped

LEMMA NothingGulped ==
  ASSUME NEW q \in Queues
  PROVE  /\ (\A w \in Workers : ~Serving(w, q)) => Gulped(q) = <<>>
         /\ (\A w \in Workers : ~Serving(w, q)') => Gulped(q)' = <<>>
<1>1. ASSUME \A w \in Workers : ~Serving(w, q) PROVE {v \in Workers : Serving(v, q)} = {} BY <1>1
<1>2. ASSUME \A w \in Workers : ~Serving(w, q)' PROVE {v \in Workers : Serving(v, q)'} = {} BY <1>2
<1> QED BY <1>1, <1>2 DEF Gulped

(* A sequence over a set is one over every larger set. *)
LEMMA SeqWider == ASSUME NEW S, NEW T, S \subseteq T, NEW s \in Seq(S) PROVE s \in Seq(T)
OBVIOUS

LEMMA ContentType ==
  ASSUME ServeInv, AddressInv, NEW q \in Queues
  PROVE  /\ Gulped(q) \in Seq(Addressed(ticket, q)) /\ inbox[q] \in Seq(Addressed(ticket, q))
         /\ Content(q) \in Seq(Addressed(ticket, q)) /\ Content(q) \in Seq(Messages)
<1>1. Gulped(q) \in Seq(Addressed(ticket, q))
  <2>1. CASE \A w \in Workers : ~Serving(w, q)
    <3>1. Gulped(q) = <<>> BY <2>1, NothingGulped
    <3> QED BY <3>1
  <2>2. ASSUME NEW w \in Workers, Serving(w, q) PROVE Gulped(q) \in Seq(Addressed(ticket, q))
    <3>1. Gulped(q) = gulp[w] /\ curr[w] = q BY <2>2, GulpedIs DEF Serving
    <3>2. gulp[w] \in Seq(Addressed(ticket, curr[w])) BY DEF AddressInv
    <3> QED BY <3>1, <3>2
  <2> QED BY <2>1, <2>2
<1>2. inbox[q] \in Seq(Addressed(ticket, q)) BY DEF AddressInv
<1>3. Content(q) \in Seq(Addressed(ticket, q)) BY <1>1, <1>2 DEF Content
<1>4. Addressed(ticket, q) \subseteq Messages BY DEF Addressed
<1> QED BY <1>1, <1>2, <1>3, <1>4, SeqWider

(* An actor has nothing in a queue that is not its own. *)
LEMMA NothingForOthers ==
  ASSUME NEW tickets, NEW q, NEW s \in Seq(Addressed(tickets, q)), NEW a \in Actors, tickets[a] # q
  PROVE  SentTo(a, s) = <<>>
<1> DEFINE none == {m \in Addressed(tickets, q) : To[m] = a}
<1>1. none = {} BY DEF Addressed
<1>2. SentTo(a, s) \in Seq(none) BY SentToType
<1> HIDE DEF none
<1>3. SentTo(a, s) \in Seq({}) BY <1>1, <1>2
<1> QED BY <1>3

Any(S) == CHOOSE v \in S : TRUE

LEMMA MailboxIs ==
  ASSUME NEW a \in Actors
  PROVE  /\ ticket[a] = Null => Mailbox(a) = <<>>
         /\ ticket'[a] = Null => Mailbox(a)' = <<>>
         /\ \A q \in Queues : ticket[a] = q => Mailbox(a) = SentTo(a, Content(q))
         /\ \A q \in Queues : ticket'[a] = q => Mailbox(a)' = SentTo(a, Content(q)')
<1>1. Null \notin Queues BY ActorsAssumption DEF ActorsAssumption
<1>2. ASSUME NEW q \in Queues, ticket[a] = q PROVE Mailbox(a) = SentTo(a, Content(q))
  <2>1. Mailbox(a) = SentTo(a, Gulped(ticket[a]) \o inbox[ticket[a]]) BY <1>1, <1>2 DEF Mailbox
  <2> QED BY <1>2, <2>1 DEF Content
<1>3. ASSUME NEW q \in Queues, ticket'[a] = q PROVE Mailbox(a)' = SentTo(a, Content(q)')
  <2>1. Mailbox(a)' = SentTo(a, Gulped(ticket[a])' \o inbox'[ticket'[a]]) BY <1>1, <1>3 DEF Mailbox
  <2>2. Gulped(ticket[a])' = Gulped(q)'
    <3> DEFINE S == {v \in Workers : Serving(v, q)'}
               T == {v \in Workers : Serving(v, ticket[a])'}
    <3>1. T = S BY <1>3 DEF Serving
    <3>2. Gulped(q)' = IF S = {} THEN <<>> ELSE gulp'[Any(S)] BY DEF Gulped, Any
    <3>3. Gulped(ticket[a])' = IF T = {} THEN <<>> ELSE gulp'[Any(T)] BY DEF Gulped, Any
    <3> HIDE DEF S, T
    <3> QED BY <3>1, <3>2, <3>3
  <2> QED BY <1>3, <2>1, <2>2 DEF Content
<1>4. (ticket[a] = Null => Mailbox(a) = <<>>) /\ (ticket'[a] = Null => Mailbox(a)' = <<>>) BY DEF Mailbox
<1> QED BY <1>2, <1>3, <1>4

(* Steps that leave the contents of all queues as they are are not seen. *)
LEMMA SameMail ==
  ASSUME TypeOK, UNCHANGED ticket, \A q \in Queues : Content(q)' = Content(q)
  PROVE  Mail' = Mail
<1>1. ASSUME NEW a \in Actors PROVE Mailbox(a)' = Mailbox(a)
  <2>1. CASE ticket[a] = Null BY <2>1, MailboxIs
  <2>2. ASSUME NEW q \in Queues, ticket[a] = q PROVE Mailbox(a)' = Mailbox(a)
    <3>1. Mailbox(a) = SentTo(a, Content(q)) /\ Mailbox(a)' = SentTo(a, Content(q)') BY <2>2, MailboxIs
    <3> QED BY <3>1
  <2> QED BY <2>1, <2>2 DEF TypeOK
<1> QED BY <1>1 DEF Mail

LEMMA SameGot == ASSUME UNCHANGED req PROVE Got' = Got
<1>1. \A a \in Actors : Receiving(a)' = Receiving(a) BY DEF Receiving
<1> QED BY <1>1 DEF Got

LEMMA SameMade == ASSUME MadeInv, UNCHANGED <<main, step, ticket>> PROVE MadeInv'
BY DEF MadeInv

(* Who serves what, and has what of it, is as before. *)
LEMMA GulpedStays ==
  ASSUME ServeInv, UNCHANGED gulp, \A v \in Workers : \A q \in Queues : Serving(v, q)' <=> Serving(v, q)
  PROVE  \A q \in Queues : Gulped(q)' = Gulped(q)
<1> TAKE q \in Queues
<1>1. CASE \A w \in Workers : ~Serving(w, q) BY <1>1, NothingGulped
<1>2. ASSUME NEW w \in Workers, Serving(w, q) PROVE Gulped(q)' = Gulped(q)
  <2>1. \A v \in Workers : Serving(v, q)' => v = w BY <1>2 DEF ServeInv
  <2>2. Gulped(q)' = gulp'[w] BY <1>2, <2>1, GulpedWillBe
  <2>3. Gulped(q) = gulp[w] BY <1>2, GulpedIs
  <2> QED BY <2>2, <2>3
<1> QED BY <1>1, <1>2

(* A step that moves no message and starts or ends no service. *)
LEMMA QuietMail ==
  ASSUME IInv, AddressInv, UNCHANGED <<ticket, inbox, gulp, req>>,
         \A v \in Workers : \/ pc'[v] = pc[v] /\ curr'[v] = curr[v]
                            \/ pc[v] \notin {"serve", "receive"} /\ pc'[v] \notin {"serve", "receive"}
  PROVE  AddressInv' /\ Mail' = Mail /\ Got' = Got
<1>1. \A v \in Workers : \A q \in Queues : Serving(v, q)' <=> Serving(v, q) BY DEF Serving
<1>2. \A q \in Queues : Gulped(q)' = Gulped(q) BY <1>1, GulpedStays DEF IInv
<1>3. \A q \in Queues : Content(q)' = Content(q) BY <1>2 DEF Content
<1>5. ASSUME NEW v \in Workers PROVE gulp'[v] \in Seq(Addressed(ticket', curr'[v]))
  <2>1. CASE curr'[v] = curr[v] BY <2>1 DEF AddressInv
  <2>2. CASE pc[v] \notin {"serve", "receive"}
    <3>1. gulp'[v] = <<>> BY <2>2 DEF IInv, ServeInv
    <3> QED BY <3>1
  <2> QED BY <2>1, <2>2
<1>6. ASSUME NEW v \in Workers
      PROVE  /\ pc'[v] = "receive" => req'[v] \in Addressed(ticket', curr'[v])
             /\ pc'[v] # "receive" => req'[v] = Null
  BY DEF AddressInv
<1>7. AddressInv' BY <1>5, <1>6 DEF AddressInv
<1> QED BY <1>3, <1>7, SameMail, SameGot DEF IInv

\* What Mailboxes sees of a step; one that it does not see, and the kinds of
\* those that it does.
Seen == Boxes!Next \/ UNCHANGED <<Mail, Got>>
Unseen == Mail' = Mail /\ Got' = Got
SentOne(a, m) == Mail' = [Mail EXCEPT ![a] = Append(Mail[a], m)] /\ Got' = Got
TookOne(a, m) ==
  /\ Got[a] = {} /\ Mail[a] # <<>> /\ Head(Mail[a]) = m
  /\ Got' = [Got EXCEPT ![a] = {m}] /\ Mail' = [Mail EXCEPT ![a] = Tail(Mail[a])]
EndedOne(a, m) == Got[a] = {m} /\ Got' = [Got EXCEPT ![a] = {}] /\ Mail' = Mail

(* A message that is sent is the last one of its actor. *)
LEMMA InsertMail ==
  ASSUME IInv, AddressInv, NEW m \in Messages, Insert(m), UNCHANGED <<ticket, gulp, pc, curr, req>>
  PROVE  AddressInv' /\ Seen /\ (ticket[To[m]] # Null => SentOne(To[m], m))
<1>1. PICK a \in Actors : a = To[m] BY ActorsAssumption DEF ActorsAssumption
<1>2. inbox \in [Queues -> Seq(Messages)] /\ ticket[a] \in Queues \cup {Null} BY DEF IInv, TypeOK
<1>3. Null \notin Queues BY ActorsAssumption DEF ActorsAssumption
<1>4. CASE ticket[a] = Null
  <2>1. inbox' = inbox BY <1>1, <1>2, <1>3, <1>4 DEF Insert, Set
  <2> QED BY <1>1, <1>4, <2>1, QuietMail DEF Seen
<1>5. ASSUME NEW q \in Queues, ticket[a] = q PROVE AddressInv' /\ Seen /\ SentOne(a, m)
  <2>1. inbox'[q] = Append(inbox[q], m) /\ \A p \in Queues : p # q => inbox'[p] = inbox[p]
    BY <1>1, <1>2, <1>5 DEF Insert, Set
  <2>2. m \in Addressed(ticket, q) BY <1>1, <1>5 DEF Addressed
  <2>3. AddressInv'
    <3>1. ASSUME NEW p \in Queues PROVE inbox'[p] \in Seq(Addressed(ticket, p))
      <4>1. inbox[p] \in Seq(Addressed(ticket, p)) BY DEF AddressInv
      <4>2. CASE p = q
        <5>1. Append(inbox[q], m) \in Seq(Addressed(ticket, q)) BY <2>2, <4>1, <4>2
        <5> QED BY <2>1, <4>2, <5>1
      <4> QED BY <2>1, <4>1, <4>2
    <3> QED BY <3>1 DEF AddressInv
  <2>4. \A p \in Queues : Gulped(p)' = Gulped(p) BY GulpedStays DEF IInv, Serving
  <2>5. \A p \in Queues : p # q => Content(p)' = Content(p) BY <2>1, <2>4 DEF Content
  <2>6. Content(q)' = Append(Content(q), m)
    <3>1. Gulped(q) \in Seq(Addressed(ticket, q)) /\ inbox[q] \in Seq(Addressed(ticket, q))
      BY ContentType DEF IInv
    <3>2. Gulped(q) \o Append(inbox[q], m) = Append(Gulped(q) \o inbox[q], m) BY <2>2, <3>1
    <3> QED BY <2>1, <2>4, <3>2 DEF Content
  <2>7. \A b \in Actors : SentTo(b, Append(Content(q), m)) =
          IF b = a THEN Append(SentTo(b, Content(q)), m) ELSE SentTo(b, Content(q))
    <3>1. Content(q) \in Seq(Messages) BY ContentType DEF IInv
    <3> QED BY <1>1, <3>1, SentToAppend
  <2>8. ASSUME NEW b \in Actors PROVE Mailbox(b)' = IF b = a THEN Append(Mailbox(b), m) ELSE Mailbox(b)
    <3>1. CASE ticket[b] = Null BY <1>3, <1>5, <3>1, MailboxIs
    <3>2. ASSUME NEW p \in Queues, ticket[b] = p
          PROVE  Mailbox(b)' = IF b = a THEN Append(Mailbox(b), m) ELSE Mailbox(b)
      <4>1. Mailbox(b) = SentTo(b, Content(p)) /\ Mailbox(b)' = SentTo(b, Content(p)') BY <3>2, MailboxIs
      <4>2. CASE p = q BY <2>6, <2>7, <4>1, <4>2
      <4>3. CASE p # q BY <1>5, <2>5, <3>2, <4>1, <4>3
      <4> QED BY <4>2, <4>3
    <3> QED BY <3>1, <3>2 DEF IInv, TypeOK
  <2>9. Mail' = [Mail EXCEPT ![a] = Append(Mail[a], m)] BY <2>8 DEF Mail
  <2>10. Boxes!Send(a, m) BY <2>9, SameGot DEF Boxes!Send, Mail, Got
  <2>11. SentOne(a, m) BY <2>9, SameGot DEF SentOne
  <2> QED BY <2>3, <2>10, <2>11 DEF Seen, Boxes!Next
<1> QED BY <1>1, <1>2, <1>4, <1>5

(* An actor is made once, and nothing was sent to it before. *)
LEMMA MakeActorMail ==
  ASSUME MailInv, IInv', NEW a \in Actors, MakeActor(a)
  PROVE  AddressInv' /\ MadeInv' /\ Unseen /\ ticket[a] = Null
<1>1. /\ main = "script" /\ step \in Nat /\ step < Len(Script) /\ Script[step + 1] = a /\ step' = step + 1
      /\ UNCHANGED <<main, inbox, gulp, pc, curr, req>>
  BY DEF MakeActor, queueVars, loopVars, reqVars, MailInv, IInv, TypeOK
<1>2. PICK n \in Queues \cup {Null} : ticket' = [ticket EXCEPT ![a] = n]
  <2>1. ticket' \in [Actors -> Queues \cup {Null}] BY DEF IInv, TypeOK
  <2>2. ticket' = [ticket EXCEPT ![a] = ticket'[a]] BY DEF MakeActor, Set, MailInv, IInv, TypeOK
  <2> QED BY <2>1, <2>2
<1>3. ticket \in [Actors -> Queues \cup {Null}] BY DEF MailInv, IInv, TypeOK
<1>4. ticket[a] = Null
  <2>1. SUFFICES ASSUME ticket[a] # Null PROVE FALSE OBVIOUS
  <2>2. PICK k \in 1 .. step : Script[k] = a BY <1>1, <2>1 DEF MailInv, MadeInv
  <2>3. k \in DOMAIN Script /\ step + 1 \in DOMAIN Script
    <3>1. Script \in Seq(Actors \cup Messages) BY ActorsAssumption DEF ActorsAssumption
    <3> QED BY <1>1, <3>1
  <2>4. k = step + 1 BY <1>1, <2>2, <2>3, ActorsAssumption DEF ActorsAssumption
  <2> QED BY <1>1, <2>4
<1>5. \A q \in Queues : Addressed(ticket, q) \subseteq Addressed(ticket', q)
  <2>1. Null \notin Queues BY ActorsAssumption DEF ActorsAssumption
  <2>2. \A b \in Actors : b # a => ticket'[b] = ticket[b] BY <1>2, <1>3
  <2> QED BY <1>4, <2>1, <2>2, ActorsAssumption DEF ActorsAssumption, Addressed
<1>6. AddressInv'
  <2>1. ASSUME NEW q \in Queues PROVE inbox'[q] \in Seq(Addressed(ticket', q))
    <3>1. inbox'[q] \in Seq(Addressed(ticket, q)) BY <1>1 DEF MailInv, AddressInv
    <3>2. Addressed(ticket, q) \subseteq Addressed(ticket', q) BY <1>5
    <3> QED BY <3>1, <3>2, SeqWider
  <2>2. ASSUME NEW w \in Workers PROVE gulp'[w] \in Seq(Addressed(ticket', curr'[w]))
    <3>1. CASE pc[w] \notin {"serve", "receive"}
      <4>1. gulp'[w] = <<>> BY <1>1, <3>1 DEF MailInv, IInv, ServeInv
      <4> QED BY <4>1
    <3>2. CASE pc[w] \in {"serve", "receive"}
      <4>1. curr'[w] \in Queues /\ curr'[w] = curr[w] BY <1>1, <3>2 DEF MailInv, IInv, ServeInv
      <4>2. gulp'[w] \in Seq(Addressed(ticket, curr'[w])) BY <1>1, <4>1 DEF MailInv, AddressInv
      <4>3. Addressed(ticket, curr'[w]) \subseteq Addressed(ticket', curr'[w]) BY <1>5, <4>1
      <4> QED BY <4>2, <4>3, SeqWider
    <3> QED BY <3>1, <3>2
  <2>3. ASSUME NEW w \in Workers
        PROVE  /\ pc'[w] = "receive" => req'[w] \in Addressed(ticket', curr'[w])
               /\ pc'[w] # "receive" => req'[w] = Null
    <3>1. pc[w] = "receive" => curr[w] \in Queues BY DEF MailInv, IInv, ServeInv
    <3> QED BY <1>1, <1>5, <3>1 DEF MailInv, AddressInv
  <2> QED BY <2>1, <2>2, <2>3 DEF AddressInv
<1>7. MadeInv'
  <2>1. ASSUME NEW b \in Actors, ticket'[b] # Null PROVE \E k \in 1 .. step + 1 : Script[k] = b
    <3>1. CASE b = a BY <1>1, <3>1
    <3>2. CASE b # a
      <4>1. ticket[b] # Null BY <1>2, <1>3, <2>1, <3>2
      <4>2. PICK k \in 1 .. step : Script[k] = b BY <1>1, <4>1 DEF MailInv, MadeInv
      <4>3. k \in 1 .. step + 1 BY <1>1
      <4> QED BY <4>2, <4>3
    <3> QED BY <3>1, <3>2
  <2> QED BY <1>1, <2>1 DEF MadeInv
<1>8. \A q \in Queues : Content(q)' = Content(q)
  <2>1. \A v \in Workers : \A q \in Queues : Serving(v, q)' <=> Serving(v, q) BY <1>1 DEF Serving
  <2>2. \A q \in Queues : Gulped(q)' = Gulped(q) BY <1>1, <2>1, GulpedStays DEF MailInv, IInv
  <2> QED BY <1>1, <2>2 DEF Content
<1>9. ASSUME NEW b \in Actors PROVE Mailbox(b)' = Mailbox(b)
  <2>1. CASE b # a /\ ticket[b] = Null
    <3>1. ticket'[b] = Null BY <1>2, <1>3, <2>1
    <3> QED BY <2>1, <3>1, MailboxIs
  <2>2. ASSUME NEW q \in Queues, b # a, ticket[b] = q PROVE Mailbox(b)' = Mailbox(b)
    <3>1. ticket'[b] = q BY <1>2, <1>3, <2>2
    <3>2. Mailbox(b) = SentTo(b, Content(q)) /\ Mailbox(b)' = SentTo(b, Content(q)') BY <2>2, <3>1, MailboxIs
    <3> QED BY <1>8, <3>2
  <2>3. CASE b = a /\ n = Null
    <3>1. ticket'[a] = Null BY <1>2, <1>3, <2>3
    <3> QED BY <1>4, <2>3, <3>1, MailboxIs
  <2>4. CASE b = a /\ n \in Queues
    <3>1. ticket'[a] = n BY <1>2, <1>3, <2>4
    <3>2. Mailbox(a) = <<>> /\ Mailbox(a)' = SentTo(a, Content(n)) BY <1>4, <1>8, <2>4, <3>1, MailboxIs
    <3>3. Content(n) \in Seq(Addressed(ticket, n)) BY <2>4, ContentType DEF MailInv, IInv
    <3>4. ticket[a] # n BY <1>4, <2>4, ActorsAssumption DEF ActorsAssumption
    <3>5. SentTo(a, Content(n)) = <<>> BY <3>3, <3>4, NothingForOthers
    <3> QED BY <2>4, <3>2, <3>5
  <2> QED BY <1>2, <1>3, <2>1, <2>2, <2>3, <2>4
<1>10. Mail' = Mail BY <1>9 DEF Mail
<1> QED BY <1>1, <1>4, <1>6, <1>7, <1>10, SameGot DEF Unseen

(* What transfer moves. *)
LEMMA TransferMoves ==
  ASSUME IInv, NEW w \in Workers, pc[w] = "transfer", Transfer(w), NEW c \in Queues, c = curr[w]
  PROVE  \/ gulp'[w] = <<>> /\ UNCHANGED <<inbox, gulp>>
         \/ /\ gulp'[w] # <<>> /\ ~processed[c]
            /\ gulp' = [gulp EXCEPT ![w] = inbox[c]] /\ inbox' = [inbox EXCEPT ![c] = <<>>]
<1>1. gulp[w] = <<>> BY DEF IInv, ServeInv
<1>2. gulp \in [Workers -> Seq(Messages)] /\ inbox \in [Queues -> Seq(Messages)] BY DEF IInv, TypeOK
<1>3. CASE processed[c] BY <1>1, <1>3 DEF Transfer
<1>4. CASE ~processed[c]
  <2>1. inbox' = [inbox EXCEPT ![c] = <<>>] /\ gulp' = [gulp EXCEPT ![w] = inbox[c]]
    BY <1>1, <1>4 DEF Transfer, Set
  <2>2. CASE inbox[c] = <<>> BY <1>1, <1>2, <2>1, <2>2
  <2>3. CASE inbox[c] # <<>> BY <1>2, <1>4, <2>1, <2>3
  <2> QED BY <2>2, <2>3
<1> QED BY <1>3, <1>4

(* A worker that finds nothing to take over is not seen. *)
LEMMA NothingMail ==
  ASSUME IInv, AddressInv, NEW w \in Workers, GulpNothing(w) \/ GoStealing(w)
  PROVE  AddressInv' /\ Unseen
<1>1. PICK c \in Queues : c = curr[w] BY DEF GulpNothing, GoStealing, IInv, ServeInv
<1>2. /\ pc[w] = "transfer" /\ Transfer(w) /\ gulp'[w] = <<>> /\ UNCHANGED <<ticket, req>>
      /\ \/ Continue(w) \/ Remain(w, "gone")
         \/ (Goto(w, "gone") \/ Goto(w, "choose")) /\ curr' = Set(curr, w, Null)
  <2>1. CASE GulpNothing(w) BY <2>1 DEF GulpNothing, ContinueOrExit, sysVars, reqVars
  <2>2. CASE GoStealing(w) BY <2>2 DEF GoStealing, sysVars, reqVars
  <2> QED BY <2>1, <2>2
<1>3. UNCHANGED <<inbox, gulp>> BY <1>1, <1>2, TransferMoves
<1>4. pc'[w] \notin {"serve", "receive"} /\ \A v \in Workers : v # w => pc'[v] = pc[v] /\ curr'[v] = curr[v]
  BY <1>2 DEF Continue, Remain, Goto, Set, IInv, TypeOK
<1> QED BY <1>2, <1>3, <1>4, QuietMail DEF Unseen

(* The messages that a worker takes over stay in their mailboxes. *)
LEMMA GulpMail ==
  ASSUME IInv, AddressInv, NEW w \in Workers, Gulp(w)
  PROVE  AddressInv' /\ Unseen
<1>1. PICK c \in Queues : c = curr[w] BY DEF Gulp, IInv, ServeInv
<1>2. pc[w] = "transfer" /\ Transfer(w) /\ gulp'[w] # <<>> /\ UNCHANGED <<ticket, req, curr>> /\ Goto(w, "serve")
  BY DEF Gulp, sysVars, reqVars
<1>3. ~processed[c] /\ gulp' = [gulp EXCEPT ![w] = inbox[c]] /\ inbox' = [inbox EXCEPT ![c] = <<>>]
  BY <1>1, <1>2, TransferMoves
<1>4. gulp \in [Workers -> Seq(Messages)] /\ inbox \in [Queues -> Seq(Messages)] BY DEF IInv, TypeOK
<1>5. /\ gulp'[w] = inbox[c] /\ \A v \in Workers : v # w => gulp'[v] = gulp[v]
      /\ inbox'[c] = <<>> /\ \A q \in Queues : q # c => inbox'[q] = inbox[q]
  BY <1>3, <1>4
<1>6. pc'[w] = "serve" /\ \A v \in Workers : v # w => pc'[v] = pc[v]
  BY <1>2 DEF Goto, Set, IInv, TypeOK
<1>7. \A v \in Workers : \A q \in Queues : Serving(v, q)' <=> Serving(v, q) \/ (v = w /\ q = c)
  BY <1>1, <1>2, <1>6 DEF Serving
<1>8. \A v \in Workers : ~Serving(v, c) BY <1>3 DEF IInv, ServeInv
<1>9. Content(c)' = Content(c)
  <2>1. Gulped(c) = <<>> BY <1>8, NothingGulped
  <2>2. Gulped(c)' = inbox[c] BY <1>5, <1>7, <1>8, GulpedWillBe
  <2>3. inbox[c] \in Seq(Messages) BY <1>4
  <2>4. inbox[c] \o <<>> = <<>> \o inbox[c] BY <2>3
  <2> QED BY <1>5, <2>1, <2>2, <2>4 DEF Content
<1>10. ASSUME NEW q \in Queues, q # c PROVE Content(q)' = Content(q)
  <2>1. \A v \in Workers : Serving(v, q)' <=> Serving(v, q) BY <1>7, <1>10
  <2>2. Gulped(q)' = Gulped(q)
    <3>1. CASE \A v \in Workers : ~Serving(v, q) BY <2>1, <3>1, NothingGulped
    <3>2. ASSUME NEW v \in Workers, Serving(v, q) PROVE Gulped(q)' = Gulped(q)
      <4>1. \A u \in Workers : Serving(u, q)' => u = v BY <2>1, <3>2 DEF IInv, ServeInv
      <4>2. Gulped(q)' = gulp'[v] BY <2>1, <3>2, <4>1, GulpedWillBe
      <4>3. Gulped(q) = gulp[v] BY <3>2, GulpedIs DEF IInv
      <4>4. v # w BY <1>2, <3>2 DEF Serving
      <4> QED BY <1>5, <4>2, <4>3, <4>4
    <3> QED BY <3>1, <3>2
  <2> QED BY <1>5, <1>10, <2>2 DEF Content
<1>11. Mail' = Mail BY <1>2, <1>9, <1>10, SameMail DEF IInv
<1>12. AddressInv'
  <2>1. ASSUME NEW q \in Queues PROVE inbox'[q] \in Seq(Addressed(ticket, q))
    <3>1. CASE q = c
      <4>1. inbox'[q] = <<>> BY <1>5, <3>1
      <4> QED BY <4>1
    <3>2. CASE q # c BY <1>5, <3>2 DEF AddressInv
    <3> QED BY <3>1, <3>2
  <2>2. ASSUME NEW v \in Workers PROVE gulp'[v] \in Seq(Addressed(ticket, curr[v]))
    <3>1. inbox[c] \in Seq(Addressed(ticket, c)) /\ gulp[v] \in Seq(Addressed(ticket, curr[v])) BY DEF AddressInv
    <3> QED BY <1>1, <1>5, <3>1
  <2>3. ASSUME NEW v \in Workers
        PROVE  /\ pc'[v] = "receive" => req[v] \in Addressed(ticket, curr[v])
               /\ pc'[v] # "receive" => req[v] = Null
    BY <1>2, <1>6 DEF AddressInv
  <2> QED BY <1>2, <2>1, <2>2, <2>3 DEF AddressInv
<1> QED BY <1>2, <1>11, <1>12, SameGot DEF Unseen

(* A worker serves a queue until nothing of it is left. *)
LEMMA ServedMail ==
  ASSUME IInv, AddressInv, NEW w \in Workers, Served(w)
  PROVE  AddressInv' /\ Unseen
<1>1. PICK c \in Queues : c = curr[w] BY DEF Served, IInv, ServeInv
<1>2. /\ pc[w] = "serve" /\ gulp[w] = <<>> /\ UNCHANGED <<ticket, inbox, gulp, req>>
      /\ Continue(w) \/ Remain(w, "gone")
  BY DEF Served, ContinueOrExit, sysVars, reqVars
<1>3. pc'[w] \notin {"serve", "receive"} /\ \A v \in Workers : v # w => pc'[v] = pc[v] /\ curr'[v] = curr[v]
  BY <1>2 DEF Continue, Remain, Goto, Set, IInv, TypeOK
<1>4. \A v \in Workers : \A q \in Queues : Serving(v, q)' <=> Serving(v, q) /\ v # w
  BY <1>3 DEF Serving
<1>5. ASSUME NEW q \in Queues PROVE Gulped(q)' = Gulped(q)
  <2>1. ASSUME NEW v \in Workers, Serving(v, q)' PROVE Gulped(q)' = Gulped(q)
    <3>1. Serving(v, q) /\ \A u \in Workers : Serving(u, q)' => u = v BY <1>4, <2>1 DEF IInv, ServeInv
    <3>2. Gulped(q)' = gulp'[v] BY <2>1, <3>1, GulpedWillBe
    <3>3. Gulped(q) = gulp[v] BY <3>1, GulpedIs DEF IInv
    <3> QED BY <1>2, <3>2, <3>3
  <2>2. CASE Serving(w, q) /\ \A v \in Workers : ~Serving(v, q)'
    <3>1. Gulped(q) = gulp[w] BY <2>2, GulpedIs DEF IInv
    <3>2. Gulped(q)' = <<>> BY <2>2, NothingGulped
    <3> QED BY <1>2, <3>1, <3>2
  <2>3. CASE \A v \in Workers : ~Serving(v, q) /\ ~Serving(v, q)'
    <3>1. Gulped(q)' = <<>> BY <2>3, NothingGulped
    <3>2. Gulped(q) = <<>> BY <2>3, NothingGulped
    <3> QED BY <3>1, <3>2
  <2> QED BY <1>4, <2>1, <2>2, <2>3
<1>6. \A q \in Queues : Content(q)' = Content(q) BY <1>2, <1>5 DEF Content
<1>7. AddressInv'
  <2>1. ASSUME NEW v \in Workers PROVE gulp[v] \in Seq(Addressed(ticket, curr'[v]))
    <3>1. CASE v = w
      <4>1. gulp[v] = <<>> BY <1>2, <3>1
      <4> QED BY <4>1
    <3>2. CASE v # w BY <1>3, <3>2 DEF AddressInv
    <3> QED BY <3>1, <3>2
  <2>2. ASSUME NEW v \in Workers
        PROVE  /\ pc'[v] = "receive" => req[v] \in Addressed(ticket, curr'[v])
               /\ pc'[v] # "receive" => req[v] = Null
    BY <1>2, <1>3 DEF AddressInv
  <2>3. \A q \in Queues : inbox'[q] \in Seq(Addressed(ticket', q)) BY <1>2 DEF AddressInv
  <2> QED BY <1>2, <2>1, <2>2, <2>3 DEF AddressInv
<1> QED BY <1>2, <1>6, <1>7, SameMail, SameGot DEF Unseen, IInv

(* The oldest message that was taken over is the oldest of its actor, who  *)
(* is not receiving. *)
LEMMA DeliverMail ==
  ASSUME IInv, AddressInv, NEW w \in Workers, Deliver(w)
  PROVE  /\ AddressInv' /\ Seen
         /\ \E a \in Actors, m \in Messages : TookOne(a, m)
<1>1. PICK c \in Queues : c = curr[w] BY DEF Deliver, IInv, ServeInv
<1>2. PICK m : m = Head(gulp[w]) OBVIOUS
<1>3. /\ pc[w] = "serve" /\ gulp[w] # <<>> /\ UNCHANGED <<ticket, inbox, curr>>
      /\ req' = [req EXCEPT ![w] = m] /\ gulp' = [gulp EXCEPT ![w] = Tail(gulp[w])]
      /\ pc' = [pc EXCEPT ![w] = "receive"]
  BY <1>2 DEF Deliver, Goto, Set, sysVars, queueVars
<1>4. /\ pc'[w] = "receive" /\ \A v \in Workers : v # w => pc'[v] = pc[v]
      /\ req'[w] = m /\ \A v \in Workers : v # w => req'[v] = req[v]
      /\ gulp'[w] = Tail(gulp[w]) /\ \A v \in Workers : v # w => gulp'[v] = gulp[v]
  BY <1>3 DEF IInv, TypeOK
<1>5. gulp[w] \in Seq(Addressed(ticket, c)) /\ inbox[c] \in Seq(Addressed(ticket, c)) BY <1>1 DEF AddressInv
<1>6. m \in Addressed(ticket, c) /\ Tail(gulp[w]) \in Seq(Addressed(ticket, c)) BY <1>2, <1>3, <1>5
<1>7. PICK a \in Actors : a = To[m] BY <1>6, ActorsAssumption DEF ActorsAssumption, Addressed
<1>8. ticket[a] = c /\ m \in Messages BY <1>6, <1>7 DEF Addressed
<1>9. \A v \in Workers : \A q \in Queues : Serving(v, q)' <=> Serving(v, q) BY <1>3, <1>4 DEF Serving
<1>10. Serving(w, c) /\ \A v \in Workers : Serving(v, c) => v = w BY <1>1, <1>3 DEF Serving, IInv, ServeInv
<1>11. /\ Content(c) \in Seq(Messages) /\ Content(c) # <<>> /\ Head(Content(c)) = m
       /\ Content(c)' = Tail(Content(c))
  <2>1. Gulped(c) = gulp[w] BY <1>10, GulpedIs DEF IInv
  <2>2. Gulped(c)' = Tail(gulp[w]) BY <1>4, <1>9, <1>10, GulpedWillBe
  <2>3. /\ gulp[w] \o inbox[c] # <<>> /\ Head(gulp[w] \o inbox[c]) = Head(gulp[w])
        /\ Tail(gulp[w]) \o inbox[c] = Tail(gulp[w] \o inbox[c])
    <3>1. PICK u \in Seq(Addressed(ticket, c)), x \in Seq(Addressed(ticket, c)) : u = gulp[w] /\ x = inbox[c]
      BY <1>5
    <3>2. u # <<>> BY <1>3, <3>1
    <3>3. u \o x # <<>> /\ Head(u \o x) = Head(u) /\ Tail(u) \o x = Tail(u \o x) BY <3>2
    <3> QED BY <3>1, <3>3
  <2>4. Content(c) \in Seq(Messages) BY ContentType DEF IInv
  <2> QED BY <1>2, <1>3, <2>1, <2>2, <2>3, <2>4 DEF Content
<1>12. ASSUME NEW q \in Queues, q # c PROVE Content(q)' = Content(q)
  <2>1. CASE \A v \in Workers : ~Serving(v, q)
    <3>1. Gulped(q)' = <<>> /\ Gulped(q) = <<>> BY <1>9, <2>1, NothingGulped
    <3> QED BY <1>3, <3>1 DEF Content
  <2>2. ASSUME NEW v \in Workers, Serving(v, q) PROVE Content(q)' = Content(q)
    <3>1. \A u \in Workers : Serving(u, q)' => u = v BY <1>9, <2>2 DEF IInv, ServeInv
    <3>2. Gulped(q)' = gulp'[v] BY <1>9, <2>2, <3>1, GulpedWillBe
    <3>3. Gulped(q) = gulp[v] BY <2>2, GulpedIs DEF IInv
    <3>4. v # w BY <1>1, <1>12, <2>2 DEF Serving
    <3> QED BY <1>3, <1>4, <3>2, <3>3, <3>4 DEF Content
  <2> QED BY <2>1, <2>2
<1>13. ASSUME NEW b \in Actors
       PROVE  Mailbox(b) = IF b = a THEN <<m>> \o Mailbox(b)' ELSE Mailbox(b)'
  <2>1. CASE ticket[b] = Null
    <3>1. b # a BY <1>8, <2>1, ActorsAssumption DEF ActorsAssumption
    <3>2. ticket'[b] = Null BY <1>3, <2>1
    <3> QED BY <2>1, <3>1, <3>2, MailboxIs
  <2>2. ASSUME NEW q \in Queues, ticket[b] = q
        PROVE  Mailbox(b) = IF b = a THEN <<m>> \o Mailbox(b)' ELSE Mailbox(b)'
    <3>1. Mailbox(b) = SentTo(b, Content(q)) /\ Mailbox(b)' = SentTo(b, Content(q)')
      BY <1>3, <2>2, MailboxIs
    <3>2. CASE q # c BY <1>8, <1>12, <2>2, <3>1, <3>2
    <3>3. CASE q = c
      <4>1. SentTo(b, Content(c)) = IF To[m] = b THEN <<m>> \o SentTo(b, Tail(Content(c)))
                                    ELSE SentTo(b, Tail(Content(c)))
        BY <1>11, SentToTail
      <4> QED BY <1>7, <1>11, <3>1, <3>3, <4>1
    <3> QED BY <3>2, <3>3
  <2> QED BY <2>1, <2>2 DEF IInv, TypeOK
<1>14. Mailbox(a)' \in Seq(Messages)
  <2>1. Content(c)' \in Seq(Messages) BY <1>11
  <2>2. Mailbox(a)' = SentTo(a, Content(c)') BY <1>3, <1>8, MailboxIs
  <2>3. SentTo(a, Content(c)') \in Seq({n \in Messages : To[n] = a}) BY <2>1, SentToType
  <2>4. {n \in Messages : To[n] = a} \subseteq Messages OBVIOUS
  <2> QED BY <2>2, <2>3, <2>4, SeqWider
<1>15. Mailbox(a) # <<>> /\ Head(Mailbox(a)) = m /\ Mailbox(a)' = Tail(Mailbox(a))
  <2>1. Mailbox(a) = <<m>> \o Mailbox(a)' BY <1>13
  <2>2. PICK x \in Seq(Messages) : x = Mailbox(a)' BY <1>14
  <2>3. <<m>> \o x # <<>> /\ Head(<<m>> \o x) = m /\ Tail(<<m>> \o x) = x BY <1>8
  <2> QED BY <2>1, <2>2, <2>3
<1>16. Mail' = [Mail EXCEPT ![a] = Tail(Mail[a])] BY <1>13, <1>15 DEF Mail
<1>17. ASSUME NEW v \in Workers, NEW n \in Messages, req[v] = n PROVE pc[v] = "receive" /\ v # w /\ To[n] # a
  <2>1. req[v] # Null BY <1>17, ActorsAssumption DEF ActorsAssumption
  <2>2. pc[v] = "receive" /\ v # w BY <1>3, <2>1 DEF AddressInv
  <2>3. ticket[To[n]] = curr[v] BY <1>17, <2>2 DEF AddressInv, Addressed
  <2>4. curr[v] # c BY <1>10, <2>2 DEF Serving
  <2> QED BY <1>8, <2>2, <2>3, <2>4
<1>18. Receiving(a) = {} BY <1>17 DEF Receiving
<1>19. Receiving(a)' = {m}
  <2>1. \A n \in Messages : (\E v \in Workers : req'[v] = n) /\ To[n] = a <=> n = m BY <1>4, <1>7, <1>8, <1>17
  <2> QED BY <1>8, <2>1 DEF Receiving
<1>20. ASSUME NEW b \in Actors, b # a PROVE Receiving(b)' = Receiving(b)
  <2>1. \A n \in Messages : To[n] = b => ((\E v \in Workers : req'[v] = n) <=> \E v \in Workers : req[v] = n)
    BY <1>4, <1>7, <1>17, <1>20
  <2> QED BY <2>1 DEF Receiving
<1>21. Got[a] = {} /\ Got' = [Got EXCEPT ![a] = {m}] BY <1>18, <1>19, <1>20 DEF Got
<1>22. Mail[a] # <<>> /\ Head(Mail[a]) = m BY <1>15 DEF Mail
<1>23. Boxes!Receive(a) BY <1>16, <1>21, <1>22 DEF Boxes!Receive, Mail, Got
<1>24. AddressInv'
  <2>1. ASSUME NEW v \in Workers PROVE gulp'[v] \in Seq(Addressed(ticket, curr[v]))
    <3>1. gulp[v] \in Seq(Addressed(ticket, curr[v])) BY DEF AddressInv
    <3> QED BY <1>1, <1>4, <1>6, <3>1
  <2>2. ASSUME NEW v \in Workers
        PROVE  /\ pc'[v] = "receive" => req'[v] \in Addressed(ticket, curr[v])
               /\ pc'[v] # "receive" => req'[v] = Null
    BY <1>1, <1>4, <1>6 DEF AddressInv
  <2>3. \A q \in Queues : inbox'[q] \in Seq(Addressed(ticket', q)) BY <1>3 DEF AddressInv
  <2> QED BY <1>3, <2>1, <2>2, <2>3 DEF AddressInv
<1>25. TookOne(a, m) BY <1>16, <1>21, <1>22 DEF TookOne
<1> QED BY <1>8, <1>23, <1>24, <1>25 DEF Seen, Boxes!Next

(* Who has received a message was receiving that one. *)
LEMMA ReceivedMail ==
  ASSUME IInv, AddressInv, NEW w \in Workers, Received(w)
  PROVE  /\ AddressInv' /\ Seen
         /\ req[w] \in Messages /\ To[req[w]] \in Actors /\ EndedOne(To[req[w]], req[w])
<1>1. /\ pc[w] = "receive" /\ UNCHANGED <<ticket, inbox, gulp, curr>>
      /\ req' = [req EXCEPT ![w] = Null] /\ pc' = [pc EXCEPT ![w] = "serve"]
  BY DEF Received, Goto, Set, queueVars, loopVars
<1>2. PICK c \in Queues : c = curr[w] BY <1>1 DEF IInv, ServeInv
<1>3. PICK m \in Messages : m = req[w] /\ ticket[To[m]] = c BY <1>1, <1>2 DEF AddressInv, Addressed
<1>4. PICK a \in Actors : a = To[m] BY ActorsAssumption DEF ActorsAssumption
<1>5. /\ pc'[w] = "serve" /\ \A v \in Workers : v # w => pc'[v] = pc[v]
      /\ req'[w] = Null /\ \A v \in Workers : v # w => req'[v] = req[v]
  BY <1>1 DEF IInv, TypeOK
<1>6. \A v \in Workers : \A q \in Queues : Serving(v, q)' <=> Serving(v, q) BY <1>1, <1>5 DEF Serving
<1>7. \A q \in Queues : Content(q)' = Content(q)
  <2>1. \A q \in Queues : Gulped(q)' = Gulped(q) BY <1>1, <1>6, GulpedStays DEF IInv
  <2> QED BY <1>1, <2>1 DEF Content
<1>8. Mail' = Mail BY <1>1, <1>7, SameMail DEF IInv
<1>9. ASSUME NEW v \in Workers, NEW n \in Messages, req[v] = n, To[n] = a PROVE v = w
  <2>1. req[v] # Null BY <1>9, ActorsAssumption DEF ActorsAssumption
  <2>2. pc[v] = "receive" BY <2>1 DEF AddressInv
  <2>3. ticket[To[n]] = curr[v] BY <1>9, <2>2 DEF AddressInv, Addressed
  <2>4. Serving(v, c) /\ Serving(w, c) BY <1>1, <1>2, <1>3, <1>4, <1>9, <2>2, <2>3 DEF Serving
  <2> QED BY <2>4 DEF IInv, ServeInv
<1>10. Null \notin Messages BY ActorsAssumption DEF ActorsAssumption
<1>11. Receiving(a) = {m} BY <1>3, <1>4, <1>9 DEF Receiving
<1>12. Receiving(a)' = {}
  <2>1. \A n \in Messages, v \in Workers : req'[v] = n => To[n] # a BY <1>5, <1>9, <1>10
  <2> QED BY <2>1 DEF Receiving
<1>13. ASSUME NEW b \in Actors, b # a PROVE Receiving(b)' = Receiving(b)
  <2>1. \A n \in Messages : To[n] = b => ((\E v \in Workers : req'[v] = n) <=> \E v \in Workers : req[v] = n)
    BY <1>3, <1>4, <1>5, <1>10, <1>13
  <2> QED BY <2>1 DEF Receiving
<1>14. Got[a] # {} /\ Got' = [Got EXCEPT ![a] = {}] BY <1>11, <1>12, <1>13 DEF Got
<1>15. Boxes!Finish(a) BY <1>8, <1>14 DEF Boxes!Finish, Mail, Got
<1>16. AddressInv'
  <2>1. ASSUME NEW v \in Workers
        PROVE  /\ pc'[v] = "receive" => req'[v] \in Addressed(ticket, curr[v])
               /\ pc'[v] # "receive" => req'[v] = Null
    BY <1>5 DEF AddressInv
  <2>2. \A q \in Queues : inbox'[q] \in Seq(Addressed(ticket', q)) BY <1>1 DEF AddressInv
  <2>3. \A v \in Workers : gulp'[v] \in Seq(Addressed(ticket', curr'[v])) BY <1>1 DEF AddressInv
  <2> QED BY <1>1, <2>1, <2>2, <2>3 DEF AddressInv
<1>17. EndedOne(a, m) BY <1>8, <1>11, <1>14 DEF EndedOne, Got
<1> QED BY <1>3, <1>4, <1>15, <1>16, <1>17 DEF Seen, Boxes!Next

\* A step of choose_queue.
Choosing(w) == Choose(w) \/ ChooseIdle(w) \/ ChooseFull(w)

(* Looking for queues and swapping them moves no message. *)
LEMMA StillMail ==
  ASSUME IInv, AddressInv, NEW w \in Workers,
         \/ Look(w) \/ Check(w) \/ Choosing(w) \/ ReadMine(w) \/ ReadTheirs(w) \/ Take(w) \/ TakeFails(w)
         \/ Give(w) \/ GiveFails(w) \/ Undo(w) \/ Put(w)
  PROVE  AddressInv' /\ Unseen
<1>1. UNCHANGED <<ticket, inbox, gulp, req>>
  <2>1. CASE Look(w) BY <2>1 DEF Look, sysVars, queueVars, reqVars
  <2>2. CASE Check(w) BY <2>2 DEF Check, sysVars, queueVars, reqVars
  <2>3. CASE Choosing(w) BY <2>3 DEF Choosing, Choose, ChooseIdle, ChooseFull, sysVars, queueVars, reqVars
  <2>4. CASE ReadMine(w) BY <2>4 DEF ReadMine, sysVars, queueVars, loopVars, reqVars
  <2>5. CASE ReadTheirs(w) BY <2>5 DEF ReadTheirs, sysVars, queueVars, reqVars
  <2>6. CASE Take(w) BY <2>6 DEF Take, sysVars, loopVars, reqVars
  <2>7. CASE TakeFails(w) BY <2>7 DEF TakeFails, sysVars, queueVars, reqVars
  <2>8. CASE Give(w) BY <2>8 DEF Give, sysVars, loopVars, reqVars
  <2>9. CASE GiveFails(w) BY <2>9 DEF GiveFails, sysVars, queueVars, loopVars, reqVars
  <2>10. CASE Undo(w) BY <2>10 DEF Undo, sysVars, reqVars
  <2>11. CASE Put(w) BY <2>11 DEF Put, sysVars, reqVars
  <2> QED BY <2>1, <2>2, <2>3, <2>4, <2>5, <2>6, <2>7, <2>8, <2>9, <2>10, <2>11
<1>2. /\ pc[w] \notin {"serve", "receive"} /\ pc'[w] \notin {"serve", "receive"}
      /\ \A v \in Workers : v # w => pc'[v] = pc[v] /\ curr'[v] = curr[v]
  <2> USE DEF Goto, Set, Continue, Remain, Return, IInv, TypeOK
  <2>1. CASE Look(w) BY <2>1 DEF Look
  <2>2. CASE Check(w) BY <2>2 DEF Check
  <2>3. CASE Choosing(w)
    <3>1. ASSUME NextChoice(w) PROVE pc'[w] \notin {"serve", "receive"} /\ \A v \in Workers : v # w => pc'[v] = pc[v] /\ curr'[v] = curr[v]
      BY <3>1 DEF NextChoice
    <3>2. CASE Choose(w) BY <3>1, <3>2 DEF Choose
    <3>3. CASE ChooseIdle(w) BY <3>1, <3>3 DEF ChooseIdle
    <3>4. CASE ChooseFull(w) BY <3>1, <3>4 DEF ChooseFull
    <3> QED BY <2>3, <3>2, <3>3, <3>4 DEF Choosing
  <2>4. CASE ReadMine(w) BY <2>4 DEF ReadMine, loopVars
  <2>5. CASE ReadTheirs(w) BY <2>5 DEF ReadTheirs
  <2>6. CASE Take(w) BY <2>6 DEF Take, loopVars
  <2>7. CASE TakeFails(w) BY <2>7 DEF TakeFails
  <2>8. CASE Give(w) BY <2>8 DEF Give, loopVars
  <2>9. CASE GiveFails(w) BY <2>9 DEF GiveFails, loopVars
  <2>10. CASE Undo(w) BY <2>10 DEF Undo
  <2>11. CASE Put(w) BY <2>11 DEF Put
  <2> QED BY <2>1, <2>2, <2>3, <2>4, <2>5, <2>6, <2>7, <2>8, <2>9, <2>10, <2>11
<1> QED BY <1>1, <1>2, QuietMail DEF Unseen

(* Each step of a worker is one that Mailboxes allows or does not see. *)
LEMMA WorkerMail ==
  ASSUME MailInv, NEW w \in Workers, Worker(w)
  PROVE  AddressInv' /\ MadeInv' /\ Seen
<1> USE DEF MailInv
<1>1. CASE Gulp(w) BY <1>1, GulpMail, SameMade DEF Seen, Unseen, Gulp, sysVars
<1>2. CASE GulpNothing(w) BY <1>2, NothingMail, SameMade DEF Seen, Unseen, GulpNothing, sysVars
<1>3. CASE GoStealing(w) BY <1>3, NothingMail, SameMade DEF Seen, Unseen, GoStealing, sysVars
<1>4. CASE Deliver(w) BY <1>4, DeliverMail, SameMade DEF Deliver, sysVars
<1>5. CASE ReceiverSends(w)
  <2>1. sends[w] \in Seq(Messages) /\ sends[w] # <<>> BY <1>5 DEF ReceiverSends, IInv, TypeOK
  <2>2. PICK m \in Messages : m = Head(sends[w]) BY <2>1
  <2>3. Insert(m) BY <1>5, <2>2 DEF ReceiverSends, Insert
  <2>4. UNCHANGED <<ticket, gulp, pc, curr, req, main, step>> BY <1>5 DEF ReceiverSends, sysVars, loopVars
  <2> QED BY <2>3, <2>4, InsertMail, SameMade
<1>6. CASE Received(w) BY <1>6, ReceivedMail, SameMade DEF Received
<1>7. CASE Served(w) BY <1>7, ServedMail, SameMade DEF Seen, Unseen, Served, sysVars
<1>8. CASE \/ Look(w) \/ Check(w) \/ Choosing(w) \/ ReadMine(w) \/ ReadTheirs(w) \/ Take(w) \/ TakeFails(w)
           \/ Give(w) \/ GiveFails(w) \/ Undo(w) \/ Put(w)
  <2>1. UNCHANGED <<main, step, ticket>>
    <3>1. UNCHANGED sysVars
      BY <1>8 DEF Look, Check, Choosing, Choose, ChooseIdle, ChooseFull, ReadMine, ReadTheirs, Take, TakeFails, Give, GiveFails, Undo, Put
    <3> QED BY <3>1 DEF sysVars
  <2> QED BY <1>8, <2>1, StillMail, SameMade DEF Seen, Unseen
<1> QED BY <1>1, <1>2, <1>3, <1>4, <1>5, <1>6, <1>7, <1>8 DEF Worker, Choosing

(* ... and so is each step of Main. *)
LEMMA MainMail ==
  ASSUME MailInv, IInv', Main
  PROVE  AddressInv' /\ MadeInv' /\ Seen
<1> USE DEF MailInv
<1>1. ASSUME NEW a \in Actors, MakeActor(a) PROVE AddressInv' /\ MadeInv' /\ Seen BY <1>1, MakeActorMail DEF Seen, Unseen
<1>2. ASSUME NEW m \in Messages, SendMessage(m) PROVE AddressInv' /\ MadeInv' /\ Seen
  <2>1. /\ Insert(m) /\ UNCHANGED <<ticket, gulp, pc, curr, req, main>> /\ step' = step + 1 /\ step \in Nat
    BY <1>2 DEF SendMessage, loopVars, reqVars, IInv, TypeOK
  <2>2. AddressInv' /\ Seen BY <2>1, InsertMail
  <2>3. MadeInv'
    <3>1. \A k \in 1 .. step : k \in 1 .. step + 1 BY <2>1
    <3> QED BY <2>1, <3>1 DEF MadeInv
  <2> QED BY <2>2, <2>3
<1>3. CASE Stop \/ Join
  <2>1. UNCHANGED <<ticket, inbox, gulp, req, pc, curr>> BY <1>3 DEF Stop, Join, queueVars, loopVars, reqVars
  <2>2. main' # "script" BY <1>3 DEF Stop, Join
  <2> QED BY <2>1, <2>2, QuietMail DEF Seen, MadeInv
<1> QED BY <1>1, <1>2, <1>3 DEF Main

(* Messages are only in the queue of their actor, whoever has it, and an   *)
(* actor gets its ticket once (actor.hfa:337-341, :398-419). *)
THEOREM MessagesInTheirQueues == Spec => []MailInv
<1>1. Init => MailInv
  <2> SUFFICES ASSUME Init PROVE MailInv OBVIOUS
  <2>1. <<>> \in Seq({}) OBVIOUS
  <2>2. AddressInv BY DEF Init, AddressInv
  <2>3. MadeInv BY DEF Init, MadeInv
  <2> QED BY <2>2, <2>3, InitIInv DEF MailInv
<1>2. MailInv /\ [Next]_vars => MailInv'
  <2> SUFFICES ASSUME MailInv, [Next]_vars PROVE MailInv' OBVIOUS
  <2>1. IInv' BY Preservation DEF MailInv
  <2>2. CASE Main BY <2>1, <2>2, MainMail DEF MailInv
  <2>3. ASSUME NEW w \in Workers, Worker(w) PROVE MailInv' BY <2>1, <2>3, WorkerMail DEF MailInv
  <2>4. CASE UNCHANGED vars
    <3>1. UNCHANGED <<ticket, inbox, gulp, req, pc, curr, main, step>>
      BY <2>4 DEF vars, sysVars, queueVars, loopVars, reqVars
    <3> QED BY <2>1, <3>1, QuietMail, SameMade DEF MailInv
  <2> QED BY <2>2, <2>3, <2>4 DEF Next
<1> QED BY <1>1, <1>2, PTL DEF Spec

(* Each actor receives the messages that are sent to it in their order,    *)
(* each once and one at a time, whichever workers its queue passes to      *)
(* while others steal (actor.hfa:155-184, :480-660). *)
THEOREM MailboxesImplemented == Spec => ImplementsMailboxes
<1>1. Init => Boxes!Init
  <2> SUFFICES ASSUME Init PROVE Boxes!Init OBVIOUS
  <2>1. \A a \in Actors : Mailbox(a) = <<>> BY MailboxIs DEF Init
  <2>2. \A a \in Actors : Receiving(a) = {} BY ActorsAssumption DEF Init, Receiving, ActorsAssumption
  <2> QED BY <2>1, <2>2 DEF Boxes!Init
<1>2. MailInv /\ [Next]_vars => [Boxes!Next]_<<Mail, Got>>
  <2> SUFFICES ASSUME MailInv, [Next]_vars PROVE Seen BY DEF Seen
  <2>1. IInv' BY Preservation DEF MailInv
  <2>2. CASE Main BY <2>1, <2>2, MainMail
  <2>3. ASSUME NEW w \in Workers, Worker(w) PROVE Seen BY <2>3, WorkerMail
  <2>4. CASE UNCHANGED vars
    <3>1. UNCHANGED <<ticket, inbox, gulp, req, pc, curr, main, step>>
      BY <2>4 DEF vars, sysVars, queueVars, loopVars, reqVars
    <3> QED BY <3>1, QuietMail DEF MailInv, Seen
  <2> QED BY <2>2, <2>3, <2>4 DEF Next
<1> QED BY <1>1, <1>2, MessagesInTheirQueues, PTL DEF Spec, ImplementsMailboxes, Boxes!Spec, Mail, Got
-----------------------------------------------------------------------------
(***************************************************************************)
(* Main is woken only when no actor and no message is left of those that   *)
(* there were, if nobody sends to actors that are told to end.             *)
(***************************************************************************)

VARIABLE ended  \* the actors that were sent a message that ends them

SomeoneSends(m) == SendMessage(m) \/ \E w \in Workers : ReceiverSends(w) /\ Head(sends[w]) = m

\* Messages are sent only to actors that are made and were not told to end: the
\* others abort in debug mode (actor.hfa:481, :667).  Actors are made freely.
KeepsRules ==
  /\ \A m \in Messages : SomeoneSends(m) =>
       /\ ticket[To[m]] # Null /\ To[m] \notin ended
       /\ ended' = IF m \in Endings THEN ended \cup {To[m]} ELSE ended
  /\ (\A m \in Messages : ~SomeoneSends(m)) => ended' = ended

Careful == ended = {} /\ [][KeepsRules]_<<vars, ended>>

\* The actors that are made; those that have ended; the others.
Made == {a \in Actors : ticket[a] # Null}
Over == {a \in ended : Mail[a] = <<>> /\ Got[a] = {}}
Alive == Made \ Over

\* What ends an actor is the last message in its mailbox, or the one that it is
\* receiving when nothing is left.
LastInv ==
  /\ ended \subseteq Made
  /\ \A a \in Actors \ ended : /\ \A k \in 1 .. Len(Mail[a]) : Mail[a][k] \notin Endings
                               /\ Got[a] \cap Endings = {}
  /\ \A a \in ended : /\ \A k \in 1 .. Len(Mail[a]) : Mail[a][k] \in Endings <=> k = Len(Mail[a])
                      /\ Mail[a] = <<>> => Got[a] \subseteq Endings
                      /\ Mail[a] # <<>> => Got[a] \cap Endings = {}

\* num_actors counts the actors that are left.
CountInv == num_actors = Cardinality(Alive)

StopInv == MailInv /\ LastInv /\ CountInv

(* Mailboxes hold messages. *)
LEMMA MailType == ASSUME MailInv PROVE Mail \in [Actors -> Seq(Messages)] /\ Got \in [Actors -> SUBSET Messages]
<1>1. ASSUME NEW a \in Actors PROVE Mailbox(a) \in Seq(Messages)
  <2>1. CASE ticket[a] = Null
    <3>1. Mailbox(a) = <<>> BY <2>1, MailboxIs
    <3> QED BY <3>1
  <2>2. ASSUME NEW q \in Queues, ticket[a] = q PROVE Mailbox(a) \in Seq(Messages)
    <3>1. Mailbox(a) = SentTo(a, Content(q)) BY <2>2, MailboxIs
    <3>2. Content(q) \in Seq(Messages) BY ContentType DEF MailInv, IInv
    <3>3. SentTo(a, Content(q)) \in Seq({m \in Messages : To[m] = a}) BY <3>2, SentToType
    <3>4. {m \in Messages : To[m] = a} \subseteq Messages OBVIOUS
    <3> QED BY <3>1, <3>3, <3>4, SeqWider
  <2> QED BY <2>1, <2>2 DEF MailInv, IInv, TypeOK
<1>2. \A a \in Actors : Receiving(a) \in SUBSET Messages BY DEF Receiving
<1> QED BY <1>1, <1>2 DEF Mail, Got

(* The actors that are left can be counted. *)
LEMMA Counting ==
  /\ IsFiniteSet(Made) /\ IsFiniteSet(Alive) /\ IsFiniteSet(Alive')
  /\ Cardinality(Alive) \in Nat /\ (Cardinality(Alive) = 0 <=> Alive = {})
<1>1. IsFiniteSet(Actors) BY ActorsAssumption DEF ActorsAssumption
<1>2. Made \subseteq Actors /\ Alive \subseteq Actors /\ Alive' \subseteq Actors BY DEF Made, Alive
<1>3. IsFiniteSet(Made) /\ IsFiniteSet(Alive) /\ IsFiniteSet(Alive') BY <1>1, <1>2, FS_Subset
<1> QED BY <1>3, FS_CardinalityType, FS_EmptySet

(* A step that mailboxes do not show sends nothing. *)
LEMMA NoSend ==
  ASSUME MailInv, KeepsRules, Mail' = Mail \/ \E w \in Workers : pc'[w] # pc[w]
  PROVE  ended' = ended
<1>1. SUFFICES ASSUME NEW m \in Messages, SomeoneSends(m) PROVE FALSE BY DEF KeepsRules
<1>2. UNCHANGED pc BY <1>1 DEF SomeoneSends, SendMessage, ReceiverSends
<1>3. Insert(m) /\ UNCHANGED <<ticket, gulp, pc, curr, req>>
  BY <1>1 DEF SomeoneSends, SendMessage, ReceiverSends, Insert, sysVars, loopVars, reqVars
<1>4. SentOne(To[m], m)
  <2>1. ticket[To[m]] # Null BY <1>1 DEF KeepsRules
  <2> QED BY <1>3, <2>1, InsertMail DEF MailInv
<1>5. CASE Mail' = Mail
  <2>1. To[m] \in Actors BY ActorsAssumption DEF ActorsAssumption
  <2>2. Mail[To[m]] = Append(Mail[To[m]], m) /\ Mail[To[m]] \in Seq(Messages)
    BY <1>4, <1>5, <2>1, MailType DEF SentOne
  <2>3. \A s \in Seq(Messages) : s # Append(s, m) OBVIOUS
  <2> QED BY <2>2, <2>3
<1> QED BY <1>2, <1>5

(* An actor that may be sent to is not over, and stays so. *)
LEMMA SentKeeps ==
  ASSUME MailInv, LastInv, UNCHANGED ticket, NEW a \in Actors, NEW m \in Messages, SentOne(a, m),
         a \in Made \ ended, ended' = IF m \in Endings THEN ended \cup {a} ELSE ended
  PROVE  LastInv' /\ Over' = Over /\ Made' = Made
<1>1. /\ Mail \in [Actors -> Seq(Messages)] /\ Mail' = [Mail EXCEPT ![a] = Append(Mail[a], m)] /\ Got' = Got
  BY MailType DEF SentOne
<1> DEFINE s == Mail[a]
<1>2. s \in Seq(Messages) BY <1>1
<1>3. /\ Mail'[a] = Append(s, m) /\ \A b \in Actors : b # a => Mail'[b] = Mail[b]
  BY <1>1
<1>4. /\ Len(Append(s, m)) = Len(s) + 1 /\ Len(s) \in Nat /\ Append(s, m) # <<>>
      /\ Append(s, m)[Len(s) + 1] = m /\ \A k \in 1 .. Len(s) : Append(s, m)[k] = s[k]
  BY <1>2
<1>5. Made' = Made BY DEF Made
<1>6. ended \subseteq Actors /\ ended' \subseteq Made' BY <1>5 DEF LastInv, Made
<1>7. (\A k \in 1 .. Len(s) : s[k] \notin Endings) /\ Got[a] \cap Endings = {} BY DEF LastInv
<1> HIDE DEF s
<1>8. ASSUME NEW b \in Actors \ ended'
      PROVE  (\A k \in 1 .. Len(Mail'[b]) : Mail'[b][k] \notin Endings) /\ Got'[b] \cap Endings = {}
  <2>1. CASE b = a
    <3>1. m \notin Endings BY <2>1, <1>8
    <3>2. \A k \in 1 .. Len(s) + 1 : Append(s, m)[k] \notin Endings BY <1>4, <1>7, <3>1
    <3>3. Mail'[b] = Append(s, m) /\ Len(Mail'[b]) = Len(s) + 1 BY <1>3, <1>4, <2>1
    <3> QED BY <1>1, <1>7, <2>1, <3>2, <3>3
  <2>2. CASE b # a
    <3>1. b \notin ended BY <1>8, <2>2
    <3> QED BY <1>1, <1>3, <2>2, <3>1 DEF LastInv
  <2> QED BY <2>1, <2>2
<1>9. ASSUME NEW b \in ended'
      PROVE  /\ \A k \in 1 .. Len(Mail'[b]) : Mail'[b][k] \in Endings <=> k = Len(Mail'[b])
             /\ Mail'[b] = <<>> => Got'[b] \subseteq Endings
             /\ Mail'[b] # <<>> => Got'[b] \cap Endings = {}
  <2>1. CASE b = a
    <3>1. m \in Endings BY <2>1, <1>9
    <3>2. \A k \in 1 .. Len(s) + 1 : Append(s, m)[k] \in Endings <=> k = Len(s) + 1 BY <1>4, <1>7, <3>1
    <3> QED BY <1>1, <1>3, <1>4, <1>7, <2>1, <3>2
  <2>2. CASE b # a
    <3>1. b \in ended /\ b \in Actors BY <1>6, <1>9, <2>2
    <3> QED BY <1>1, <1>3, <2>2, <3>1 DEF LastInv
  <2> QED BY <2>1, <2>2
<1>10. Over' = Over
  <2>1. a \notin Over /\ a \notin Over' BY <1>3, <1>4 DEF Over
  <2>2. \A b \in Actors : b # a => (b \in Over' <=> b \in Over) BY <1>1, <1>3 DEF Over
  <2>3. Over \subseteq Actors /\ Over' \subseteq Actors BY <1>5, <1>6 DEF Over, Made
  <2> QED BY <2>1, <2>2, <2>3
<1> QED BY <1>5, <1>6, <1>8, <1>9, <1>10 DEF LastInv

(* An actor that receives is not over before and after. *)
LEMMA TookKeeps ==
  ASSUME MailInv, LastInv, UNCHANGED <<ticket, ended>>, NEW a \in Actors, NEW m \in Messages, TookOne(a, m)
  PROVE  LastInv' /\ Over' = Over /\ Made' = Made
<1>1. /\ Mail \in [Actors -> Seq(Messages)] /\ Got \in [Actors -> SUBSET Messages]
      /\ Mail' = [Mail EXCEPT ![a] = Tail(Mail[a])] /\ Got' = [Got EXCEPT ![a] = {m}]
      /\ Got[a] = {} /\ Mail[a] # <<>> /\ Head(Mail[a]) = m
  BY MailType DEF TookOne
<1> DEFINE s == Mail[a]
<1>2. s \in Seq(Messages) /\ s # <<>> /\ s[1] = m BY <1>1
<1>3. /\ Mail'[a] = Tail(s) /\ \A b \in Actors : b # a => Mail'[b] = Mail[b]
      /\ Got'[a] = {m} /\ \A b \in Actors : b # a => Got'[b] = Got[b]
  BY <1>1
<1>4. /\ Len(s) \in Nat /\ Len(s) >= 1 /\ Len(Tail(s)) = Len(s) - 1
      /\ \A k \in 1 .. Len(s) - 1 : Tail(s)[k] = s[k + 1] /\ k + 1 \in 1 .. Len(s)
      /\ Tail(s) = <<>> <=> Len(s) = 1
  <2>1. PICK x \in Seq(Messages) : x = s BY <1>2
  <2>2. Len(x) \in Nat /\ Len(x) >= 1 /\ Tail(x) \in Seq(Messages) /\ Len(Tail(x)) = Len(x) - 1 BY <1>2, <2>1
  <2>3. \A k \in 1 .. Len(x) - 1 : Tail(x)[k] = x[k + 1] /\ k + 1 \in 1 .. Len(x) BY <1>2, <2>1, <2>2
  <2>4. \A t \in Seq(Messages) : t = <<>> <=> Len(t) = 0 OBVIOUS
  <2>5. Tail(x) = <<>> <=> Len(x) = 1
    <3>1. PICK t \in Seq(Messages) : t = Tail(x) BY <2>2
    <3>2. t = <<>> <=> Len(t) = 0 BY <2>4
    <3>3. Len(t) = Len(x) - 1 BY <2>2, <3>1
    <3>4. Len(t) = 0 <=> Len(x) = 1 BY <2>2, <3>3
    <3> QED BY <3>1, <3>2, <3>4, Zenon
  <2> HIDE DEF s
  <2> QED BY <2>1, <2>2, <2>3, <2>5
<1>5. Made' = Made BY DEF Made
<1>6. ended \subseteq Actors /\ ended' \subseteq Made' BY <1>5 DEF LastInv, Made
<1>7. a \notin ended => \A k \in 1 .. Len(s) : s[k] \notin Endings BY DEF LastInv
<1>8. a \in ended => \A k \in 1 .. Len(s) : s[k] \in Endings <=> k = Len(s) BY DEF LastInv
<1> HIDE DEF s
<1>9. ASSUME NEW b \in Actors \ ended'
      PROVE  (\A k \in 1 .. Len(Mail'[b]) : Mail'[b][k] \notin Endings) /\ Got'[b] \cap Endings = {}
  <2>1. CASE b = a
    <3>1. \A k \in 1 .. Len(s) - 1 : Tail(s)[k] \notin Endings BY <1>4, <1>7, <1>9, <2>1
    <3>2. m \notin Endings BY <1>2, <1>4, <1>7, <1>9, <2>1
    <3> QED BY <1>3, <1>4, <2>1, <3>1, <3>2
  <2>2. CASE b # a BY <1>3, <1>9, <2>2 DEF LastInv
  <2> QED BY <2>1, <2>2
<1>10. ASSUME NEW b \in ended'
       PROVE  /\ \A k \in 1 .. Len(Mail'[b]) : Mail'[b][k] \in Endings <=> k = Len(Mail'[b])
              /\ Mail'[b] = <<>> => Got'[b] \subseteq Endings
              /\ Mail'[b] # <<>> => Got'[b] \cap Endings = {}
  <2>1. CASE b = a
    <3>1. \A k \in 1 .. Len(s) - 1 : Tail(s)[k] \in Endings <=> k + 1 = Len(s) BY <1>4, <1>8, <1>10, <2>1
    <3>2. \A k \in 1 .. Len(s) - 1 : k + 1 = Len(s) <=> k = Len(s) - 1 BY <1>4
    <3>3. m \in Endings <=> Len(s) = 1
      <4>1. 1 \in 1 .. Len(s) /\ a \in ended BY <1>4, <1>10, <2>1
      <4>2. s[1] \in Endings <=> 1 = Len(s) BY <1>8, <4>1
      <4> QED BY <1>2, <4>2
    <3> QED BY <1>3, <1>4, <2>1, <3>1, <3>2, <3>3
  <2>2. CASE b # a
    <3>1. b \in ended /\ b \in Actors BY <1>6, <1>10
    <3> QED BY <1>3, <2>2, <3>1 DEF LastInv
  <2> QED BY <2>1, <2>2
<1>11. Over' = Over
  <2>1. a \notin Over /\ a \notin Over' BY <1>1, <1>3 DEF Over
  <2>2. \A b \in Actors : b # a => (b \in Over' <=> b \in Over) BY <1>3 DEF Over
  <2>3. Over \subseteq Actors /\ Over' \subseteq Actors BY <1>5, <1>6 DEF Over, Made
  <2> QED BY <2>1, <2>2, <2>3
<1> QED BY <1>5, <1>6, <1>9, <1>10, <1>11 DEF LastInv

(* An actor is over when it has received what ends it, and not before. *)
LEMMA EndedKeeps ==
  ASSUME MailInv, LastInv, UNCHANGED <<ticket, ended>>, NEW a \in Actors, NEW m \in Messages, EndedOne(a, m)
  PROVE  /\ LastInv' /\ Made' = Made
         /\ m \in Endings => a \in Alive /\ Alive' = Alive \ {a}
         /\ m \notin Endings => Alive' = Alive
<1>1. /\ Got \in [Actors -> SUBSET Messages] /\ Got[a] = {m} /\ Got' = [Got EXCEPT ![a] = {}] /\ Mail' = Mail
  BY MailType DEF EndedOne
<1>2. Got'[a] = {} /\ \A b \in Actors : b # a => Got'[b] = Got[b] BY <1>1
<1>3. Made' = Made BY DEF Made
<1>4. ended \subseteq Actors /\ ended' \subseteq Made' BY <1>3 DEF LastInv, Made
<1>5. \A b \in Actors : Got'[b] \subseteq Got[b] BY <1>2
<1>6. LastInv'
  <2>1. ASSUME NEW b \in Actors \ ended'
        PROVE  (\A k \in 1 .. Len(Mail'[b]) : Mail'[b][k] \notin Endings) /\ Got'[b] \cap Endings = {}
    <3>1. (\A k \in 1 .. Len(Mail[b]) : Mail[b][k] \notin Endings) /\ Got[b] \cap Endings = {}
      BY <2>1 DEF LastInv
    <3> QED BY <1>1, <1>5, <3>1
  <2>2. ASSUME NEW b \in ended'
        PROVE  /\ \A k \in 1 .. Len(Mail'[b]) : Mail'[b][k] \in Endings <=> k = Len(Mail'[b])
               /\ Mail'[b] = <<>> => Got'[b] \subseteq Endings
               /\ Mail'[b] # <<>> => Got'[b] \cap Endings = {}
    <3>1. /\ \A k \in 1 .. Len(Mail[b]) : Mail[b][k] \in Endings <=> k = Len(Mail[b])
          /\ Mail[b] = <<>> => Got[b] \subseteq Endings
          /\ Mail[b] # <<>> => Got[b] \cap Endings = {}
          /\ b \in Actors
      BY <1>4, <2>2 DEF LastInv
    <3> QED BY <1>1, <1>5, <3>1
  <2> QED BY <1>4, <2>1, <2>2 DEF LastInv
<1>7. \A b \in Actors : b # a => (b \in Over' <=> b \in Over) BY <1>1, <1>2 DEF Over
<1>8. Over \subseteq Actors /\ Over' \subseteq Actors BY <1>4 DEF Over
<1>9. a \notin Over BY <1>1 DEF Over
<1>10. ASSUME m \in Endings PROVE a \in Alive /\ Alive' = Alive \ {a}
  <2>1. a \in ended BY <1>1, <1>10 DEF LastInv
  <2>2. Mail[a] = <<>> BY <1>1, <1>10, <2>1 DEF LastInv
  <2>3. a \in Over' BY <1>1, <1>2, <2>1, <2>2 DEF Over
  <2>4. a \in Made BY <2>1 DEF LastInv
  <2> QED BY <1>3, <1>7, <1>8, <1>9, <2>3, <2>4 DEF Alive
<1>11. ASSUME m \notin Endings PROVE Alive' = Alive
  <2>1. a \notin Over'
    <3>1. SUFFICES ASSUME a \in ended, Mail[a] = <<>> PROVE FALSE BY <1>1 DEF Over
    <3>2. Got[a] \subseteq Endings BY <3>1 DEF LastInv
    <3> QED BY <1>1, <1>11, <3>2
  <2> QED BY <1>3, <1>7, <1>8, <1>9, <2>1 DEF Alive
<1> QED BY <1>3, <1>6, <1>10, <1>11

(* A step that mailboxes do not show. *)
LEMMA UnseenKeeps ==
  ASSUME LastInv, Unseen, UNCHANGED ended, Made \subseteq Made'
  PROVE  LastInv' /\ Over' = Over
BY DEF LastInv, Unseen, Over, Made

(* A step that makes and ends no actor leaves the count right. *)
LEMMA CountStill ==
  ASSUME CountInv, UNCHANGED num_actors, Alive' = Alive
  PROVE  CountInv'
BY DEF CountInv

(* A message of a program that keeps to the rules. *)
LEMMA SendStep ==
  ASSUME StopInv, KeepsRules, NEW m \in Messages, SomeoneSends(m), UNCHANGED num_actors
  PROVE  LastInv' /\ CountInv'
<1>1. Insert(m) /\ UNCHANGED <<ticket, gulp, pc, curr, req>>
  BY DEF SomeoneSends, SendMessage, ReceiverSends, Insert, sysVars, loopVars, reqVars
<1>2. /\ ticket[To[m]] # Null /\ To[m] \notin ended
      /\ ended' = IF m \in Endings THEN ended \cup {To[m]} ELSE ended
  BY DEF KeepsRules
<1>3. PICK a \in Actors : a = To[m] BY ActorsAssumption DEF ActorsAssumption
<1>4. SentOne(a, m) BY <1>1, <1>2, <1>3, InsertMail DEF StopInv, MailInv
<1>5. a \in Made \ ended BY <1>2, <1>3 DEF Made
<1>6. LastInv' /\ Over' = Over /\ Made' = Made BY <1>1, <1>2, <1>3, <1>4, <1>5, SentKeeps DEF StopInv
<1>7. Alive' = Alive BY <1>6 DEF Alive
<1> QED BY <1>6, <1>7, CountStill DEF StopInv

(* A step of a worker that moves no message that mailboxes show. *)
LEMMA UnseenStep ==
  ASSUME StopInv, KeepsRules, Unseen, UNCHANGED <<ticket, num_actors>>
  PROVE  LastInv' /\ CountInv'
<1>1. ended' = ended BY NoSend DEF Unseen, StopInv
<1>2. Made' = Made BY DEF Made
<1>3. LastInv' /\ Over' = Over BY <1>1, <1>2, UnseenKeeps DEF StopInv
<1>4. Alive' = Alive BY <1>2, <1>3 DEF Alive
<1> QED BY <1>3, <1>4, CountStill DEF StopInv

(* An actor that ends is counted no more. *)
LEMMA ReceivedStep ==
  ASSUME StopInv, KeepsRules, NEW w \in Workers, Received(w)
  PROVE  LastInv' /\ CountInv'
<1> USE DEF StopInv
<1>1. /\ pc[w] = "receive" /\ pc' = Set(pc, w, "serve") /\ UNCHANGED ticket /\ CheckActor(req[w])
  BY DEF Received, Goto
<1>2. ended' = ended
  <2>1. pc'[w] # pc[w] BY <1>1 DEF Set, MailInv, IInv, TypeOK
  <2> QED BY <2>1, NoSend
<1>3. PICK a \in Actors, m \in Messages : m = req[w] /\ EndedOne(a, m) BY ReceivedMail DEF MailInv
<1>4. /\ LastInv' /\ Made' = Made
      /\ m \in Endings => a \in Alive /\ Alive' = Alive \ {a}
      /\ m \notin Endings => Alive' = Alive
  BY <1>1, <1>2, <1>3, EndedKeeps
<1>5. CASE m \notin Endings
  <2>1. UNCHANGED num_actors BY <1>1, <1>3, <1>5 DEF CheckActor
  <2> QED BY <1>4, <1>5, <2>1, CountStill
<1>6. CASE m \in Endings
  <2>1. num_actors' = num_actors - 1 BY <1>1, <1>3, <1>6 DEF CheckActor
  <2>2. a \in Alive /\ Alive' = Alive \ {a} BY <1>4, <1>6
  <2>3. Cardinality(Alive') = Cardinality(Alive) - 1 BY <2>2, Counting, FS_RemoveElement
  <2> QED BY <1>4, <2>1, <2>3 DEF CountInv
<1> QED BY <1>4, <1>5, <1>6

(* Each step of a worker keeps the count. *)
LEMMA WorkerStop ==
  ASSUME StopInv, KeepsRules, NEW w \in Workers, Worker(w)
  PROVE  LastInv' /\ CountInv'
<1>1. IInv /\ AddressInv BY DEF StopInv, MailInv
<1>2. CASE ReceiverSends(w)
  <2>1. sends[w] \in Seq(Messages) /\ sends[w] # <<>> BY <1>1, <1>2 DEF ReceiverSends, IInv, TypeOK
  <2>2. PICK m \in Messages : m = Head(sends[w]) BY <2>1
  <2>3. SomeoneSends(m) BY <1>2, <2>2 DEF SomeoneSends
  <2>4. UNCHANGED num_actors BY <1>2 DEF ReceiverSends, sysVars
  <2> QED BY <2>3, <2>4, SendStep
<1>3. CASE Received(w) BY <1>3, ReceivedStep
<1>4. CASE Deliver(w)
  <2>1. pc[w] = "serve" /\ pc' = Set(pc, w, "receive") /\ UNCHANGED <<ticket, num_actors>>
    BY <1>4 DEF Deliver, Goto, sysVars
  <2>2. pc'[w] # pc[w] BY <1>1, <2>1 DEF Set, IInv, TypeOK
  <2>3. ended' = ended BY <2>2, NoSend DEF StopInv
  <2>4. PICK a \in Actors, m \in Messages : TookOne(a, m) BY <1>1, <1>4, DeliverMail
  <2>5. LastInv' /\ Over' = Over /\ Made' = Made BY <2>1, <2>3, <2>4, TookKeeps DEF StopInv
  <2>6. Alive' = Alive BY <2>5 DEF Alive
  <2> QED BY <2>1, <2>5, <2>6, CountStill DEF StopInv
<1>5. CASE \/ Look(w) \/ Check(w) \/ Choosing(w) \/ ReadMine(w) \/ ReadTheirs(w) \/ Take(w) \/ TakeFails(w)
           \/ Give(w) \/ GiveFails(w) \/ Undo(w) \/ Put(w) \/ Gulp(w) \/ GulpNothing(w) \/ GoStealing(w) \/ Served(w)
  <2>1. UNCHANGED sysVars
    BY <1>5 DEF Look, Check, Choosing, Choose, ChooseIdle, ChooseFull, ReadMine, ReadTheirs, Take, TakeFails, Give, GiveFails, Undo, Put,
                Gulp, GulpNothing, GoStealing, Served
  <2>2. Unseen BY <1>1, <1>5, StillMail, GulpMail, NothingMail, ServedMail
  <2> QED BY <2>1, <2>2, UnseenStep DEF sysVars
<1> QED BY <1>2, <1>3, <1>4, <1>5 DEF Worker, Choosing

(* An actor that is made is counted. *)
LEMMA MakeActorStop ==
  ASSUME StopInv, IInv', KeepsRules, NEW a \in Actors, MakeActor(a)
  PROVE  LastInv' /\ CountInv'
<1> USE DEF StopInv
<1>1. /\ num_actors' = num_actors + 1
      /\ \E n \in Nat : ticket' = Set(ticket, a, n % NQueues)
  <2>1. IsFiniteSet({b \in Actors : ticket[b] # Null}) BY Counting DEF Made
  <2>2. Cardinality({b \in Actors : ticket[b] # Null}) \in Nat BY <2>1, FS_CardinalityType
  <2> QED BY <2>2 DEF MakeActor
<1>2. Unseen /\ ticket[a] = Null BY MakeActorMail
<1>3. ended' = ended BY <1>2, NoSend DEF Unseen
<1>4. a \notin Made /\ Made' = Made \cup {a}
  <2>1. PICK n \in Nat : ticket' = Set(ticket, a, n % NQueues) BY <1>1
  <2>2. n % NQueues \in Queues BY <2>1, ActorsAssumption DEF ActorsAssumption, Queues
  <2>3. n % NQueues # Null BY <2>2, ActorsAssumption DEF ActorsAssumption
  <2> HIDE DEF StopInv
  <2>4. ticket \in [Actors -> Queues \cup {Null}] BY DEF StopInv, MailInv, IInv, TypeOK
  <2>5. ticket'[a] # Null /\ \A b \in Actors : b # a => ticket'[b] = ticket[b] BY <2>1, <2>3, <2>4 DEF Set
  <2> QED BY <1>2, <2>5 DEF Made
<1>5. LastInv' /\ Over' = Over BY <1>2, <1>3, <1>4, UnseenKeeps
<1>6. a \notin Over BY <1>4 DEF LastInv, Over
<1>7. a \notin Alive /\ Alive' = Alive \cup {a} BY <1>4, <1>5, <1>6 DEF Alive
<1>8. Cardinality(Alive') = Cardinality(Alive) + 1 BY <1>7, Counting, FS_AddElement
<1> QED BY <1>1, <1>5, <1>8 DEF CountInv

(* Each step of Main keeps the count. *)
LEMMA MainStop ==
  ASSUME StopInv, IInv', KeepsRules, Main
  PROVE  LastInv' /\ CountInv'
<1>1. ASSUME NEW a \in Actors, MakeActor(a) PROVE LastInv' /\ CountInv' BY <1>1, MakeActorStop
<1>2. ASSUME NEW m \in Messages, SendMessage(m) PROVE LastInv' /\ CountInv'
  <2>1. SomeoneSends(m) /\ UNCHANGED num_actors BY <1>2 DEF SomeoneSends, SendMessage
  <2> QED BY <2>1, SendStep
<1>3. CASE Stop \/ Join
  <2>1. UNCHANGED <<ticket, inbox, gulp, req, pc, curr, num_actors>>
    BY <1>3 DEF Stop, Join, queueVars, loopVars, reqVars
  <2>2. Unseen BY <2>1, QuietMail DEF Unseen, StopInv, MailInv
  <2>3. ended' = ended BY <2>2, NoSend DEF Unseen, StopInv
  <2>4. Made' = Made BY <2>1 DEF Made
  <2>5. LastInv' /\ Over' = Over BY <2>2, <2>3, <2>4, UnseenKeeps DEF StopInv
  <2>6. Alive' = Alive BY <2>4, <2>5 DEF Alive
  <2> QED BY <2>1, <2>5, <2>6, CountStill DEF StopInv
<1> QED BY <1>1, <1>2, <1>3 DEF Main

(* Only the last actor that ends wakes Main. *)
LEMMA WakesLast == ASSUME MailInv, [Next]_vars PROVE permits' > permits => num_actors' = 0
<1> SUFFICES ASSUME permits' > permits PROVE num_actors' = 0 OBVIOUS
<1>1. permits \in Nat BY DEF MailInv, IInv, TypeOK
<1>2. ~Main
  <2>1. Main => permits' = permits \/ permits' = permits - 1 BY DEF Main, MakeActor, SendMessage, Stop, Join
  <2> QED BY <1>1, <2>1
<1>3. ASSUME NEW w \in Workers, Worker(w) PROVE num_actors' = 0
  <2>1. CASE Received(w) BY <1>1, <2>1 DEF Received, CheckActor
  <2>2. CASE ~Received(w)
    <3>1. UNCHANGED sysVars
      BY <1>3, <2>2 DEF Worker, Look, Check, Gulp, GulpNothing, GoStealing, Deliver, ReceiverSends, Served, Choose,
                        ChooseIdle, ChooseFull, ReadMine, ReadTheirs, Take, TakeFails, Give, GiveFails, Undo, Put
    <3> QED BY <1>1, <3>1 DEF sysVars
  <2> QED BY <2>1, <2>2
<1>4. CASE UNCHANGED vars BY <1>1, <1>4 DEF vars, sysVars
<1> QED BY <1>2, <1>3, <1>4 DEF Next

(* When no actor is left no message is. *)
LEMMA NothingLeft == ASSUME StopInv, num_actors = 0 PROVE Finished
<1> USE DEF StopInv, MailInv
<1>1. num_actors = 0 /\ Alive = {} BY Counting DEF CountInv
<1>2. \A a \in Actors : ticket[a] # Null => Mailbox(a) = <<>> /\ Receiving(a) = {}
  <2>1. \A a \in Actors : ticket[a] # Null => Mail[a] = <<>> /\ Got[a] = {} BY <1>1 DEF Alive, Made, Over
  <2> QED BY <2>1 DEF Mail, Got
<1>3. Null \notin Queues BY ActorsAssumption DEF ActorsAssumption
<1>4. ASSUME NEW q \in Queues PROVE Content(q) = <<>>
  <2>1. SUFFICES ASSUME Content(q) # <<>> PROVE FALSE OBVIOUS
  <2>2. Content(q) \in Seq(Addressed(ticket, q)) /\ Content(q) \in Seq(Messages) BY ContentType DEF IInv
  <2>3. PICK m : m = Head(Content(q)) OBVIOUS
  <2>4. m \in Addressed(ticket, q) BY <2>1, <2>2, <2>3
  <2>5. PICK a \in Actors : a = To[m] /\ ticket[a] = q BY <2>4, ActorsAssumption DEF ActorsAssumption, Addressed
  <2>6. Mailbox(a) = SentTo(a, Content(q)) /\ Mailbox(a) = <<>> BY <1>2, <1>3, <2>5, MailboxIs
  <2>7. SentTo(a, Content(q)) = <<m>> \o SentTo(a, Tail(Content(q))) BY <2>1, <2>2, <2>3, <2>5, SentToTail
  <2>8. SentTo(a, Tail(Content(q))) \in Seq(Messages)
    <3>1. Tail(Content(q)) \in Seq(Messages) BY <2>1, <2>2
    <3>2. SentTo(a, Tail(Content(q))) \in Seq({n \in Messages : To[n] = a}) BY <3>1, SentToType
    <3>3. {n \in Messages : To[n] = a} \subseteq Messages OBVIOUS
    <3> QED BY <3>2, <3>3, SeqWider
  <2>9. m \in Messages BY <2>4 DEF Addressed
  <2>10. \A s \in Seq(Messages) : <<m>> \o s # <<>> BY <2>9
  <2> QED BY <2>6, <2>7, <2>8, <2>10
<1>5. ASSUME NEW q \in Queues PROVE Gulped(q) = <<>> /\ inbox[q] = <<>>
  <2>1. Gulped(q) \in Seq(Addressed(ticket, q)) /\ inbox[q] \in Seq(Addressed(ticket, q)) BY ContentType DEF IInv
  <2>2. Gulped(q) \o inbox[q] = <<>> BY <1>4 DEF Content
  <2>3. \A s, t \in Seq(Addressed(ticket, q)) : s \o t = <<>> => s = <<>> /\ t = <<>> OBVIOUS
  <2> QED BY <2>1, <2>2, <2>3
<1>6. ASSUME NEW w \in Workers PROVE gulp[w] = <<>>
  <2>1. CASE pc[w] \notin {"serve", "receive"} BY <2>1 DEF IInv, ServeInv
  <2>2. CASE pc[w] \in {"serve", "receive"}
    <3>1. PICK q \in Queues : q = curr[w] /\ Serving(w, q) BY <2>2 DEF IInv, ServeInv, Serving
    <3> QED BY <1>5, <3>1, GulpedIs DEF IInv
  <2> QED BY <2>1, <2>2
<1>7. ASSUME NEW w \in Workers PROVE req[w] = Null
  <2>1. SUFFICES ASSUME pc[w] = "receive" PROVE FALSE BY DEF AddressInv
  <2>2. PICK m \in Messages : m = req[w] /\ ticket[To[m]] = curr[w] BY <2>1 DEF AddressInv, Addressed
  <2>3. curr[w] # Null BY <1>3, <2>1 DEF IInv, ServeInv
  <2>4. PICK a \in Actors : a = To[m] BY ActorsAssumption DEF ActorsAssumption
  <2>5. m \in Receiving(a) BY <2>2, <2>4 DEF Receiving
  <2> QED BY <1>2, <2>2, <2>3, <2>4, <2>5
<1> QED BY <1>5, <1>6, <1>7 DEF Finished

NoneLeft == num_actors = 0

(* Main is woken only when every actor made so far has ended and no        *)
(* request is left, waiting, taken over or being received, though the      *)
(* count is lowered by workers that do not look at each other's queues, if *)
(* nobody sends to actors that are told to end (actor.hfa:433-435, :91). *)
THEOREM LastActorWakes == Spec /\ Careful => WokenWhenFinished
<1>1. Init /\ ended = {} => StopInv
  <2> SUFFICES ASSUME Init, ended = {} PROVE StopInv OBVIOUS
  <2>1. Made = {} /\ Alive = {} BY DEF Init, Made, Alive
  <2>2. MailInv
    <3>1. <<>> \in Seq({}) OBVIOUS
    <3>2. AddressInv BY <3>1 DEF Init, AddressInv
    <3>3. MadeInv BY DEF Init, MadeInv
    <3> QED BY <3>2, <3>3, InitIInv DEF MailInv
  <2>3. \A a \in Actors : Mail[a] = <<>> /\ Got[a] = {}
    <3>1. \A a \in Actors : Mailbox(a) = <<>> BY MailboxIs DEF Init
    <3>2. \A a \in Actors : Receiving(a) = {} BY ActorsAssumption DEF Init, Receiving, ActorsAssumption
    <3> QED BY <3>1, <3>2 DEF Mail, Got
  <2>4. LastInv BY <2>3 DEF LastInv
  <2>5. CountInv BY <2>1, FS_EmptySet DEF Init, CountInv
  <2> QED BY <2>2, <2>4, <2>5 DEF StopInv
<1>2. StopInv /\ MailInv' /\ [Next]_vars /\ [KeepsRules]_<<vars, ended>> => StopInv'
  <2> SUFFICES ASSUME StopInv, MailInv', [Next]_vars, [KeepsRules]_<<vars, ended>> PROVE StopInv' OBVIOUS
  <2>1. CASE KeepsRules /\ Main BY <2>1, MainStop DEF StopInv, MailInv
  <2>2. ASSUME NEW w \in Workers, KeepsRules, Worker(w) PROVE StopInv' BY <2>2, WorkerStop DEF StopInv
  <2>3. CASE UNCHANGED vars /\ (KeepsRules \/ UNCHANGED ended)
    <3>1. UNCHANGED <<ticket, inbox, gulp, req, pc, curr, num_actors>>
      BY <2>3 DEF vars, sysVars, queueVars, loopVars, reqVars
    <3>2. Unseen BY <3>1, QuietMail DEF Unseen, StopInv, MailInv
    <3>3. UNCHANGED ended BY <2>3, <3>2, NoSend DEF Unseen, StopInv
    <3>4. Made' = Made BY <3>1 DEF Made
    <3>5. LastInv' /\ Over' = Over BY <3>2, <3>3, <3>4, UnseenKeeps DEF StopInv
    <3>6. Alive' = Alive BY <3>4, <3>5 DEF Alive
    <3> QED BY <3>1, <3>5, <3>6, CountStill DEF StopInv
  <2>4. CASE UNCHANGED <<vars, ended>> BY <2>3, <2>4
  <2> QED BY <2>1, <2>2, <2>3, <2>4 DEF Next
<1>3. StopInv' /\ NoneLeft' => Finished'
  <2>1. StopInv /\ NoneLeft => Finished BY NothingLeft DEF NoneLeft
  <2> QED BY <2>1, PTL
<1>4. MailInv /\ [Next]_vars => (permits' > permits => NoneLeft') BY WakesLast DEF NoneLeft
<1>5. MailInv /\ StopInv' /\ [Next]_vars => [permits' > permits => Finished']_vars BY <1>3, <1>4
<1> QED BY <1>1, <1>2, <1>5, MessagesInTheirQueues, PTL DEF Spec, Careful, WokenWhenFinished
=============================================================================
