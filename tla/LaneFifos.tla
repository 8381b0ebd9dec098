------------------------------ MODULE LaneFifos ------------------------------
(***************************************************************************)
(* What the ready queue of a cluster promises to the scheduler: a number   *)
(* of first-in first-out lanes, each thread in one of them at most.  When  *)
(* lanes are added or removed no thread is lost or doubled, and threads    *)
(* that stay in a lane keep their order.                                   *)
(***************************************************************************)
EXTENDS Integers, Sequences, FiniteSets

CONSTANTS Threads

VARIABLES fifo   \* lane -> its threads, the oldest first

InLane(f, l) == {f[l][i] : i \in DOMAIN f[l]}
Held(f) == UNION {InLane(f, l) : l \in DOMAIN f}
Size(f) == {p \in (DOMAIN f) \X (1 .. Cardinality(Threads)) : p[2] <= Len(f[p[1]])}

Init == fifo = [l \in 0 .. 1 |-> <<>>]

Push(l, t) ==
  /\ t \notin Held(fifo)
  /\ fifo' = [fifo EXCEPT ![l] = Append(@, t)]

Pop(l) ==
  /\ fifo[l] # <<>>
  /\ fifo' = [fifo EXCEPT ![l] = Tail(@)]

Resize ==
  /\ DOMAIN fifo' = 0 .. Cardinality(DOMAIN fifo') - 1
  /\ Held(fifo') = Held(fifo)
  /\ Cardinality(Size(fifo')) = Cardinality(Size(fifo))
  /\ \A l \in DOMAIN fifo \cap DOMAIN fifo' :
       fifo[l] = SubSeq(fifo'[l], 1, Len(fifo[l]))

Next ==
  \/ \E l \in DOMAIN fifo : Pop(l) \/ \E t \in Threads : Push(l, t)
  \/ Resize

Spec == Init /\ [][Next]_fifo
=============================================================================
