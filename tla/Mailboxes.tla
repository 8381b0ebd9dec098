------------------------------ MODULE Mailboxes ------------------------------
(***************************************************************************)
(* What the actor system promises to an actor, whoever runs it: messages   *)
(* reach it in the order in which they were sent, each exactly once, and   *)
(* it receives one at a time.                                              *)
(***************************************************************************)
EXTENDS Sequences

CONSTANTS Actors, Messages

VARIABLES
  mailbox,     \* actor -> the messages sent to it, the oldest first
  receiving    \* actor -> the messages it is receiving

Init ==
  /\ mailbox = [a \in Actors |-> <<>>]
  /\ receiving = [a \in Actors |-> {}]

Send(a, m) ==
  /\ mailbox' = [mailbox EXCEPT ![a] = Append(@, m)]
  /\ UNCHANGED receiving

Receive(a) ==
  /\ mailbox[a] # <<>> /\ receiving[a] = {}
  /\ receiving' = [receiving EXCEPT ![a] = {Head(mailbox[a])}]
  /\ mailbox' = [mailbox EXCEPT ![a] = Tail(@)]

Finish(a) ==
  /\ receiving[a] # {}
  /\ receiving' = [receiving EXCEPT ![a] = {}]
  /\ UNCHANGED mailbox

Next == \E a \in Actors : Receive(a) \/ Finish(a) \/ \E m \in Messages : Send(a, m)

Spec == Init /\ [][Next]_<<mailbox, receiving>>
=============================================================================
