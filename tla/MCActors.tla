------------------------------ MODULE MCActors ------------------------------
(* Instances of Actors for TLC: two workers, three queues, two actors.     *)
EXTENDS Actors, TLC

CONSTANTS a, b, m1, m2, m3, m4

\* A program that ends an actor before it makes the next one, as
\* tests/concurrency/actors/poison.cfa does: a tells itself to go on and to end.
EndedBetween == <<a, m1, b, m3>>
MCTo == m1 :> a @@ m2 :> a @@ m3 :> b @@ m4 :> a
MCReaction == m1 :> <<m4, m2>> @@ m2 :> <<>> @@ m3 :> <<>> @@ m4 :> <<>>
=============================================================================
