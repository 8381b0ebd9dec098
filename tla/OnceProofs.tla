----------------------------- MODULE OnceProofs -----------------------------
(***************************************************************************)
(* TLAPS proofs about what happens once: module Once, where a once_flag    *)
(* keeps what OnceCalls promises, whatever the number of threads, flags    *)
(* and calls, and module Futures (the second part).                        *)
(***************************************************************************)
EXTENDS Once, Futures, TLAPS

TypeOK ==
  /\ state \in [Flags -> {"ARMED", "IN_PROGRESS"}]
  /\ head \in [Flags -> Threads \cup {Null, Poison}]
  /\ next \in [Threads -> Threads \cup {Null, Poison}]
  /\ expected \in [Threads -> Threads \cup {Null, Poison}]
  /\ sleeper \in [Threads -> Threads \cup {Null}]
  /\ following \in [Threads -> Threads \cup {Null}]
  /\ unparked \in [Threads -> {0, 1}]
  /\ flag \in [Threads -> Flags \cup {Null}]
  /\ pc \in [Threads -> {"out", "test", "claim", "run", "store", "poison", "advance", "wake",
                         "mark", "read", "push", "link", "park"}]
  /\ count \in [Threads -> Nat]
  /\ ended \in SUBSET Flags
  /\ \A t \in Threads : pc[t] # "out" => flag[t] \in Flags

\* The caller that has claimed the flag.
Claimed(t) == pc[t] \in {"run", "store", "poison", "advance", "wake"}

\* Each flag is claimed by one caller, once, and what follows the function
\* comes after it.
ClaimInv ==
  /\ \A t, u \in Threads : Claimed(t) /\ Claimed(u) /\ flag[t] = flag[u] => t = u
  /\ \A t \in Threads : Claimed(t) => state[flag[t]] # "ARMED"
  /\ \A f \in ended : state[f] # "ARMED"
  /\ \A t \in Threads : pc[t] = "run" => flag[t] \notin ended
  /\ \A t \in Threads : pc[t] \in {"store", "poison", "advance", "wake"} => flag[t] \in ended
  /\ \A f \in Flags : head[f] = Poison => f \in ended
  /\ \A t \in Threads : pc[t] = "poison" \/ pc[t] = "store" => head[flag[t]] # Poison
  /\ \A t \in Threads : pc[t] \in {"advance", "wake"} => head[flag[t]] = Poison
  /\ \A t \in Threads : pc[t] = "push" /\ expected[t] = Poison => flag[t] \in ended

\* A thread that has been pushed and not been woken yet, and the thread its
\* link leads to, or will when it is written.
Waits(t) == pc[t] \in {"link", "park"} /\ unparked[t] = 0
LinksTo(t) == IF pc[t] = "link" THEN expected[t] ELSE next[t]

\* A list is made of the threads that wait for its flag, each once.
ListInv ==
  /\ \A t \in Threads : Waits(t) /\ LinksTo(t) # Null =>
       LinksTo(t) \in Threads /\ Waits(LinksTo(t)) /\ flag[LinksTo(t)] = flag[t]
  /\ \A t, u \in Threads : Waits(t) /\ Waits(u) /\ LinksTo(t) = LinksTo(u) /\ LinksTo(t) # Null => t = u
  /\ \A f \in Flags : head[f] \in Threads => Waits(head[f]) /\ flag[head[f]] = f
  /\ \A f \in Flags, t \in Threads : head[f] \in Threads /\ Waits(t) => LinksTo(t) # head[f]
  /\ \A t \in Threads : pc[t] \in {"read", "push", "link"} => next[t] = Poison

\* The one who wakes holds the end of a list that nothing else leads to.
WakerInv ==
  /\ \A w \in Threads : pc[w] \in {"advance", "wake"} =>
       /\ sleeper[w] \in Threads /\ Waits(sleeper[w]) /\ flag[sleeper[w]] = flag[w]
       /\ \A t \in Threads : Waits(t) => LinksTo(t) # sleeper[w]
  /\ \A w \in Threads : pc[w] = "wake" =>
       pc[sleeper[w]] = "park" /\ following[w] = next[sleeper[w]]

\* Only a thread that waits for a flag whose function has ended is unparked.
UnparkInv == \A t \in Threads : unparked[t] # 0 => pc[t] = "park" /\ flag[t] \in ended

IInv == TypeOK /\ ClaimInv /\ ListInv /\ WakerInv /\ UnparkInv
-----------------------------------------------------------------------------
LEMMA InitInv == Init => IInv
<1> SUFFICES ASSUME Init PROVE IInv
  OBVIOUS
<1> USE OnceAssumption DEF Init
<1>1. TypeOK BY DEF TypeOK
<1>2. \A t \in Threads : pc[t] = "out" /\ unparked[t] = 0 OBVIOUS
<1>3. ended = {} /\ \A f \in Flags : head[f] = Null /\ head[f] # Poison /\ head[f] \notin Threads
  OBVIOUS
<1> HIDE DEF Init
<1>4. ClaimInv BY <1>2, <1>3 DEF ClaimInv, Claimed
<1>5. \A t \in Threads : ~Waits(t) BY <1>2 DEF Waits
<1>6. ListInv BY <1>2, <1>3, <1>5 DEF ListInv
<1>7. WakerInv /\ UnparkInv BY <1>2 DEF WakerInv, UnparkInv
<1> QED BY <1>1, <1>4, <1>6, <1>7 DEF IInv

\* A step of one thread, as its program counter shows it.
LEMMA OnlyOne ==
  ASSUME TypeOK, NEW t \in Threads, NEW a, NEW b, Goto(t, a, b)
  PROVE  /\ pc[t] = a /\ pc' = [pc EXCEPT ![t] = b] /\ pc'[t] = b
         /\ \A u \in Threads : u # t => pc'[u] = pc[u]
BY DEF TypeOK, Goto

\* A thread that is neither on a list nor wakes one leaves the lists alone.
LEMMA ListStay ==
  ASSUME IInv, UNCHANGED <<head, sleeper, following, unparked>>,
         NEW t \in Threads, pc[t] \notin {"link", "park", "advance", "wake"},
         pc'[t] \notin {"link", "park", "advance", "wake"},
         pc'[t] \in {"read", "push"} => next'[t] = Poison,
         \A u \in Threads : u # t =>
           pc'[u] = pc[u] /\ next'[u] = next[u] /\ expected'[u] = expected[u] /\ flag'[u] = flag[u]
  PROVE  ListInv' /\ WakerInv'
<1>1. ListInv /\ WakerInv BY DEF IInv
<1>2. \A u \in Threads : Waits(u) => u # t BY DEF Waits
<1>3. \A u \in Threads : Waits(u)' <=> Waits(u) BY DEF Waits
<1>4. \A u \in Threads : Waits(u) => LinksTo(u)' = LinksTo(u) /\ flag'[u] = flag[u]
  BY <1>2 DEF LinksTo
<1>5. sleeper \in [Threads -> Threads \cup {Null}] /\ head \in [Flags -> Threads \cup {Null, Poison}]
  BY DEF IInv, TypeOK
<1>6. \A u \in Threads : pc'[u] \in {"read", "push", "link"} => next'[u] = Poison
  BY <1>1 DEF ListInv
<1>7. ListInv'
  <2> HIDE DEF Waits, LinksTo
  <2> QED BY <1>1, <1>3, <1>4, <1>6 DEF ListInv
<1>8. \A w \in Threads : pc'[w] \in {"advance", "wake"} => w # t /\ pc[w] = pc'[w] OBVIOUS
<1>9. ASSUME NEW w \in Threads, pc'[w] \in {"advance", "wake"}
      PROVE  /\ sleeper'[w] \in Threads /\ Waits(sleeper[w])' /\ flag'[sleeper[w]] = flag'[w]
             /\ \A u \in Threads : Waits(u)' => LinksTo(u)' # sleeper'[w]
             /\ pc'[w] = "wake" => pc'[sleeper[w]] = "park" /\ following'[w] = next'[sleeper[w]]
  <2>1. /\ w # t /\ pc[w] = pc'[w] /\ sleeper[w] \in Threads /\ Waits(sleeper[w])
        /\ flag[sleeper[w]] = flag[w]
        /\ \A u \in Threads : Waits(u) => LinksTo(u) # sleeper[w]
        /\ pc[w] = "wake" => pc[sleeper[w]] = "park" /\ following[w] = next[sleeper[w]]
    BY <1>1, <1>8, <1>9 DEF WakerInv
  <2>2. sleeper[w] # t BY <1>2, <2>1
  <2> HIDE DEF Waits, LinksTo
  <2> QED BY <1>3, <1>4, <2>1, <2>2
<1>10. WakerInv' BY <1>9 DEF WakerInv
<1> QED BY <1>7, <1>10

LEMMA CallInv == ASSUME IInv, NEW t \in Threads, NEW f \in Flags, Call(t, f) PROVE IInv'
<1>1. /\ pc[t] = "out" /\ pc' = [pc EXCEPT ![t] = "test"] /\ pc'[t] = "test"
      /\ \A u \in Threads : u # t => pc'[u] = pc[u]
  BY OnlyOne DEF Call, IInv
<1>2. /\ flag' = [flag EXCEPT ![t] = f] /\ count' = [count EXCEPT ![t] = @ + 1]
      /\ UNCHANGED <<state, head, next, expected, sleeper, following, unparked, ended>>
  BY DEF Call
<1>3. flag'[t] = f /\ \A u \in Threads : u # t => flag'[u] = flag[u] BY <1>2 DEF IInv, TypeOK
<1>4. TypeOK' BY <1>1, <1>2, <1>3 DEF IInv, TypeOK
<1>5. ClaimInv' BY <1>1, <1>2, <1>3 DEF IInv, ClaimInv, Claimed
<1>6. ListInv' /\ WakerInv' BY <1>1, <1>2, <1>3, ListStay
<1>7. UnparkInv' BY <1>1, <1>2, <1>3 DEF IInv, UnparkInv
<1> QED BY <1>4, <1>5, <1>6, <1>7 DEF IInv

LEMMA TestReadyInv == ASSUME IInv, NEW t \in Threads, TestReady(t) PROVE IInv'
<1>0. PICK x \in {"out", "claim"} : Goto(t, "test", x) BY DEF TestReady
<1>1. /\ pc[t] = "test" /\ pc' = [pc EXCEPT ![t] = x] /\ pc'[t] = x
      /\ \A u \in Threads : u # t => pc'[u] = pc[u]
  BY <1>0, OnlyOne DEF IInv
<1>2. UNCHANGED <<state, head, next, expected, sleeper, following, unparked, flag, count, ended>>
  BY DEF TestReady
<1>4. TypeOK' BY <1>1, <1>2 DEF IInv, TypeOK
<1>5. ClaimInv' BY <1>1, <1>2 DEF IInv, ClaimInv, Claimed
<1>6. ListInv' /\ WakerInv' BY <1>1, <1>2, ListStay
<1>7. UnparkInv' BY <1>1, <1>2 DEF IInv, UnparkInv
<1> QED BY <1>4, <1>5, <1>6, <1>7 DEF IInv

LEMMA ClaimStepInv == ASSUME IInv, NEW t \in Threads, Claim(t) PROVE IInv'
<1>0. PICK x \in {"run", "mark"} : Goto(t, "claim", x) /\ (x = "run" <=> state[flag[t]] = "ARMED")
  BY DEF Claim
<1>1. /\ pc[t] = "claim" /\ pc' = [pc EXCEPT ![t] = x] /\ pc'[t] = x
      /\ \A u \in Threads : u # t => pc'[u] = pc[u]
  BY <1>0, OnlyOne DEF IInv
<1>2. UNCHANGED <<head, next, expected, sleeper, following, unparked, flag, count, ended>>
  BY DEF Claim
<1>3. /\ flag[t] \in Flags /\ state'[flag[t]] = "IN_PROGRESS"
      /\ \A f \in Flags : f # flag[t] => state'[f] = state[f]
  BY <1>1 DEF Claim, IInv, TypeOK
<1>4. TypeOK' BY <1>1, <1>2 DEF Claim, IInv, TypeOK
<1>5. ClaimInv'
  <2>1. ClaimInv BY DEF IInv
  <2>2. \A u \in Threads : pc[u] # "out" => flag[u] \in Flags BY DEF IInv, TypeOK
  <2>3. ended \in SUBSET Flags BY DEF IInv, TypeOK
  <2>4. \A u \in Threads : Claimed(u)' => Claimed(u) \/ (u = t /\ x = "run") BY <1>1 DEF Claimed
  <2>5. x = "run" => flag[t] \notin ended /\ \A u \in Threads : Claimed(u) => flag[u] # flag[t]
    BY <1>0, <2>1 DEF ClaimInv
  <2>6. \A u \in Threads : Claimed(u) => flag[u] \in Flags BY <2>2 DEF Claimed
  <2>7. \A u, v \in Threads : Claimed(u)' /\ Claimed(v)' /\ flag[u] = flag[v] => u = v
    BY <2>1, <2>4, <2>5 DEF ClaimInv
  <2>8. \A u \in Threads : Claimed(u)' => state'[flag[u]] # "ARMED"
    BY <1>3, <2>1, <2>4, <2>6 DEF ClaimInv
  <2>9. \A f \in ended : state'[f] # "ARMED" BY <1>3, <2>1, <2>3 DEF ClaimInv
  <2> QED BY <1>1, <1>2, <2>1, <2>5, <2>7, <2>8, <2>9 DEF ClaimInv
<1>6. ListInv' /\ WakerInv' BY <1>1, <1>2, ListStay
<1>7. UnparkInv' BY <1>1, <1>2 DEF IInv, UnparkInv
<1> QED BY <1>4, <1>5, <1>6, <1>7 DEF IInv

LEMMA RunInv == ASSUME IInv, NEW t \in Threads, Run(t) PROVE IInv'
<1>1. /\ pc[t] = "run" /\ pc' = [pc EXCEPT ![t] = "store"] /\ pc'[t] = "store"
      /\ \A u \in Threads : u # t => pc'[u] = pc[u]
  BY OnlyOne DEF Run, IInv
<1>2. /\ ended' = ended \cup {flag[t]}
      /\ UNCHANGED <<state, head, next, expected, sleeper, following, unparked, flag, count>>
  BY DEF Run
<1>3. flag[t] \in Flags BY <1>1 DEF IInv, TypeOK
<1>4. TypeOK' BY <1>1, <1>2, <1>3 DEF IInv, TypeOK
<1>5. ClaimInv'
  <2>1. ClaimInv BY DEF IInv
  <2>2. \A u \in Threads : Claimed(u)' <=> Claimed(u) BY <1>1 DEF Claimed
  <2>3. Claimed(t) /\ \A u \in Threads : pc[u] = "run" => Claimed(u) BY <1>1 DEF Claimed
  <2>4. head[flag[t]] # Poison BY <1>1, <1>3, <2>1 DEF ClaimInv
  <2>5. \A u \in Threads : pc'[u] = "run" => flag[u] \notin ended' BY <1>1, <1>2, <2>1, <2>3 DEF ClaimInv
  <2> HIDE DEF Claimed
  <2> QED BY <1>1, <1>2, <2>1, <2>2, <2>3, <2>4, <2>5 DEF ClaimInv
<1>6. ListInv' /\ WakerInv' BY <1>1, <1>2, ListStay
<1>7. UnparkInv' BY <1>1, <1>2 DEF IInv, UnparkInv
<1> QED BY <1>4, <1>5, <1>6, <1>7 DEF IInv

LEMMA StoreDoneInv == ASSUME IInv, NEW t \in Threads, StoreDone(t) PROVE IInv'
<1>1. /\ pc[t] = "store" /\ pc' = [pc EXCEPT ![t] = "poison"] /\ pc'[t] = "poison"
      /\ \A u \in Threads : u # t => pc'[u] = pc[u]
  BY OnlyOne DEF StoreDone, IInv
<1>2. /\ state' = [state EXCEPT ![flag[t]] = "IN_PROGRESS"]
      /\ UNCHANGED <<head, next, expected, sleeper, following, unparked, flag, count, ended>>
  BY DEF StoreDone
<1>4. TypeOK' BY <1>1, <1>2 DEF IInv, TypeOK
<1>5. ClaimInv'
  <2>1. \A f \in Flags : state[f] # "ARMED" => state'[f] # "ARMED" BY <1>2 DEF IInv, TypeOK
  <2>2. \A u \in Threads : Claimed(u)' <=> Claimed(u) BY <1>1 DEF Claimed
  <2>3. \A u \in Threads : Claimed(u) => flag[u] \in Flags BY DEF IInv, TypeOK, Claimed
  <2>4. ClaimInv /\ ended \in SUBSET Flags BY DEF IInv, TypeOK
  <2> HIDE DEF Claimed
  <2> QED BY <1>1, <1>2, <2>1, <2>2, <2>3, <2>4 DEF ClaimInv
<1>6. ListInv' /\ WakerInv' BY <1>1, <1>2, ListStay
<1>7. UnparkInv' BY <1>1, <1>2 DEF IInv, UnparkInv
<1> QED BY <1>4, <1>5, <1>6, <1>7 DEF IInv

LEMMA MarkInv == ASSUME IInv, NEW t \in Threads, Mark(t) PROVE IInv'
<1>1. /\ pc[t] = "mark" /\ pc' = [pc EXCEPT ![t] = "read"] /\ pc'[t] = "read"
      /\ \A u \in Threads : u # t => pc'[u] = pc[u]
  BY OnlyOne DEF Mark, IInv
<1>2. /\ next' = [next EXCEPT ![t] = Poison]
      /\ UNCHANGED <<state, head, expected, sleeper, following, unparked, flag, count, ended>>
  BY DEF Mark
<1>3. next'[t] = Poison /\ \A u \in Threads : u # t => next'[u] = next[u] BY <1>2 DEF IInv, TypeOK
<1>4. TypeOK' BY <1>1, <1>2 DEF IInv, TypeOK
<1>5. ClaimInv' BY <1>1, <1>2 DEF IInv, ClaimInv, Claimed
<1>6. ListInv' /\ WakerInv' BY <1>1, <1>2, <1>3, ListStay
<1>7. UnparkInv' BY <1>1, <1>2 DEF IInv, UnparkInv
<1> QED BY <1>4, <1>5, <1>6, <1>7 DEF IInv

LEMMA ReadHeadInv == ASSUME IInv, NEW t \in Threads, ReadHead(t) PROVE IInv'
<1>1. /\ pc[t] = "read" /\ pc' = [pc EXCEPT ![t] = "push"] /\ pc'[t] = "push"
      /\ \A u \in Threads : u # t => pc'[u] = pc[u]
  BY OnlyOne DEF ReadHead, IInv
<1>2. /\ expected' = [expected EXCEPT ![t] = head[flag[t]]]
      /\ UNCHANGED <<state, head, next, sleeper, following, unparked, flag, count, ended>>
  BY DEF ReadHead
<1>3. /\ flag[t] \in Flags /\ expected'[t] = head[flag[t]] /\ next[t] = Poison
      /\ \A u \in Threads : u # t => expected'[u] = expected[u]
  BY <1>1, <1>2 DEF IInv, TypeOK, ListInv
<1>4. TypeOK' BY <1>1, <1>2, <1>3 DEF IInv, TypeOK
<1>5. ClaimInv' BY <1>1, <1>2, <1>3 DEF IInv, ClaimInv, Claimed
<1>6. ListInv' /\ WakerInv' BY <1>1, <1>2, <1>3, ListStay
<1>7. UnparkInv' BY <1>1, <1>2 DEF IInv, UnparkInv
<1> QED BY <1>4, <1>5, <1>6, <1>7 DEF IInv

LEMMA RefusedInv == ASSUME IInv, NEW t \in Threads, Refused(t) PROVE IInv'
<1>1. /\ pc[t] = "push" /\ pc' = [pc EXCEPT ![t] = "out"] /\ pc'[t] = "out"
      /\ \A u \in Threads : u # t => pc'[u] = pc[u]
  BY OnlyOne DEF Refused, IInv
<1>2. UNCHANGED <<state, head, next, expected, sleeper, following, unparked, flag, count, ended>>
  BY DEF Refused
<1>4. TypeOK' BY <1>1, <1>2 DEF IInv, TypeOK
<1>5. ClaimInv' BY <1>1, <1>2 DEF IInv, ClaimInv, Claimed
<1>6. ListInv' /\ WakerInv' BY <1>1, <1>2, ListStay
<1>7. UnparkInv' BY <1>1, <1>2 DEF IInv, UnparkInv
<1> QED BY <1>4, <1>5, <1>6, <1>7 DEF IInv

LEMMA PoisonListInv == ASSUME IInv, NEW t \in Threads, PoisonList(t) PROVE IInv'
<1>a. PICK f : f = flag[t] OBVIOUS
<1>b. PICK s : s = head[f] OBVIOUS
<1>0. /\ pc[t] = "poison" /\ head' = [head EXCEPT ![f] = Poison]
      /\ sleeper' = [sleeper EXCEPT ![t] = s]
      /\ pc' = [pc EXCEPT ![t] = IF s = Null THEN "out" ELSE "advance"]
      /\ UNCHANGED <<state, next, expected, following, unparked, flag, count, ended>>
  BY <1>a, <1>b DEF PoisonList, WakeOrLeave
<1>1. f \in Flags BY <1>0, <1>a DEF IInv, TypeOK
<1>2. ClaimInv /\ ListInv /\ WakerInv BY DEF IInv
<1>3. s # Poison /\ s \in Threads \cup {Null} BY <1>0, <1>1, <1>2, <1>a, <1>b DEF ClaimInv, IInv, TypeOK
<1>4. /\ pc'[t] = IF s = Null THEN "out" ELSE "advance"
      /\ sleeper'[t] = s
      /\ \A u \in Threads : u # t => pc'[u] = pc[u] /\ sleeper'[u] = sleeper[u]
      /\ head'[f] = Poison /\ \A g \in Flags : g # f => head'[g] = head[g]
  BY <1>0, <1>1 DEF IInv, TypeOK
<1>5. s # Null => s \in Threads /\ Waits(s) /\ flag[s] = f
  BY <1>1, <1>2, <1>3, <1>b DEF ListInv
<1>6. s # Null => \A u \in Threads : Waits(u) => LinksTo(u) # s
  BY <1>1, <1>2, <1>3, <1>b DEF ListInv
<1>7. f \in ended BY <1>0, <1>2, <1>a DEF ClaimInv
<1>8. TypeOK' BY <1>0, <1>1, <1>3 DEF IInv, TypeOK
<1>9. ClaimInv'
  <2>1. \A u \in Threads : Claimed(u)' => Claimed(u) BY <1>0, <1>4 DEF Claimed
  <2>2. \A u \in Threads : pc[u] \in {"store", "poison"} => Claimed(u) BY DEF Claimed
  <2>3. Claimed(t) BY <1>0 DEF Claimed
  <2>4. \A u \in Threads : pc[u] \in {"store", "poison"} /\ u # t => flag[u] # f
    BY <1>2, <2>2, <2>3, <1>a DEF ClaimInv
  <2>5. \A u \in Threads : pc[u] # "out" => flag[u] \in Flags BY DEF IInv, TypeOK
  <2>6. \A u \in Threads : pc'[u] \in {"store", "poison"} => pc[u] = pc'[u] /\ u # t BY <1>4
  <2>7. (\A u \in Threads : pc[u] = "poison" \/ pc[u] = "store" => head[flag[u]] # Poison)'
    BY <1>0, <1>2, <1>4, <2>4, <2>5, <2>6 DEF ClaimInv
  <2>8. (\A u \in Threads : pc[u] \in {"advance", "wake"} => head[flag[u]] = Poison)'
    BY <1>0, <1>2, <1>4, <1>a, <2>5 DEF ClaimInv
  <2>9. (\A g \in Flags : head[g] = Poison => g \in ended)' BY <1>0, <1>2, <1>4, <1>7 DEF ClaimInv
  <2>10. (\A u \in Threads : pc[u] \in {"store", "poison", "advance", "wake"} => flag[u] \in ended)'
    BY <1>0, <1>2, <1>4, <1>7, <1>a DEF ClaimInv
  <2>11. (\A u, v \in Threads : Claimed(u) /\ Claimed(v) /\ flag[u] = flag[v] => u = v)'
    BY <1>0, <1>2, <2>1 DEF ClaimInv
  <2>12. (\A u \in Threads : Claimed(u) => state[flag[u]] # "ARMED")'
    BY <1>0, <1>2, <2>1 DEF ClaimInv
  <2>13. (\A u \in Threads : pc[u] = "run" => flag[u] \notin ended)' BY <1>0, <1>2, <1>4 DEF ClaimInv
  <2>14. (\A u \in Threads : pc[u] = "push" /\ expected[u] = Poison => flag[u] \in ended)'
    BY <1>0, <1>2, <1>4 DEF ClaimInv
  <2>15. (\A g \in ended : state[g] # "ARMED")' BY <1>0, <1>2 DEF ClaimInv
  <2> QED BY <2>7, <2>8, <2>9, <2>10, <2>11, <2>12, <2>13, <2>14, <2>15 DEF ClaimInv
<1>10. \A u \in Threads : (Waits(u)' <=> Waits(u)) BY <1>0, <1>4 DEF Waits
<1>11. \A u \in Threads : Waits(u) => LinksTo(u)' = LinksTo(u) BY <1>0, <1>4 DEF LinksTo, Waits
<1>12. ListInv'
  <2>1. \A g \in Flags : head'[g] \in Threads => g # f /\ head'[g] = head[g]
    BY <1>4, OnceAssumption
  <2>2. \A u \in Threads : pc'[u] \in {"read", "push", "link"} => next'[u] = Poison
    BY <1>0, <1>2, <1>4 DEF ListInv
  <2> HIDE DEF Waits, LinksTo
  <2> QED BY <1>0, <1>2, <1>10, <1>11, <2>1, <2>2 DEF ListInv
<1>13. WakerInv'
  <2>1. ASSUME NEW w \in Threads, pc'[w] \in {"advance", "wake"}
        PROVE  /\ sleeper'[w] \in Threads /\ Waits(sleeper[w])' /\ flag'[sleeper'[w]] = flag'[w]
               /\ \A u \in Threads : Waits(u)' => LinksTo(u)' # sleeper'[w]
               /\ pc'[w] = "wake" => pc'[sleeper'[w]] = "park" /\ following'[w] = next'[sleeper'[w]]
    <3>1. CASE w = t
      <4>1. s # Null /\ pc'[w] # "wake" BY <1>4, <2>1, <3>1
      <4>2. sleeper'[w] = s /\ flag'[w] = f BY <1>0, <1>4, <1>a, <3>1
      <4>3. Waits(s)' BY <1>5, <1>10, <4>1
      <4> HIDE DEF Waits, LinksTo
      <4> QED BY <1>0, <1>5, <1>6, <1>10, <1>11, <4>1, <4>2, <4>3
    <3>2. CASE w # t
      <4>0. PICK z : z = sleeper[w] OBVIOUS
      <4>1. /\ pc[w] = pc'[w] /\ sleeper'[w] = z BY <1>4, <3>2, <4>0
      <4>2. /\ z \in Threads /\ Waits(z) /\ flag[z] = flag[w]
            /\ \A u \in Threads : Waits(u) => LinksTo(u) # z
            /\ pc[w] = "wake" => pc[z] = "park" /\ following[w] = next[z]
        BY <1>2, <2>1, <4>0, <4>1 DEF WakerInv
      <4>3. z # t BY <1>0, <4>2 DEF Waits
      <4>4. pc'[z] = pc[z] BY <1>4, <4>2, <4>3
      <4>5. Waits(z)' BY <1>10, <4>2
      <4> HIDE DEF Waits, LinksTo
      <4> QED BY <1>0, <1>10, <1>11, <4>1, <4>2, <4>4, <4>5
    <3> QED BY <3>1, <3>2
  <2> QED BY <2>1 DEF WakerInv
<1>14. UnparkInv' BY <1>0, <1>4 DEF IInv, UnparkInv
<1> QED BY <1>8, <1>9, <1>12, <1>13, <1>14 DEF IInv

\* What a waker knows of the thread it is to wake.
LEMMA SleeperFacts ==
  ASSUME IInv, NEW w \in Threads, pc[w] \in {"advance", "wake"}, NEW z, z = sleeper[w]
  PROVE  /\ z \in Threads /\ z # w /\ Waits(z) /\ flag[z] = flag[w]
         /\ \A t \in Threads : Waits(t) => LinksTo(t) # z
         /\ pc[w] = "wake" => pc[z] = "park" /\ following[w] = next[z]
         /\ \A u \in Threads : pc[u] \in {"advance", "wake"} /\ sleeper[u] = z => u = w
<1>1. /\ z \in Threads /\ Waits(z) /\ flag[z] = flag[w]
      /\ \A t \in Threads : Waits(t) => LinksTo(t) # z
      /\ pc[w] = "wake" => pc[z] = "park" /\ following[w] = next[z]
  BY DEF IInv, WakerInv
<1>2. z # w BY <1>1 DEF Waits
<1>3. ASSUME NEW u \in Threads, pc[u] \in {"advance", "wake"}, sleeper[u] = z PROVE u = w
  <2>1. flag[u] = flag[z] BY <1>3 DEF IInv, WakerInv
  <2>2. Claimed(u) /\ Claimed(w) BY <1>3 DEF Claimed
  <2> QED BY <1>1, <2>1, <2>2 DEF IInv, ClaimInv
<1> QED BY <1>1, <1>2, <1>3

LEMMA AdvanceInv == ASSUME IInv, NEW t \in Threads, Advance(t) PROVE IInv'
<1>a. PICK z : z = sleeper[t] OBVIOUS
<1>1. /\ pc[t] = "advance" /\ pc' = [pc EXCEPT ![t] = "wake"] /\ pc'[t] = "wake"
      /\ \A u \in Threads : u # t => pc'[u] = pc[u]
  BY OnlyOne DEF Advance, IInv
<1>2. /\ next[z] # Poison /\ following' = [following EXCEPT ![t] = next[z]]
      /\ UNCHANGED <<state, head, next, expected, sleeper, unparked, flag, count, ended>>
  BY <1>a DEF Advance
<1>3. /\ z \in Threads /\ Waits(z) /\ flag[z] = flag[t]
      /\ \A u \in Threads : Waits(u) => LinksTo(u) # z
  BY <1>1, <1>a, SleeperFacts
<1>4. pc[z] = "park" BY <1>2, <1>3 DEF Waits, IInv, ListInv
<1>5. next[z] \in Threads \cup {Null} BY <1>2, <1>3 DEF IInv, TypeOK
<1>6. /\ following'[t] = next[z]
      /\ \A u \in Threads : u # t => following'[u] = following[u]
  BY <1>2 DEF IInv, TypeOK
<1>7. TypeOK' BY <1>1, <1>2, <1>5 DEF IInv, TypeOK
<1>8. ClaimInv' BY <1>1, <1>2 DEF IInv, ClaimInv, Claimed
<1>9. \A u \in Threads : Waits(u)' <=> Waits(u) BY <1>1, <1>2 DEF Waits
<1>10. \A u \in Threads : LinksTo(u)' = LinksTo(u) BY <1>1, <1>2 DEF LinksTo
<1>11. ListInv'
  <2>1. \A u \in Threads : pc'[u] \in {"read", "push", "link"} => next'[u] = Poison
    BY <1>1, <1>2 DEF IInv, ListInv
  <2>2. ListInv /\ head \in [Flags -> Threads \cup {Null, Poison}] BY DEF IInv, TypeOK
  <2> HIDE DEF Waits, LinksTo
  <2> QED BY <1>2, <1>9, <1>10, <2>1, <2>2 DEF ListInv
<1>12. WakerInv'
  <2>1. ASSUME NEW w \in Threads, pc'[w] \in {"advance", "wake"}
        PROVE  /\ sleeper'[w] \in Threads /\ Waits(sleeper[w])' /\ flag'[sleeper'[w]] = flag'[w]
               /\ \A u \in Threads : Waits(u)' => LinksTo(u)' # sleeper'[w]
               /\ pc'[w] = "wake" => pc'[sleeper'[w]] = "park" /\ following'[w] = next'[sleeper'[w]]
    <3>0. PICK y : y = sleeper[w] OBVIOUS
    <3>1. pc[w] \in {"advance", "wake"} BY <1>1, <2>1
    <3>2. /\ y \in Threads /\ Waits(y) /\ flag[y] = flag[w]
          /\ \A u \in Threads : Waits(u) => LinksTo(u) # y
          /\ pc[w] = "wake" => pc[y] = "park" /\ following[w] = next[y]
      BY <3>0, <3>1, SleeperFacts
    <3>3. pc'[w] = "wake" => pc'[y] = "park" /\ following'[w] = next[y]
      <4>1. CASE w = t
        <5>1. y = z BY <1>a, <3>0, <4>1
        <5>2. z # t BY <1>1, <1>4
        <5> QED BY <1>1, <1>3, <1>4, <1>6, <4>1, <5>1, <5>2
      <4>2. CASE w # t
        <5>1. pc[y] = "park" => y # t BY <1>1
        <5> QED BY <1>1, <1>6, <3>2, <4>2, <5>1
      <4> QED BY <4>1, <4>2
    <3>4. Waits(y)' BY <1>9, <3>2
    <3>5. sleeper'[w] = y BY <1>2, <3>0
    <3> HIDE DEF Waits, LinksTo
    <3> QED BY <1>2, <1>9, <1>10, <3>2, <3>3, <3>4, <3>5
  <2> QED BY <2>1 DEF WakerInv
<1>13. UnparkInv' BY <1>1, <1>2 DEF IInv, UnparkInv
<1> QED BY <1>7, <1>8, <1>11, <1>12, <1>13 DEF IInv

LEMMA WakeInv == ASSUME IInv, NEW t \in Threads, Wake(t) PROVE IInv'
<1>a. PICK z : z = sleeper[t] OBVIOUS
<1>b. PICK s : s = following[t] OBVIOUS
<1>0. /\ pc[t] = "wake" /\ unparked' = [unparked EXCEPT ![z] = @ + 1]
      /\ sleeper' = [sleeper EXCEPT ![t] = s]
      /\ pc' = [pc EXCEPT ![t] = IF s = Null THEN "out" ELSE "advance"]
      /\ UNCHANGED <<state, head, next, expected, following, flag, count, ended>>
  BY <1>a, <1>b DEF Wake, WakeOrLeave
<1>1. /\ pc'[t] = IF s = Null THEN "out" ELSE "advance"
      /\ sleeper'[t] = s /\ s \in Threads \cup {Null}
      /\ \A u \in Threads : u # t => pc'[u] = pc[u] /\ sleeper'[u] = sleeper[u]
  BY <1>0, <1>b DEF IInv, TypeOK
<1>2. /\ z \in Threads /\ z # t /\ Waits(z) /\ flag[z] = flag[t]
      /\ \A u \in Threads : Waits(u) => LinksTo(u) # z
      /\ pc[z] = "park" /\ s = next[z]
      /\ \A u \in Threads : pc[u] \in {"advance", "wake"} /\ sleeper[u] = z => u = t
  BY <1>0, <1>a, <1>b, SleeperFacts
<1>3. unparked[z] = 0 /\ unparked'[z] = 1 /\ \A u \in Threads : u # z => unparked'[u] = unparked[u]
  BY <1>0, <1>2 DEF Waits, IInv, TypeOK
<1>4. \A u \in Threads : Waits(u)' <=> Waits(u) /\ u # z
  BY <1>0, <1>1, <1>2, <1>3 DEF Waits
<1>5. \A u \in Threads : Waits(u) => LinksTo(u)' = LinksTo(u) BY <1>0, <1>1 DEF LinksTo, Waits
<1>6. ClaimInv /\ ListInv BY DEF IInv
<1>7. LinksTo(z) = s BY <1>2 DEF LinksTo
<1>8. s # Null => s \in Threads /\ Waits(s) /\ flag[s] = flag[t] BY <1>2, <1>6, <1>7 DEF ListInv
<1>9. s # Null => \A u \in Threads : Waits(u) /\ u # z => LinksTo(u) # s
  BY <1>2, <1>6, <1>7 DEF ListInv
<1>10. s # z BY <1>2, <1>7
<1>11. TypeOK'
  <2>1. unparked' \in [Threads -> {0, 1}] BY <1>0, <1>3 DEF IInv, TypeOK
  <2> QED BY <1>0, <1>1, <2>1 DEF IInv, TypeOK
<1>12. ClaimInv'
  <2>1. \A u \in Threads : Claimed(u)' => Claimed(u) BY <1>0, <1>1 DEF Claimed
  <2>2. \A u \in Threads : pc'[u] \in {"run", "store", "poison", "push"} => pc'[u] = pc[u] BY <1>1
  <2>3. \A u \in Threads : pc'[u] \in {"advance", "wake"} => pc[u] \in {"advance", "wake"}
    BY <1>0, <1>1
  <2> HIDE DEF Claimed
  <2> QED BY <1>0, <1>6, <2>1, <2>2, <2>3 DEF ClaimInv
<1>13. ListInv'
  <2>1. \A u \in Threads : pc'[u] \in {"read", "push", "link"} => next'[u] = Poison
    BY <1>0, <1>1, <1>6 DEF ListInv
  <2>2. \A f \in Flags : head[f] # z
    <3>1. head[flag[z]] = Poison BY <1>0, <1>2, <1>6 DEF ClaimInv
    <3>2. Poison \notin Threads BY OnceAssumption
    <3> QED BY <1>2, <1>6, <3>1, <3>2 DEF ListInv
  <2> HIDE DEF Waits, LinksTo
  <2>3. \A u \in Threads : Waits(u)' /\ LinksTo(u)' # Null =>
          LinksTo(u)' \in Threads /\ Waits(LinksTo(u)) /\ LinksTo(u) # z /\ flag[LinksTo(u)] = flag[u]
    BY <1>2, <1>4, <1>5, <1>6 DEF ListInv
  <2>4. ASSUME NEW u \in Threads, Waits(u)', LinksTo(u)' # Null
        PROVE  LinksTo(u)' \in Threads /\ Waits(LinksTo(u))' /\ flag'[LinksTo(u)'] = flag'[u]
    <3>1. PICK y : y = LinksTo(u) OBVIOUS
    <3>2. y \in Threads /\ Waits(y) /\ y # z /\ flag[y] = flag[u]
      BY <1>4, <1>5, <2>3, <2>4, <3>1
    <3>3. y = LinksTo(u)' BY <1>4, <1>5, <2>4, <3>1
    <3>4. Waits(y)' BY <1>4, <3>2
    <3> QED BY <1>0, <3>2, <3>3, <3>4
  <2>5. \A u, v \in Threads : Waits(u)' /\ Waits(v)' /\ LinksTo(u)' = LinksTo(v)' /\ LinksTo(u)' # Null => u = v
    BY <1>4, <1>5, <1>6 DEF ListInv
  <2>6. ASSUME NEW f \in Flags, head'[f] \in Threads PROVE Waits(head[f])' /\ flag'[head'[f]] = f
    <3>1. PICK y : y = head[f] OBVIOUS
    <3>2. y \in Threads /\ Waits(y) /\ y # z /\ flag[y] = f BY <1>0, <1>6, <2>2, <2>6, <3>1 DEF ListInv
    <3>3. Waits(y)' BY <1>4, <3>2
    <3>4. y = head'[f] BY <1>0, <3>1
    <3> QED BY <1>0, <3>2, <3>3, <3>4
  <2>7. (\A f \in Flags, u \in Threads : head[f] \in Threads /\ Waits(u) => LinksTo(u) # head[f])'
    BY <1>0, <1>4, <1>5, <1>6 DEF ListInv
  <2> QED BY <2>1, <2>4, <2>5, <2>6, <2>7 DEF ListInv
<1>14. WakerInv'
  <2>1. ASSUME NEW w \in Threads, pc'[w] \in {"advance", "wake"}
        PROVE  /\ sleeper'[w] \in Threads /\ Waits(sleeper[w])' /\ flag'[sleeper'[w]] = flag'[w]
               /\ \A u \in Threads : Waits(u)' => LinksTo(u)' # sleeper'[w]
               /\ pc'[w] = "wake" => pc'[sleeper'[w]] = "park" /\ following'[w] = next'[sleeper'[w]]
    <3>1. CASE w = t
      <4>1. s # Null /\ pc'[w] # "wake" /\ sleeper'[w] = s BY <1>1, <2>1, <3>1
      <4>2. Waits(s)' BY <1>4, <1>8, <1>10, <4>1
      <4> HIDE DEF Waits, LinksTo
      <4> QED BY <1>0, <1>4, <1>5, <1>8, <1>9, <3>1, <4>1, <4>2
    <3>2. CASE w # t
      <4>0. PICK y : y = sleeper[w] OBVIOUS
      <4>1. /\ pc[w] = pc'[w] /\ sleeper'[w] = y BY <1>1, <3>2, <4>0
      <4>2. /\ y \in Threads /\ Waits(y) /\ flag[y] = flag[w]
            /\ \A u \in Threads : Waits(u) => LinksTo(u) # y
            /\ pc[w] = "wake" => pc[y] = "park" /\ following[w] = next[y]
        BY <2>1, <4>0, <4>1, SleeperFacts
      <4>3. y # z BY <1>2, <2>1, <3>2, <4>0, <4>1
      <4>4. Waits(y)' BY <1>4, <4>2, <4>3
      <4>5. pc'[y] = pc[y]
        <5>1. y # t BY <1>0, <4>2 DEF Waits
        <5> QED BY <1>1, <4>2, <5>1
      <4> HIDE DEF Waits, LinksTo
      <4> QED BY <1>0, <1>4, <1>5, <4>1, <4>2, <4>4, <4>5
    <3> QED BY <3>1, <3>2
  <2> QED BY <2>1 DEF WakerInv
<1>15. UnparkInv'
  <2>1. flag[z] \in ended BY <1>0, <1>2, <1>6 DEF ClaimInv
  <2> QED BY <1>0, <1>1, <1>2, <1>3, <2>1 DEF IInv, UnparkInv
<1> QED BY <1>11, <1>12, <1>13, <1>14, <1>15 DEF IInv

LEMMA PushInv == ASSUME IInv, NEW t \in Threads, Push(t) PROVE IInv'
<1>a. PICK f : f = flag[t] OBVIOUS
<1>b. PICK s : s = head[f] OBVIOUS
<1>0. /\ pc[t] = "push" /\ expected[t] # Poison
      /\ UNCHANGED <<state, next, sleeper, following, unparked, flag, count, ended>>
  BY DEF Push
<1>1. f \in Flags /\ next[t] = Poison /\ s \in Threads \cup {Null, Poison}
  BY <1>0, <1>a, <1>b DEF IInv, TypeOK, ListInv
<1>2. CASE s = expected[t]
  <2>1. /\ Goto(t, "push", "link") /\ head' = [head EXCEPT ![f] = t] /\ UNCHANGED expected
    BY <1>2, <1>a, <1>b DEF Push
  <2>2. /\ pc' = [pc EXCEPT ![t] = "link"] /\ pc'[t] = "link"
        /\ \A u \in Threads : u # t => pc'[u] = pc[u]
    BY <2>1, OnlyOne DEF IInv
  <2>3. /\ head'[f] = t /\ \A g \in Flags : g # f => head'[g] = head[g]
        /\ s # Poison
    BY <1>0, <1>1, <1>2, <2>1 DEF IInv, TypeOK
  <2>4. TypeOK' BY <1>0, <2>1, <2>2 DEF IInv, TypeOK
  <2>5. ClaimInv /\ ListInv BY DEF IInv
  <2>6. unparked[t] = 0 BY <1>0 DEF IInv, UnparkInv, TypeOK
  <2>7. ~Waits(t) /\ Waits(t)' BY <1>0, <2>2, <2>6 DEF Waits
  <2>8. \A u \in Threads : u # t => (Waits(u)' <=> Waits(u)) /\ LinksTo(u)' = LinksTo(u)
    BY <1>0, <2>1, <2>2 DEF Waits, LinksTo
  <2>9. LinksTo(t)' = s BY <1>2, <2>1, <2>2 DEF LinksTo
  <2>10. s # Null => s \in Threads /\ Waits(s) /\ flag[s] = f /\ s # t
    BY <1>1, <1>b, <2>3, <2>5, <2>7 DEF ListInv
  <2>11. ClaimInv'
    <3>1. \A u \in Threads : Claimed(u)' <=> Claimed(u) BY <1>0, <2>2 DEF Claimed
    <3>2. \A g \in Flags : head'[g] = Poison <=> head[g] = Poison
      BY <1>1, <1>b, <2>3, OnceAssumption
    <3>3. \A u \in Threads : pc[u] # "out" => flag[u] \in Flags BY DEF IInv, TypeOK
    <3>4. \A u \in Threads : pc'[u] # "link" => pc'[u] = pc[u] BY <2>2
    <3> HIDE DEF Claimed
    <3> QED BY <1>0, <2>1, <2>5, <3>1, <3>2, <3>3, <3>4 DEF ClaimInv
  <2>12. \A u \in Threads : Waits(u) => LinksTo(u) # t
    BY <2>5, <2>7, OnceAssumption DEF ListInv
  <2>13. s # Null => \A u \in Threads : Waits(u) => LinksTo(u) # s
    BY <1>1, <1>b, <2>5, <2>10 DEF ListInv
  <2>14. ListInv'
    <3> HIDE DEF Waits, LinksTo
    <3>1. \A u \in Threads : pc'[u] \in {"read", "push", "link"} => next'[u] = Poison
      BY <1>0, <1>1, <2>2, <2>5 DEF ListInv
    <3>2. ASSUME NEW u \in Threads, Waits(u)', LinksTo(u)' # Null
          PROVE  LinksTo(u)' \in Threads /\ Waits(LinksTo(u))' /\ flag'[LinksTo(u)'] = flag'[u]
      <4>1. CASE u = t
        <5>1. LinksTo(u)' = s /\ s # Null BY <2>9, <3>2, <4>1
        <5>2. Waits(s)' BY <2>8, <2>10, <5>1
        <5> QED BY <1>0, <1>a, <2>10, <4>1, <5>1, <5>2
      <4>2. CASE u # t
        <5>1. PICK y : y = LinksTo(u) OBVIOUS
        <5>2. y = LinksTo(u)' /\ Waits(u) BY <2>8, <3>2, <4>2, <5>1
        <5>3. y \in Threads /\ Waits(y) /\ flag[y] = flag[u]
          <6>1. Waits(u) /\ LinksTo(u) # Null BY <3>2, <5>1, <5>2
          <6>2. LinksTo(u) \in Threads /\ Waits(LinksTo(u)) /\ flag[LinksTo(u)] = flag[u]
            BY <2>5, <6>1 DEF ListInv
          <6> QED BY <5>1, <6>2
        <5>4. Waits(y)' BY <2>7, <2>8, <5>3
        <5> QED BY <1>0, <5>2, <5>3, <5>4
      <4> QED BY <4>1, <4>2
    <3>3. ASSUME NEW u \in Threads, NEW v \in Threads, Waits(u)', Waits(v)',
                 LinksTo(u)' = LinksTo(v)', LinksTo(u)' # Null
          PROVE  u = v
      <4>1. CASE u = t /\ v # t BY <2>8, <2>9, <2>13, <3>3, <4>1
      <4>2. CASE v = t /\ u # t BY <2>8, <2>9, <2>13, <3>3, <4>2
      <4>3. CASE u # t /\ v # t BY <2>5, <2>8, <3>3, <4>3 DEF ListInv
      <4> QED BY <4>1, <4>2, <4>3
    <3>4. ASSUME NEW g \in Flags, head'[g] \in Threads PROVE Waits(head[g])' /\ flag'[head'[g]] = g
      <4>0. PICK y : y = head'[g] OBVIOUS
      <4>1. CASE g = f
        <5>1. y = t BY <2>3, <4>0, <4>1
        <5>2. Waits(y)' BY <2>7, <5>1
        <5> QED BY <1>0, <1>a, <4>0, <4>1, <5>1, <5>2
      <4>2. CASE g # f
        <5>1. y = head[g] /\ y \in Threads BY <2>3, <3>4, <4>0, <4>2
        <5>2. Waits(y) /\ flag[y] = g BY <2>5, <5>1 DEF ListInv
        <5>3. Waits(y)' BY <2>7, <2>8, <5>1, <5>2
        <5> QED BY <1>0, <4>0, <5>2, <5>3
      <4> QED BY <4>1, <4>2
    <3>5. ASSUME NEW g \in Flags, NEW u \in Threads, head'[g] \in Threads, Waits(u)'
          PROVE  LinksTo(u)' # head'[g]
      <4>1. CASE g = f BY <2>3, <2>7, <2>8, <2>9, <2>10, <2>12, <3>5, <4>1, OnceAssumption
      <4>2. CASE g # f /\ u # t BY <2>3, <2>5, <2>8, <3>5, <4>2 DEF ListInv
      <4>3. CASE g # f /\ u = t
        <5>1. head'[g] = head[g] /\ LinksTo(u)' = s BY <2>3, <2>9, <4>3
        <5>2. flag[head[g]] = g BY <2>5, <3>5, <5>1 DEF ListInv
        <5> QED BY <2>10, <3>5, <4>3, <5>1, <5>2, OnceAssumption
      <4> QED BY <4>1, <4>2, <4>3
    <3> QED BY <3>1, <3>2, <3>3, <3>4, <3>5 DEF ListInv
  <2>15. WakerInv'
    <3>1. ASSUME NEW w \in Threads, pc'[w] \in {"advance", "wake"}
          PROVE  /\ sleeper'[w] \in Threads /\ Waits(sleeper[w])' /\ flag'[sleeper'[w]] = flag'[w]
                 /\ \A u \in Threads : Waits(u)' => LinksTo(u)' # sleeper'[w]
                 /\ pc'[w] = "wake" => pc'[sleeper'[w]] = "park" /\ following'[w] = next'[sleeper'[w]]
      <4>0. PICK y : y = sleeper[w] OBVIOUS
      <4>1. w # t /\ pc[w] = pc'[w] /\ sleeper'[w] = y BY <1>0, <2>2, <3>1, <4>0
      <4>2. /\ y \in Threads /\ Waits(y) /\ flag[y] = flag[w]
            /\ \A u \in Threads : Waits(u) => LinksTo(u) # y
            /\ pc[w] = "wake" => pc[y] = "park" /\ following[w] = next[y]
        BY <3>1, <4>0, <4>1, SleeperFacts
      <4>3. y # t /\ Waits(y)' /\ pc'[y] = pc[y] BY <2>2, <2>7, <2>8, <4>2
      <4>4. y # s
        <5>1. head[flag[w]] = Poison BY <2>5, <3>1, <4>1 DEF ClaimInv
        <5>2. flag[w] # f BY <1>b, <2>3, <5>1
        <5> QED BY <2>10, <4>2, <5>2, OnceAssumption
      <4> HIDE DEF Waits, LinksTo
      <4> QED BY <1>0, <2>7, <2>8, <2>9, <4>1, <4>2, <4>3, <4>4
    <3> QED BY <3>1 DEF WakerInv
  <2>16. UnparkInv' BY <1>0, <2>2, <2>6 DEF IInv, UnparkInv
  <2> QED BY <2>4, <2>11, <2>14, <2>15, <2>16 DEF IInv
<1>3. CASE s # expected[t]
  <2>1. /\ Goto(t, "push", "push") /\ expected' = [expected EXCEPT ![t] = s] /\ UNCHANGED head
    BY <1>3, <1>a, <1>b DEF Push
  <2>2. /\ pc' = [pc EXCEPT ![t] = "push"] /\ pc'[t] = "push"
        /\ \A u \in Threads : u # t => pc'[u] = pc[u]
    BY <2>1, OnlyOne DEF IInv
  <2>3. expected'[t] = s /\ \A u \in Threads : u # t => expected'[u] = expected[u]
    BY <2>1 DEF IInv, TypeOK
  <2>4. TypeOK' BY <1>0, <1>1, <2>1, <2>2 DEF IInv, TypeOK
  <2>5. ClaimInv' BY <1>0, <1>1, <1>a, <1>b, <2>1, <2>2, <2>3 DEF IInv, ClaimInv, Claimed
  <2>6. ListInv' /\ WakerInv' BY <1>0, <1>1, <2>1, <2>2, <2>3, ListStay
  <2>7. UnparkInv' BY <1>0, <2>2 DEF IInv, UnparkInv
  <2> QED BY <2>4, <2>5, <2>6, <2>7 DEF IInv
<1> QED BY <1>2, <1>3

LEMMA LinkInv == ASSUME IInv, NEW t \in Threads, Link(t) PROVE IInv'
<1>1. /\ pc[t] = "link" /\ pc' = [pc EXCEPT ![t] = "park"] /\ pc'[t] = "park"
      /\ \A u \in Threads : u # t => pc'[u] = pc[u]
  BY OnlyOne DEF Link, IInv
<1>2. /\ next' = [next EXCEPT ![t] = expected[t]]
      /\ UNCHANGED <<state, head, expected, sleeper, following, unparked, flag, count, ended>>
  BY DEF Link
<1>3. next'[t] = expected[t] /\ \A u \in Threads : u # t => next'[u] = next[u]
  BY <1>2 DEF IInv, TypeOK
<1>4. TypeOK' BY <1>1, <1>2 DEF IInv, TypeOK
<1>5. ClaimInv' BY <1>1, <1>2 DEF IInv, ClaimInv, Claimed
<1>6. \A u \in Threads : (Waits(u)' <=> Waits(u)) /\ LinksTo(u)' = LinksTo(u)
  BY <1>1, <1>2, <1>3 DEF Waits, LinksTo
<1>7. ListInv /\ head \in [Flags -> Threads \cup {Null, Poison}] BY DEF IInv, TypeOK
<1>8. ListInv'
  <2>1. \A u \in Threads : pc'[u] \in {"read", "push", "link"} => next'[u] = Poison
    BY <1>1, <1>3, <1>7 DEF ListInv
  <2> HIDE DEF Waits, LinksTo
  <2> QED BY <1>2, <1>6, <1>7, <2>1 DEF ListInv
<1>9. WakerInv'
  <2>1. ASSUME NEW w \in Threads, pc'[w] \in {"advance", "wake"}
        PROVE  /\ sleeper'[w] \in Threads /\ Waits(sleeper[w])' /\ flag'[sleeper'[w]] = flag'[w]
               /\ \A u \in Threads : Waits(u)' => LinksTo(u)' # sleeper'[w]
               /\ pc'[w] = "wake" => pc'[sleeper'[w]] = "park" /\ following'[w] = next'[sleeper'[w]]
    <3>0. PICK y : y = sleeper[w] OBVIOUS
    <3>1. pc[w] = pc'[w] /\ sleeper'[w] = y BY <1>1, <1>2, <2>1, <3>0
    <3>2. /\ y \in Threads /\ Waits(y) /\ flag[y] = flag[w]
          /\ \A u \in Threads : Waits(u) => LinksTo(u) # y
          /\ pc[w] = "wake" => pc[y] = "park" /\ following[w] = next[y]
      BY <2>1, <3>0, <3>1, SleeperFacts
    <3>3. Waits(y)' BY <1>6, <3>2
    <3>4. pc[y] = "park" => pc'[y] = "park" /\ next'[y] = next[y] BY <1>1, <1>3, <3>2
    <3> HIDE DEF Waits, LinksTo
    <3> QED BY <1>2, <1>6, <3>1, <3>2, <3>3, <3>4
  <2> QED BY <2>1 DEF WakerInv
<1>10. UnparkInv' BY <1>1, <1>2 DEF IInv, UnparkInv
<1> QED BY <1>4, <1>5, <1>8, <1>9, <1>10 DEF IInv

LEMMA ParkInv == ASSUME IInv, NEW t \in Threads, Park(t) PROVE IInv'
<1>1. /\ pc[t] = "park" /\ pc' = [pc EXCEPT ![t] = "out"] /\ pc'[t] = "out"
      /\ \A u \in Threads : u # t => pc'[u] = pc[u]
  BY OnlyOne DEF Park, IInv
<1>2. /\ unparked[t] > 0 /\ unparked' = [unparked EXCEPT ![t] = @ - 1]
      /\ UNCHANGED <<state, head, next, expected, sleeper, following, flag, count, ended>>
  BY DEF Park
<1>3. unparked[t] = 1 /\ unparked'[t] = 0 /\ \A u \in Threads : u # t => unparked'[u] = unparked[u]
  BY <1>2 DEF IInv, TypeOK
<1>4. TypeOK'
  <2>1. unparked' \in [Threads -> {0, 1}] BY <1>2, <1>3 DEF IInv, TypeOK
  <2> QED BY <1>1, <1>2, <2>1 DEF IInv, TypeOK
<1>5. ClaimInv' BY <1>1, <1>2 DEF IInv, ClaimInv, Claimed
<1>6. \A u \in Threads : (Waits(u)' <=> Waits(u)) BY <1>1, <1>3 DEF Waits
<1>7. \A u \in Threads : LinksTo(u)' = LinksTo(u) BY <1>1, <1>2 DEF LinksTo
<1>8. ListInv'
  <2>1. ListInv /\ head \in [Flags -> Threads \cup {Null, Poison}] BY DEF IInv, TypeOK
  <2>2. \A u \in Threads : pc'[u] \in {"read", "push", "link"} => next'[u] = Poison
    BY <1>1, <1>2, <2>1 DEF ListInv
  <2> HIDE DEF Waits, LinksTo
  <2> QED BY <1>2, <1>6, <1>7, <2>1, <2>2 DEF ListInv
<1>9. WakerInv'
  <2>1. ASSUME NEW w \in Threads, pc'[w] \in {"advance", "wake"}
        PROVE  /\ sleeper'[w] \in Threads /\ Waits(sleeper[w])' /\ flag'[sleeper'[w]] = flag'[w]
               /\ \A u \in Threads : Waits(u)' => LinksTo(u)' # sleeper'[w]
               /\ pc'[w] = "wake" => pc'[sleeper'[w]] = "park" /\ following'[w] = next'[sleeper'[w]]
    <3>0. PICK y : y = sleeper[w] OBVIOUS
    <3>1. pc[w] = pc'[w] /\ sleeper'[w] = y BY <1>1, <1>2, <2>1, <3>0
    <3>2. /\ y \in Threads /\ Waits(y) /\ flag[y] = flag[w]
          /\ \A u \in Threads : Waits(u) => LinksTo(u) # y
          /\ pc[w] = "wake" => pc[y] = "park" /\ following[w] = next[y]
      BY <2>1, <3>0, <3>1, SleeperFacts
    <3>3. Waits(y)' BY <1>6, <3>2
    <3>4. y # t BY <1>3, <3>2 DEF Waits
    <3>5. pc'[y] = pc[y] BY <1>1, <3>2, <3>4
    <3> HIDE DEF Waits, LinksTo
    <3> QED BY <1>2, <1>6, <1>7, <3>1, <3>2, <3>3, <3>5
  <2> QED BY <2>1 DEF WakerInv
<1>10. UnparkInv' BY <1>1, <1>2, <1>3 DEF IInv, UnparkInv
<1> QED BY <1>4, <1>5, <1>8, <1>9, <1>10 DEF IInv

\* Every step preserves the inductive invariant.
LEMMA NextInv == IInv /\ [Next]_vars => IInv'
<1> SUFFICES ASSUME IInv, [Next]_vars PROVE IInv'
  OBVIOUS
<1>1. ASSUME NEW t \in Threads, Step(t) PROVE IInv'
  BY <1>1, TestReadyInv, ClaimStepInv, RunInv, StoreDoneInv, PoisonListInv, AdvanceInv, WakeInv,
     MarkInv, ReadHeadInv, RefusedInv, PushInv, LinkInv, ParkInv DEF Step
<1>2. CASE UNCHANGED vars
  BY <1>2 DEF vars, IInv, TypeOK, ClaimInv, Claimed, Waits, LinksTo, ListInv, WakerInv, UnparkInv
<1> QED BY <1>1, <1>2, CallInv DEF Next

THEOREM Invariance == Spec => []IInv
<1>1. Init => IInv BY InitInv
<1>2. IInv /\ [Next]_vars => IInv' BY NextInv
<1> QED BY <1>1, <1>2, PTL DEF Spec
-----------------------------------------------------------------------------
(***************************************************************************)
(* call_once implements what OnceCalls promises.                           *)
(***************************************************************************)
calling == [t \in Threads |-> IF pc[t] = "out" THEN Null ELSE flag[t]]
One(S) == CHOOSE t \in S : TRUE
runs == [f \in Flags |-> IF Runner(f) = {} THEN Null ELSE One(Runner(f))]

LEMMA OneOfOne == ASSUME NEW t PROVE One({t}) = t
BY DEF One

\* A step neither starts nor ends a function: it returns, or changes nothing.
LEMMA StayOrReturn ==
  ASSUME IInv, NEW t \in Threads, NEW x, pc' = [pc EXCEPT ![t] = x],
         UNCHANGED <<flag, ended>>, pc[t] \notin {"out", "run"}, x # "run",
         x = "out" => flag[t] \in ended
  PROVE  Calls!Return(t) \/ UNCHANGED <<calling, runs, ended>>
<1>1. pc'[t] = x /\ \A u \in Threads : u # t => pc'[u] = pc[u] BY DEF IInv, TypeOK
<1>2. \A f \in Flags : Runner(f)' = Runner(f) BY <1>1 DEF Runner
<1>3. runs' = runs
  <2> HIDE DEF Runner
  <2> QED BY <1>2 DEF runs
<1>4. CASE x = "out"
  <2>1. calling[t] = flag[t] BY DEF calling
  <2>2. calling' = [calling EXCEPT ![t] = Null] BY <1>1, <1>4 DEF calling
  <2> QED BY <1>3, <1>4, <2>1, <2>2 DEF Calls!Return, calling, runs, One
<1>5. CASE x # "out"
  <2>1. calling' = calling BY <1>1, <1>5 DEF calling
  <2> QED BY <1>3, <2>1
<1> QED BY <1>4, <1>5

\* The function of a once_flag is run by one of its callers, once, and no
\* call returns before it has ended (once.hfa:74-105).
THEOREM CallsAreOnce == Spec => Calls!Spec
<1>1. Init => Calls!Init
  <2> SUFFICES ASSUME Init PROVE Calls!Init
    OBVIOUS
  <2>1. \A f \in Flags : Runner(f) = {} BY DEF Init, Runner
  <2> HIDE DEF Runner
  <2> QED BY <2>1 DEF Init, Calls!Init
<1>2. IInv /\ [Next]_vars => [Calls!Next]_<<calling, runs, ended>>
  <2> SUFFICES ASSUME IInv, [Next]_vars PROVE Calls!Next \/ UNCHANGED <<calling, runs, ended>>
    OBVIOUS
  <2> USE OnceAssumption
  <2>1. CASE UNCHANGED vars
    <3>1. \A f \in Flags : Runner(f)' = Runner(f) BY <2>1 DEF vars, Runner
    <3>2. runs' = runs
      <4> HIDE DEF Runner
      <4> QED BY <3>1 DEF runs
    <3> QED BY <2>1, <3>2 DEF vars, calling
  <2>2. ASSUME NEW t \in Threads, NEW f \in Flags, Call(t, f) PROVE Calls!Call(t, f)
    <3>1. /\ pc[t] = "out" /\ pc' = [pc EXCEPT ![t] = "test"] /\ pc'[t] = "test"
          /\ \A u \in Threads : u # t => pc'[u] = pc[u]
      BY <2>2, OnlyOne DEF Call, IInv
    <3>2. /\ flag'[t] = f /\ UNCHANGED ended /\ \A u \in Threads : u # t => flag'[u] = flag[u]
      BY <2>2 DEF Call, IInv, TypeOK
    <3>3. \A g \in Flags : Runner(g)' = Runner(g) BY <3>1, <3>2 DEF Runner
    <3>4. runs' = runs
      <4> HIDE DEF Runner
      <4> QED BY <3>3 DEF runs
    <3>5. calling' = [calling EXCEPT ![t] = f] /\ calling[t] = Null BY <3>1, <3>2 DEF calling
    <3> QED BY <3>2, <3>4, <3>5 DEF Calls!Call, calling, runs, One
  <2>3. ASSUME NEW t \in Threads, Claim(t), state[flag[t]] = "ARMED"
        PROVE  \E f \in Flags : Calls!Start(t, f)
    <3>a. PICK f : f = flag[t] OBVIOUS
    <3>1. /\ pc[t] = "claim" /\ pc'[t] = "run" /\ UNCHANGED <<flag, ended>>
          /\ \A u \in Threads : u # t => pc'[u] = pc[u]
      BY <2>3, OnlyOne DEF Claim, IInv
    <3>2. f \in Flags /\ f \notin ended BY <2>3, <3>1, <3>a DEF IInv, TypeOK, ClaimInv
    <3>3. \A u \in Threads : pc[u] = "run" => flag[u] # f
      BY <2>3, <3>a DEF IInv, ClaimInv, Claimed
    <3>4. Runner(f) = {} /\ Runner(f)' = {t} BY <3>1, <3>3, <3>a DEF Runner
    <3>5. \A g \in Flags : g # f => Runner(g)' = Runner(g) BY <3>1, <3>a DEF Runner
    <3>6. runs' = [runs EXCEPT ![f] = t] /\ runs[f] = Null
      <4> HIDE DEF Runner
      <4>1. One(Runner(f)') = t BY <3>4, OneOfOne
      <4> QED BY <3>2, <3>4, <3>5, <4>1 DEF runs
    <3>7. calling' = calling /\ calling[t] = f BY <3>1, <3>a DEF calling
    <3> QED BY <3>1, <3>2, <3>6, <3>7 DEF Calls!Start, calling, runs, One
  <2>4. ASSUME NEW t \in Threads, Run(t) PROVE \E f \in Flags : Calls!End(t, f)
    <3>a. PICK f : f = flag[t] OBVIOUS
    <3>1. /\ pc[t] = "run" /\ pc'[t] = "store" /\ UNCHANGED flag /\ ended' = ended \cup {f}
          /\ \A u \in Threads : u # t => pc'[u] = pc[u]
      BY <2>4, <3>a, OnlyOne DEF Run, IInv
    <3>2. f \in Flags BY <3>1, <3>a DEF IInv, TypeOK
    <3>3. \A u \in Threads : pc[u] = "run" /\ flag[u] = f => u = t
      BY <3>1, <3>a DEF IInv, ClaimInv, Claimed
    <3>4. Runner(f) = {t} /\ Runner(f)' = {} BY <3>1, <3>3, <3>a DEF Runner
    <3>5. \A g \in Flags : g # f => Runner(g)' = Runner(g) BY <3>1, <3>a DEF Runner
    <3>6. runs' = [runs EXCEPT ![f] = Null] /\ runs[f] = t
      <4> HIDE DEF Runner
      <4>1. One(Runner(f)) = t BY <3>4, OneOfOne
      <4> QED BY <3>2, <3>4, <3>5, <4>1 DEF runs
    <3>7. calling' = calling BY <3>1 DEF calling
    <3> QED BY <3>1, <3>2, <3>6, <3>7 DEF Calls!End, calling, runs, One
  <2>5. ASSUME NEW t \in Threads, Step(t), ~Run(t), ~(Claim(t) /\ state[flag[t]] = "ARMED")
        PROVE  Calls!Return(t) \/ UNCHANGED <<calling, runs, ended>>
    <3>0. IInv BY DEF IInv
    <3>1. ASSUME NEW a \in {"test", "claim", "store", "advance", "mark", "read", "push", "link", "park"},
                 NEW x, Goto(t, a, x), UNCHANGED <<flag, ended>>, x # "run",
                 x = "out" => flag[t] \in ended
          PROVE  Calls!Return(t) \/ UNCHANGED <<calling, runs, ended>>
      BY <3>1, StayOrReturn DEF Goto
    <3>2. CASE TestReady(t)
      <4>1. Goto(t, "test", "claim") /\ UNCHANGED <<flag, ended>>
        <5>1. pc[t] = "test" BY <3>2 DEF TestReady, Goto
        <5>2. state[flag[t]] # "READY" BY <5>1 DEF IInv, TypeOK
        <5> QED BY <3>2, <5>2 DEF TestReady
      <4> QED BY <3>1, <4>1
    <3>3. CASE Claim(t)
      <4>1. Goto(t, "claim", "mark") /\ UNCHANGED <<flag, ended>> BY <2>5, <3>3 DEF Claim
      <4> QED BY <3>1, <4>1
    <3>4. CASE StoreDone(t) BY <3>1, <3>4 DEF StoreDone
    <3>5. CASE Advance(t) BY <3>1, <3>5 DEF Advance
    <3>6. CASE Mark(t) BY <3>1, <3>6 DEF Mark
    <3>7. CASE ReadHead(t) BY <3>1, <3>7 DEF ReadHead
    <3>8. CASE Refused(t)
      <4>1. flag[t] \in ended BY <3>8 DEF Refused, Goto, IInv, ClaimInv
      <4> QED BY <3>1, <3>8, <4>1 DEF Refused
    <3>9. CASE Push(t)
      <4>1. (Goto(t, "push", "link") \/ Goto(t, "push", "push")) /\ UNCHANGED <<flag, ended>>
        BY <3>9 DEF Push
      <4> QED BY <3>1, <4>1
    <3>10. CASE Link(t) BY <3>1, <3>10 DEF Link
    <3>11. CASE Park(t)
      <4>1. flag[t] \in ended BY <3>11 DEF Park, Goto, IInv, UnparkInv, TypeOK
      <4> QED BY <3>1, <3>11, <4>1 DEF Park
    <3>12. CASE PoisonList(t) \/ Wake(t)
      <4>1. PICK x \in {"out", "advance"} :
              pc' = [pc EXCEPT ![t] = x] /\ pc[t] \in {"poison", "wake"} /\ UNCHANGED <<flag, ended>>
        BY <3>12 DEF PoisonList, Wake, WakeOrLeave
      <4>2. flag[t] \in ended BY <4>1 DEF IInv, ClaimInv
      <4> QED BY <4>1, <4>2, StayOrReturn
    <3> QED BY <2>5, <3>2, <3>3, <3>4, <3>5, <3>6, <3>7, <3>8, <3>9, <3>10, <3>11, <3>12 DEF Step
  <2> QED BY <2>1, <2>2, <2>3, <2>4, <2>5 DEF Next, Calls!Next, Calls!Progress
<1> QED BY <1>1, <1>2, Invariance, PTL DEF Spec, Calls!Spec, Calls!calls, calling, runs, One

-----------------------------------------------------------------------------
(***************************************************************************)
(* The other event of the kernel that happens once: the oneshot, and the   *)
(* futures that are made of it (module Futures), for every set of futures. *)
(*                                                                         *)
(* The invariant FuturesInv holds until a wait_any leaks (see leaked).  It *)
(* says what each word means: which of its values the client and the       *)
(* server of a future can meet at each of their steps, and where the       *)
(* thread is that a server took out of the oneshot.                        *)
(***************************************************************************)
Posting == {"post", "unpark", "store", "storeFirst"}
Waking == {"unpark", "storeFirst", "unparkLast"}

\* Where the client stands, and its own variables.
ClientInv ==
  /\ client = "run" <=> oneshot = "gone"
  /\ client = "run" => group = {}
  /\ client \in {"wait", "parked"} => todo = {}
  /\ client # "back" \/ op = "wait" => found = {}
  /\ client \in {"setup", "wait"} => oneshot \in {"ARMED", "FULFILLED"}
  /\ client = "parked" => oneshot \in {"thread", "FULFILLED"}
  /\ client = "back" => oneshot = "FULFILLED"
  /\ client = "back" /\ op = "wait" => group = todo
  /\ client # "run" /\ op = "wait" => \A f, g \in group : f = g

\* A future refers to the oneshot, or its server works on it, between the
\* setup and the retract of the client.
Enlisted(f) ==
  /\ f \in group
  /\ client = "setup" => f \notin todo
  /\ client = "back" => f \in todo

WordInv ==
  \A f \in Futures :
    /\ ptr[f] = "ctx" => Enlisted(f) /\ server[f] = "asked"
    /\ ptr[f] = "PROGRESS" <=> server[f] \in Posting
    /\ ptr[f] = "PROGRESS" => Enlisted(f)
    /\ ptr[f] = "ARMED" /\ life[f] = "client" => server[f] = "asked"
    /\ ptr[f] = "FULFILLED" => server[f] \in {"done", "unparkLast"}

\* Who is responsible for a future.
LifeInv ==
  \A f \in Futures :
    /\ life[f] = "free" => server[f] = "done"
    /\ life[f] = "abandoned" => server[f] = "asked"
    /\ life[f] = "abandoned" => ptr[f] = "ABANDONED"
    /\ life[f] = "client" => ptr[f] # "ABANDONED"
    /\ f \in group => life[f] = "client"
    /\ f \in ready => life[f] = "client" /\ ptr[f] = "FULFILLED" /\ server[f] = "done"
    /\ f \in found => ptr[f] = "FULFILLED" /\ server[f] = "done"

\* Who has the thread, or its permit, and why the oneshot is fulfilled.
WakingInv ==
  /\ \A f \in Futures : server[f] \in Waking => client = "parked" /\ oneshot = "FULFILLED" /\ ~permit
  /\ \A f, g \in Futures : server[f] \in Waking /\ server[g] \in Waking => f = g
  /\ permit => client = "parked" /\ oneshot = "FULFILLED"
  /\ oneshot = "FULFILLED" =>
       \/ found # {}
       \/ \E f \in group : /\ client = "setup" => f \notin todo
                           /\ client = "back" => f \in todo
                           /\ \/ ptr[f] = "PROGRESS" /\ server[f] # "post"
                              \/ ptr[f] = "FULFILLED"

FuturesInv == FutureTypeOK /\ (~leaked => ClientInv /\ WordInv /\ LifeInv /\ WakingInv)

-----------------------------------------------------------------------------
(* Each step that does not leak preserves the invariant.                   *)

\* A new future has no oneshot, and its server is asked.
LEMMA NewStep ==
  ASSUME FuturesInv, NEW f \in Futures, New(f), ~leaked'
  PROVE  FuturesInv'
<1>. ~leaked
  BY DEF New
<1>1. FutureTypeOK'
  BY DEF FuturesInv, FutureTypeOK, Words, New, SetWord, callVars
<1>2. ClientInv'
  BY DEF FuturesInv, FutureTypeOK, ClientInv, New, SetWord, callVars
<1>3. WordInv'
  BY DEF FuturesInv, FutureTypeOK, WordInv, Enlisted, Posting, New, SetWord, callVars
<1>4. LifeInv'
  BY DEF FuturesInv, FutureTypeOK, LifeInv, New, SetWord, callVars
<1>5. WakingInv'
  BY DEF FuturesInv, FutureTypeOK, ClientInv, WakingInv, Waking, New, SetWord, callVars
<1>. QED BY <1>1, <1>2, <1>3, <1>4, <1>5 DEF FuturesInv

\* Nobody works on a future that is ready.
LEMMA ResetStep ==
  ASSUME FuturesInv, NEW f \in Futures, Reset(f), ~leaked'
  PROVE  FuturesInv'
<1>. ~leaked
  BY DEF Reset
<1>1. FutureTypeOK'
  BY DEF FuturesInv, FutureTypeOK, Words, Reset, SetWord, callVars
<1>2. ClientInv'
  BY DEF FuturesInv, FutureTypeOK, ClientInv, Reset, SetWord, callVars
<1>3. WordInv'
  BY DEF FuturesInv, FutureTypeOK, WordInv, Enlisted, Posting, Reset, SetWord, callVars
<1>4. LifeInv'
  BY DEF FuturesInv, FutureTypeOK, ClientInv, LifeInv, Reset, SetWord, callVars
<1>5. WakingInv'
  BY DEF FuturesInv, FutureTypeOK, ClientInv, WakingInv, Waking, Reset, SetWord, callVars
<1>. QED BY <1>1, <1>2, <1>3, <1>4, <1>5 DEF FuturesInv

\* The word says that the server is done.
LEMMA AvailableStep ==
  ASSUME FuturesInv, NEW f \in Futures, Available(f), ~leaked'
  PROVE  FuturesInv'
<1>. ~leaked
  BY DEF Available
<1>1. FutureTypeOK'
  BY DEF FuturesInv, FutureTypeOK, Words, Available, callVars
<1>2. ClientInv'
  BY DEF FuturesInv, FutureTypeOK, ClientInv, Available, callVars
<1>3. WordInv'
  BY DEF FuturesInv, FutureTypeOK, WordInv, Enlisted, Posting, Available, callVars
<1>4. LifeInv'
  BY DEF FuturesInv, FutureTypeOK, ClientInv, WordInv, LifeInv, WakingInv, Enlisted, Posting, Waking, Available,
     callVars
<1>5. WakingInv'
  BY DEF FuturesInv, FutureTypeOK, WakingInv, Waking, Available, callVars
<1>. QED BY <1>1, <1>2, <1>3, <1>4, <1>5 DEF FuturesInv

\* Nobody works on a future that is ready.
LEMMA DeleteStep ==
  ASSUME FuturesInv, NEW f \in Futures, Delete(f), ~leaked'
  PROVE  FuturesInv'
<1>. ~leaked
  BY DEF Delete
<1>1. FutureTypeOK'
  BY DEF FuturesInv, FutureTypeOK, Words, Delete, SetWord, callVars
<1>2. ClientInv'
  BY DEF FuturesInv, FutureTypeOK, ClientInv, Delete, SetWord, callVars
<1>3. WordInv'
  BY DEF FuturesInv, FutureTypeOK, WordInv, Enlisted, Posting, Delete, SetWord, callVars
<1>4. LifeInv'
  BY DEF FuturesInv, FutureTypeOK, ClientInv, LifeInv, Delete, SetWord, callVars
<1>5. WakingInv'
  BY DEF FuturesInv, FutureTypeOK, WakingInv, Waking, Delete, SetWord, callVars
<1>. QED BY <1>1, <1>2, <1>3, <1>4, <1>5 DEF FuturesInv

\* Outside of a wait the future is armed or fulfilled.
LEMMA AbandonStep ==
  ASSUME FuturesInv, NEW f \in Futures, Abandon(f), ~leaked'
  PROVE  FuturesInv'
<1>. ~leaked
  BY DEF Abandon
<1>1. FutureTypeOK'
  BY DEF FuturesInv, FutureTypeOK, Words, Abandon, SetWord, callVars
<1>2. ClientInv'
  BY DEF FuturesInv, FutureTypeOK, ClientInv, Abandon, SetWord, callVars
<1>3. WordInv'
  BY DEF FuturesInv, FutureTypeOK, WordInv, Enlisted, Posting, Abandon, SetWord, callVars
<1>4. LifeInv'
  <2>1. ptr[f] # "ctx" /\ server[f] \notin Waking
    BY DEF FuturesInv, ClientInv, WordInv, WakingInv, Enlisted, Abandon
  <2>2. ptr[f] = "FULFILLED" \/ ptr[f] = "ARMED"
    BY <2>1 DEF FuturesInv, FutureTypeOK, Words, LifeInv, Abandon
  <2>3. IF ptr[f] = "ARMED" THEN server[f] = "asked" ELSE server[f] = "done"
    BY <2>1, <2>2 DEF FuturesInv, WordInv, Waking, Abandon
  <2>. QED BY <2>2, <2>3 DEF FuturesInv, FutureTypeOK, ClientInv, LifeInv, Abandon, SetWord, callVars
<1>5. WakingInv'
  BY DEF FuturesInv, FutureTypeOK, ClientInv, WakingInv, Waking, Abandon, SetWord, callVars
<1>. QED BY <1>1, <1>2, <1>3, <1>4, <1>5 DEF FuturesInv

\* A call starts with a fresh oneshot.
LEMMA CallStep ==
  ASSUME FuturesInv, NEW which \in {"wait", "wait_any"}, NEW fs \in SUBSET Futures, BeginWait(which, fs),
         fs # {}, which = "wait" => \A f, g \in fs : f = g, ~leaked'
  PROVE  FuturesInv'
<1>. ~leaked
  BY DEF BeginWait
<1>1. FutureTypeOK'
  BY DEF FuturesInv, FutureTypeOK, Words, BeginWait
<1>2. ClientInv'
  BY DEF FuturesInv, FutureTypeOK, ClientInv, BeginWait
<1>3. WordInv'
  BY DEF FuturesInv, FutureTypeOK, ClientInv, WordInv, Enlisted, Posting, BeginWait
<1>4. LifeInv'
  BY DEF FuturesInv, FutureTypeOK, LifeInv, BeginWait
<1>5. WakingInv'
  BY DEF FuturesInv, FutureTypeOK, WakingInv, Waking, BeginWait
<1>. QED BY <1>1, <1>2, <1>3, <1>4, <1>5 DEF FuturesInv

\* A call that returns at once has nothing set up, or leaks.
LEMMA SetupReadyStep ==
  ASSUME FuturesInv, NEW f \in Futures, SetupReady(f), ~leaked'
  PROVE  FuturesInv'
<1>. ~leaked
  BY DEF SetupReady
<1>1. FutureTypeOK'
  BY DEF FuturesInv, FutureTypeOK, Words, SetupReady, Finish
<1>2. ClientInv'
  BY DEF FuturesInv, FutureTypeOK, ClientInv, SetupReady, Finish
<1>3. WordInv'
  BY DEF FuturesInv, FutureTypeOK, WordInv, Enlisted, Posting, SetupReady, Finish
<1>4. LifeInv'
  BY DEF FuturesInv, FutureTypeOK, ClientInv, WordInv, LifeInv, WakingInv, Enlisted, Posting, Waking, SetupReady,
     Finish
<1>5. WakingInv'
  BY DEF FuturesInv, FutureTypeOK, WakingInv, Waking, SetupReady, Finish
<1>. QED BY <1>1, <1>2, <1>3, <1>4, <1>5 DEF FuturesInv

\* The future refers to the oneshot.
LEMMA SetupStep ==
  ASSUME FuturesInv, NEW f \in Futures, Setup(f), ~leaked'
  PROVE  FuturesInv'
<1>. ~leaked
  BY DEF Setup
<1>1. FutureTypeOK'
  BY DEF FuturesInv, FutureTypeOK, Words, Setup, SetWord
<1>2. ClientInv'
  BY DEF FuturesInv, FutureTypeOK, ClientInv, Setup, SetWord
<1>3. WordInv'
  <2>1. ptr[f] # "ctx" /\ ptr[f] # "PROGRESS" /\ ptr[f] # "ABANDONED"
    BY DEF FuturesInv, FutureTypeOK, WordInv, LifeInv, Enlisted, Setup
  <2>2. server[f] = "asked" /\ f \in group
    BY <2>1 DEF FuturesInv, FutureTypeOK, Words, WordInv, LifeInv, Setup
  <2>. QED BY <2>1, <2>2 DEF FuturesInv, FutureTypeOK, WordInv, Enlisted, Posting, Setup, SetWord
<1>4. LifeInv'
  BY DEF FuturesInv, FutureTypeOK, LifeInv, Setup, SetWord
<1>5. WakingInv'
  BY DEF FuturesInv, FutureTypeOK, WakingInv, Waking, Setup, SetWord
<1>. QED BY <1>1, <1>2, <1>3, <1>4, <1>5 DEF FuturesInv

\* The thread sleeps, or its oneshot was posted.
LEMMA OneshotWaitStep ==
  ASSUME FuturesInv, OneshotWait, ~leaked'
  PROVE  FuturesInv'
<1>. ~leaked
  BY DEF OneshotWait
<1>1. FutureTypeOK'
  BY DEF FuturesInv, FutureTypeOK, Words, OneshotWait
<1>2. ClientInv'
  BY DEF FuturesInv, FutureTypeOK, ClientInv, OneshotWait
<1>3. WordInv'
  BY DEF FuturesInv, FutureTypeOK, WordInv, Enlisted, Posting, OneshotWait
<1>4. LifeInv'
  BY DEF FuturesInv, FutureTypeOK, LifeInv, OneshotWait
<1>5. WakingInv'
  BY DEF FuturesInv, FutureTypeOK, WakingInv, Waking, OneshotWait
<1>. QED BY <1>1, <1>2, <1>3, <1>4, <1>5 DEF FuturesInv

\* The thread that was unparked goes on.
LEMMA ReturnStep ==
  ASSUME FuturesInv, Return, ~leaked'
  PROVE  FuturesInv'
<1>. ~leaked
  BY DEF Return
<1>1. FutureTypeOK'
  BY DEF FuturesInv, FutureTypeOK, Words, Return
<1>2. ClientInv'
  BY DEF FuturesInv, FutureTypeOK, ClientInv, WordInv, WakingInv, Enlisted, Posting, Waking, Return
<1>3. WordInv'
  BY DEF FuturesInv, FutureTypeOK, WordInv, Enlisted, Posting, Return
<1>4. LifeInv'
  BY DEF FuturesInv, FutureTypeOK, LifeInv, Return
<1>5. WakingInv'
  BY DEF FuturesInv, FutureTypeOK, WakingInv, Waking, Return
<1>. QED BY <1>1, <1>2, <1>3, <1>4, <1>5 DEF FuturesInv

\* The one future waited for is fulfilled, its server done.
LEMMA WaitReturnsStep ==
  ASSUME FuturesInv, NEW f \in Futures, WaitReturns(f), ~leaked'
  PROVE  FuturesInv'
<1>. ~leaked
  BY DEF WaitReturns
<1>0. group = {f} /\ ptr[f] = "FULFILLED" /\ server[f] = "done" /\ found = {}
  <2>1. group = {f} /\ found = {} /\ oneshot = "FULFILLED" /\ client = "back"
    BY DEF FuturesInv, FutureTypeOK, ClientInv, WaitReturns
  <2>2. ptr[f] = "FULFILLED" /\ server[f] \notin Waking
    BY <2>1 DEF FuturesInv, WakingInv, WaitReturns
  <2>. QED BY <2>1, <2>2 DEF FuturesInv, WordInv, Waking
<1>1. FutureTypeOK'
  BY DEF FuturesInv, FutureTypeOK, Words, WaitReturns, Finish
<1>2. ClientInv'
  BY DEF FuturesInv, FutureTypeOK, ClientInv, WaitReturns, Finish
<1>3. WordInv'
  <2>. QED BY <1>0 DEF FuturesInv, FutureTypeOK, ClientInv, WordInv, Enlisted, Posting, WaitReturns, Finish
<1>4. LifeInv'
  <2>. QED BY <1>0 DEF FuturesInv, FutureTypeOK, ClientInv, LifeInv, WaitReturns, Finish
<1>5. WakingInv'
  BY DEF FuturesInv, FutureTypeOK, WakingInv, Waking, WaitReturns, Finish
<1>. QED BY <1>1, <1>2, <1>3, <1>4, <1>5 DEF FuturesInv

\* The oneshot is taken back, or its future is fulfilled.
LEMMA RetractStep ==
  ASSUME FuturesInv, NEW f \in Futures, Retract(f), ~leaked'
  PROVE  FuturesInv'
<1>. ~leaked
  BY DEF Retract
<1>1. FutureTypeOK'
  BY DEF FuturesInv, FutureTypeOK, Words, Retract, Finish
<1>2. ClientInv'
  BY DEF FuturesInv, FutureTypeOK, ClientInv, Retract, Finish
<1>3. WordInv'
  BY DEF FuturesInv, FutureTypeOK, WordInv, Enlisted, Posting, Retract, Finish
<1>4. LifeInv'
  <2>. DEFINE result == IF ptr[f] = "FULFILLED" THEN {f} ELSE found
  <2>1. \A g \in result : g \in Futures /\ g \in group /\ ptr[g] = "FULFILLED" /\ server[g] = "done"
    BY DEF FuturesInv, FutureTypeOK, WordInv, LifeInv, WakingInv, Waking, Retract
  <2>2. \A g \in Futures : ptr[g] = "FULFILLED" <=> ptr'[g] = "FULFILLED"
    BY DEF FuturesInv, FutureTypeOK, Retract
  <2>3. \A g \in Futures : ptr[g] = "ABANDONED" <=> ptr'[g] = "ABANDONED"
    BY DEF FuturesInv, FutureTypeOK, Retract
  <2>4. UNCHANGED <<life, server>> /\ group' \subseteq group
    BY DEF Retract, Finish
  <2>5. found' \subseteq result /\ ready' \subseteq ready \cup result
    BY DEF Retract, Finish
  <2>. QED BY <2>1, <2>2, <2>3, <2>4, <2>5 DEF FuturesInv, LifeInv
<1>5. WakingInv'
  BY DEF FuturesInv, FutureTypeOK, WakingInv, Waking, Retract, Finish
<1>. QED BY <1>1, <1>2, <1>3, <1>4, <1>5 DEF FuturesInv

\* A server begins with the word that says what to do.
LEMMA FulfilStep ==
  ASSUME FuturesInv, NEW f \in Futures, Fulfil(f), ~leaked'
  PROVE  FuturesInv'
<1>. ~leaked
  BY DEF Fulfil
<1>1. FutureTypeOK'
  BY DEF FuturesInv, FutureTypeOK, Words, Fulfil, SetWord, callVars
<1>2. ClientInv'
  BY DEF FuturesInv, FutureTypeOK, ClientInv, Fulfil, SetWord, callVars
<1>3. WordInv'
  BY DEF FuturesInv, FutureTypeOK, WordInv, Enlisted, Posting, Fulfil, SetWord, callVars
<1>4. LifeInv'
  BY DEF FuturesInv, FutureTypeOK, LifeInv, Fulfil, SetWord, callVars
<1>5. WakingInv'
  BY DEF FuturesInv, FutureTypeOK, WakingInv, Waking, Fulfil, SetWord, callVars
<1>. QED BY <1>1, <1>2, <1>3, <1>4, <1>5 DEF FuturesInv

\* One server finds the thread in the oneshot.
LEMMA PostStep ==
  ASSUME FuturesInv, NEW f \in Futures, Post(f), ~leaked'
  PROVE  FuturesInv'
<1>. ~leaked
  BY DEF Post
<1>1. FutureTypeOK'
  BY DEF FuturesInv, FutureTypeOK, Words, Post, SetWord
<1>2. ClientInv'
  BY DEF FuturesInv, FutureTypeOK, ClientInv, Post, SetWord
<1>3. WordInv'
  BY DEF FuturesInv, FutureTypeOK, WordInv, Enlisted, Posting, Post, SetWord
<1>4. LifeInv'
  BY DEF FuturesInv, FutureTypeOK, LifeInv, Post, SetWord
<1>5. WakingInv'
  BY DEF FuturesInv, FutureTypeOK, ClientInv, WordInv, WakingInv, Enlisted, Posting, Waking, Post, SetWord
<1>. QED BY <1>1, <1>2, <1>3, <1>4, <1>5 DEF FuturesInv

\* Who has the thread gives it its permit.
LEMMA UnparkStep ==
  ASSUME FuturesInv, NEW f \in Futures, Unpark(f), ~leaked'
  PROVE  FuturesInv'
<1>. ~leaked
  BY DEF Unpark
<1>1. FutureTypeOK'
  BY DEF FuturesInv, FutureTypeOK, Words, Unpark, SetWord, callVars
<1>2. ClientInv'
  BY DEF FuturesInv, FutureTypeOK, ClientInv, Unpark, SetWord, callVars
<1>3. WordInv'
  BY DEF FuturesInv, FutureTypeOK, WordInv, Enlisted, Posting, Unpark, SetWord, callVars
<1>4. LifeInv'
  BY DEF FuturesInv, FutureTypeOK, LifeInv, Unpark, SetWord, callVars
<1>5. WakingInv'
  BY DEF FuturesInv, FutureTypeOK, WakingInv, Waking, Unpark, SetWord, callVars
<1>. QED BY <1>1, <1>2, <1>3, <1>4, <1>5 DEF FuturesInv

\* The future is fulfilled, the server is done with it.
LEMMA StoreStep ==
  ASSUME FuturesInv, NEW f \in Futures, Store(f), ~leaked'
  PROVE  FuturesInv'
<1>. ~leaked
  BY DEF Store
<1>1. FutureTypeOK'
  BY DEF FuturesInv, FutureTypeOK, Words, Store, SetWord, callVars
<1>2. ClientInv'
  BY DEF FuturesInv, FutureTypeOK, ClientInv, Store, SetWord, callVars
<1>3. WordInv'
  BY DEF FuturesInv, FutureTypeOK, WordInv, Enlisted, Posting, Store, SetWord, callVars
<1>4. LifeInv'
  BY DEF FuturesInv, FutureTypeOK, LifeInv, Store, SetWord, callVars
<1>5. WakingInv'
  BY DEF FuturesInv, FutureTypeOK, WakingInv, Waking, Store, SetWord, callVars
<1>. QED BY <1>1, <1>2, <1>3, <1>4, <1>5 DEF FuturesInv

-----------------------------------------------------------------------------
\* Whether leaked or not, the variables keep their types.
LEMMA FuturesTypeStep == FutureTypeOK /\ [FutureNext]_futureVars => FutureTypeOK'
<1>. SUFFICES ASSUME FutureTypeOK, [FutureNext]_futureVars
              PROVE  FutureTypeOK'
  OBVIOUS
<1>. USE DEF FutureTypeOK, Words, SetWord, callVars
<1>1. ASSUME NEW f \in Futures, New(f) \/ Reset(f) \/ Available(f) \/ Delete(f) \/ Abandon(f)
      PROVE  FutureTypeOK'
  BY <1>1 DEF New, Reset, Available, Delete, Abandon
<1>2. ASSUME NEW fs \in SUBSET Futures, NEW which \in {"wait", "wait_any"}, BeginWait(which, fs)
      PROVE  FutureTypeOK'
  BY <1>2 DEF BeginWait
<1>3. ASSUME NEW f \in Futures, SetupReady(f) \/ WaitReturns(f)
      PROVE  FutureTypeOK'
  BY <1>3 DEF SetupReady, WaitReturns, Finish
<1>4. ASSUME NEW f \in Futures, Setup(f)
      PROVE  FutureTypeOK'
  BY <1>4 DEF Setup
<1>5. ASSUME OneshotWait \/ Return
      PROVE  FutureTypeOK'
  BY <1>5 DEF OneshotWait, Return
<1>6. ASSUME NEW f \in Futures, Retract(f)
      PROVE  FutureTypeOK'
  <2>. DEFINE result == IF ptr[f] = "FULFILLED" THEN {f} ELSE found
  <2>1. result \in SUBSET Futures /\ result \subseteq group
    BY <1>6 DEF Retract
  <2>2. CASE todo = {f}
    BY <1>6, <2>1, <2>2 DEF Retract, Finish
  <2>3. CASE todo # {f}
    BY <1>6, <2>1, <2>3 DEF Retract
  <2>. QED BY <2>2, <2>3
<1>7. ASSUME NEW f \in Futures, Fulfil(f) \/ Unpark(f) \/ Store(f)
      PROVE  FutureTypeOK'
  <2>1. CASE Fulfil(f)
    BY <2>1 DEF Fulfil
  <2>2. CASE Unpark(f)
    BY <2>2 DEF Unpark
  <2>3. CASE Store(f)
    BY <2>3 DEF Store
  <2>. QED BY <1>7, <2>1, <2>2, <2>3
<1>8. ASSUME NEW f \in Futures, Post(f)
      PROVE  FutureTypeOK'
  BY <1>8 DEF Post
<1>9. CASE UNCHANGED futureVars
  BY <1>9 DEF futureVars
<1>10. CASE \E f \in Futures : Wait(f)
  BY <1>2, <1>10 DEF Wait
<1>11. CASE \E fs \in (SUBSET Futures) \ {{}} : WaitAny(fs)
  <2>1. PICK fs \in SUBSET Futures : WaitAny(fs)
    BY <1>11
  <2>. QED BY <1>2, <2>1 DEF WaitAny
<1>. HIDE DEF FutureTypeOK, Words, SetWord, callVars
<1>. QED
  BY <1>1, <1>3, <1>4, <1>5, <1>6, <1>7, <1>8, <1>9, <1>10, <1>11 DEF FutureNext, WaitStep, Serve

LEMMA FuturesInit == FutureInit => FuturesInv
BY DEF FutureInit, FuturesInv, FutureTypeOK, Words, ClientInv, WordInv, LifeInv, WakingInv, Enlisted, Posting, Waking

LEMMA FuturesNext == FuturesInv /\ [FutureNext]_futureVars => FuturesInv'
<1>. SUFFICES ASSUME FuturesInv, [FutureNext]_futureVars
              PROVE  FuturesInv'
  OBVIOUS
<1>1. FutureTypeOK'
  BY FuturesTypeStep DEF FuturesInv
<1>2. CASE leaked'
  BY <1>1, <1>2 DEF FuturesInv
<1>. SUFFICES ASSUME ~leaked'
              PROVE  FuturesInv'
  BY <1>2
<1>3. ASSUME NEW f \in Futures, New(f) \/ Reset(f) \/ Available(f) \/ Delete(f) \/ Abandon(f)
      PROVE  FuturesInv'
  BY <1>3, NewStep, ResetStep, AvailableStep, DeleteStep, AbandonStep
<1>4. ASSUME NEW f \in Futures, Wait(f)
      PROVE  FuturesInv'
  BY <1>4, CallStep DEF Wait
<1>5. ASSUME NEW fs \in (SUBSET Futures) \ {{}}, WaitAny(fs)
      PROVE  FuturesInv'
  <2>1. fs \in SUBSET Futures /\ fs # {}
    OBVIOUS
  <2>2. BeginWait("wait_any", fs)
    BY <1>5, Zenon DEF WaitAny
  <2>. QED BY <2>1, <2>2, CallStep
<1>6. ASSUME NEW f \in Futures, WaitStep(f)
      PROVE  FuturesInv'
  BY <1>6, SetupReadyStep, SetupStep, WaitReturnsStep, RetractStep DEF WaitStep
<1>7. ASSUME NEW f \in Futures, Serve(f)
      PROVE  FuturesInv'
  BY <1>7, FulfilStep, PostStep, UnparkStep, StoreStep DEF Serve
<1>8. CASE OneshotWait \/ Return
  BY <1>8, OneshotWaitStep, ReturnStep
<1>9. CASE UNCHANGED futureVars
  BY <1>9 DEF FuturesInv, FutureTypeOK, ClientInv, WordInv, LifeInv, WakingInv, Enlisted, futureVars, callVars
<1>. QED BY <1>3, <1>4, <1>5, <1>6, <1>7, <1>8, <1>9 DEF FutureNext

THEOREM FuturesInvariance == FutureSpec => []FuturesInv
BY FuturesInit, FuturesNext, PTL DEF FutureSpec

-----------------------------------------------------------------------------
\* Every variable keeps its type: the words hold one of their states or the
\* one address, a group is never larger than the futures there are.
THEOREM FuturesTypeCorrect == FutureSpec => []FutureTypeOK
<1>1. FuturesInv => FutureTypeOK
  BY DEF FuturesInv
<1>. QED BY <1>1, FuturesInvariance, PTL

\* fulfil never writes to the stack of a wait that has returned, for any
\* number of futures and servers, unless a wait_any has leaked.
THEOREM NoStalePost == FutureSpec => []PostsLiveUnlessLeaked
<1>1. FuturesInv => PostsLiveUnlessLeaked
  BY DEF FuturesInv, FutureTypeOK, ClientInv, WordInv, Enlisted, Posting, PostsLiveUnlessLeaked, PostsLive
<1>. QED BY <1>1, FuturesInvariance, PTL

\* abandon and fulfil delete a future once, after its last use, and what is
\* ready belongs to the client alone.
THEOREM OneDeletes == FutureSpec => []DeletedOnce
<1>1. FuturesInv => DeletedOnce
  BY DEF FuturesInv, FutureTypeOK, LifeInv, DeletedOnce
<1>. QED BY <1>1, FuturesInvariance, PTL

\* A thread wakes up in wait_any because a future is fulfilled, which retract
\* then finds, and no permit outlives the park it was given for.
THEOREM AlwaysFinds == FutureSpec => []WakesToResult
<1>1. FuturesInv => WakesToResult
  BY DEF FuturesInv, FutureTypeOK, ClientInv, WakingInv, WakesToResult
<1>. QED BY <1>1, FuturesInvariance, PTL
=============================================================================
