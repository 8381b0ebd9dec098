--------------------------- MODULE ReadyQueueProofs ---------------------------
(***************************************************************************)
(* Proofs about module ReadyQueue, for every set of processors and threads.*)
(*                                                                         *)
(* Lists(ls, q, n) says that the links of ls form, lane by lane, the       *)
(* sequences q of the n lanes.  Every change of the links keeps it, for    *)
(* the sequences that the change makes, and whoever follows the links      *)
(* finds these sequences.  The invariant adds which threads are in them,   *)
(* and in which lanes a search has still to look.  The second part is      *)
(* about SchedRWLock, the lock that those who use the lanes share.         *)
(***************************************************************************)
EXTENDS ReadyQueue, SchedRWLock, FiniteSetTheorems, WellFoundedInduction, TLAPS

Links ==
  [anchor : [AllLanes -> Threads \cup {NoThread}],
   prev : [AllLanes -> Threads \cup MockHead],
   next : [Threads -> Threads \cup {NoThread}]]

\* The links of lane l are those of the list s.
Chain(ls, l, s) ==
  /\ s = <<>> => ls.anchor[l] = NoThread /\ ls.prev[l] = "self"
  /\ s # <<>> => /\ ls.anchor[l] = s[1] /\ ls.prev[l] = s[Len(s)]
                 /\ ls.next[s[Len(s)]] = NoThread
  /\ \A i \in 1 .. Len(s) - 1 : ls.next[s[i]] = s[i + 1]

Fifo(q, n) == q \in [0 .. n - 1 -> Seq(Threads)]

\* The threads of q.
Inside(q) == {t \in Threads : \E l \in DOMAIN q : \E i \in 1 .. Len(q[l]) : q[l][i] = t}

\* Each of them is there once.
Once(q) ==
  \A l, m \in DOMAIN q : \A i \in 1 .. Len(q[l]) : \A j \in 1 .. Len(q[m]) :
    q[l][i] = q[m][j] => l = m /\ i = j

\* A thread comes to the end of lane l, or leaves its front.
Appended(q, l, t) == [q EXCEPT ![l] = Append(@, t)]
Shortened(q, l) == [q EXCEPT ![l] = Tail(@)]

Lists(ls, q, n) ==
  /\ ls \in Links /\ n \in 0 .. MaxLanes /\ Fifo(q, n) /\ Once(q)
  /\ \A l \in 0 .. n - 1 : Chain(ls, l, q[l])
  /\ \A l \in AllLanes : l >= n => ls.anchor[l] = NoThread
  /\ \A t \in Threads \ Inside(q) : ls.next[t] = NoThread

-----------------------------------------------------------------------------
(* Changes of the links.                                                   *)

LEMMA MaxLanesType == MaxLanes \in Nat /\ MaxLanes >= 2 /\ AllLanes = 0 .. MaxLanes - 1
BY FS_CardinalityType, ReadyQueueAssumption DEF ReadyQueueAssumption, MaxLanes, LaneCount, MaxOf, AllLanes,
   Shard, SingleShard

LEMMA LaneIsThere ==
  ASSUME NEW n \in 0 .. MaxLanes, NEW l \in 0 .. n - 1
  PROVE  l \in AllLanes
BY MaxLanesType

(* Changes of one link. *)
LEMMA SetAnchor ==
  ASSUME NEW ls \in Links, NEW l \in AllLanes, NEW x \in Threads \cup {NoThread}
  PROVE  LET k == [ls EXCEPT !.anchor[l] = x]
         IN  k \in Links /\ k.anchor = [ls.anchor EXCEPT ![l] = x] /\ k.prev = ls.prev /\ k.next = ls.next
BY DEF Links

LEMMA SetPrev ==
  ASSUME NEW ls \in Links, NEW l \in AllLanes, NEW x \in Threads \cup MockHead
  PROVE  LET k == [ls EXCEPT !.prev[l] = x]
         IN  k \in Links /\ k.prev = [ls.prev EXCEPT ![l] = x] /\ k.anchor = ls.anchor /\ k.next = ls.next
BY DEF Links

LEMMA SetNext ==
  ASSUME NEW ls \in Links, NEW t \in Threads, NEW x \in Threads \cup {NoThread}
  PROVE  LET k == [ls EXCEPT !.next[t] = x]
         IN  k \in Links /\ k.next = [ls.next EXCEPT ![t] = x] /\ k.anchor = ls.anchor /\ k.prev = ls.prev
BY DEF Links

(* A thread at the end of a lane. *)
LEMMA AppendedThreads ==
  ASSUME NEW n \in Nat, NEW q, Fifo(q, n), Once(q), NEW l \in 0 .. n - 1,
         NEW t \in Threads, t \notin Inside(q)
  PROVE  LET r == Appended(q, l, t)
         IN  Fifo(r, n) /\ Once(r) /\ Inside(r) = Inside(q) \cup {t}
<1> DEFINE r == Appended(q, l, t)
<1>1. /\ q[l] \in Seq(Threads) /\ DOMAIN q = 0 .. n - 1 /\ DOMAIN r = 0 .. n - 1
      /\ r[l] = Append(q[l], t) /\ \A m \in 0 .. n - 1 : m # l => r[m] = q[m]
      /\ \A m \in 0 .. n - 1 : q[m] \in Seq(Threads) /\ Len(q[m]) \in Nat
  BY DEF Fifo, Appended
<1>2. /\ Len(r[l]) = Len(q[l]) + 1 /\ r[l][Len(q[l]) + 1] = t /\ Len(q[l]) \in Nat
      /\ \A i \in 1 .. Len(q[l]) : r[l][i] = q[l][i]
      /\ r[l] \in Seq(Threads)
  BY <1>1
<1>3. Fifo(r, n)
  <2>1. \A m \in 0 .. n - 1 : r[m] \in Seq(Threads) BY <1>1, <1>2
  <2>2. r = [m \in DOMAIN q |-> r[m]] BY DEF Appended
  <2>3. DOMAIN q = 0 .. n - 1 BY <1>1
  <2> HIDE DEF r
  <2> QED BY <2>1, <2>2, <2>3 DEF Fifo
<1> HIDE DEF r
<1>4. \A m \in 0 .. n - 1 : \A i \in 1 .. Len(q[m]) : q[m][i] # t /\ q[m][i] \in Threads
  <2>1. TAKE m \in 0 .. n - 1
  <2>2. TAKE i \in 1 .. Len(q[m])
  <2>3. q[m][i] \in Threads BY <1>1
  <2> QED BY <1>1, <2>3 DEF Inside
<1>5. \A m \in 0 .. n - 1 : \A i \in 1 .. Len(r[m]) :
         \/ i \in 1 .. Len(q[m]) /\ r[m][i] = q[m][i]
         \/ m = l /\ i = Len(q[l]) + 1 /\ r[m][i] = t
  <2>1. TAKE m \in 0 .. n - 1
  <2>2. CASE m = l
    <3>1. \A i \in 1 .. Len(q[l]) + 1 : i \in 1 .. Len(q[l]) \/ i = Len(q[l]) + 1 BY <1>2
    <3> QED BY <1>2, <2>2, <3>1
  <2>3. CASE m # l BY <1>1, <2>3
  <2> QED BY <2>2, <2>3
<1>6. Once(r)
  <2> SUFFICES ASSUME NEW k \in 0 .. n - 1, NEW m \in 0 .. n - 1, NEW i \in 1 .. Len(r[k]),
                      NEW j \in 1 .. Len(r[m]), r[k][i] = r[m][j]
               PROVE  k = m /\ i = j
    <3>1. DOMAIN r = 0 .. n - 1 BY <1>1
    <3> QED BY <3>1 DEF Once
  <2>1. CASE i \in 1 .. Len(q[k]) /\ r[k][i] = q[k][i] /\ j \in 1 .. Len(q[m]) /\ r[m][j] = q[m][j]
    <3>1. q[k][i] = q[m][j] BY <2>1
    <3>2. k \in DOMAIN q /\ m \in DOMAIN q BY <1>1
    <3>3. i \in 1 .. Len(q[k]) /\ j \in 1 .. Len(q[m]) BY <2>1
    <3> QED BY <3>1, <3>2, <3>3 DEF Once
  <2> QED BY <1>4, <1>5, <2>1
<1>7. Inside(r) = Inside(q) \cup {t}
  <2>1. ASSUME NEW u \in Inside(r) PROVE u \in Inside(q) \cup {t}
    BY <1>1, <1>5, <2>1 DEF Inside
  <2>2. ASSUME NEW u \in Inside(q) PROVE u \in Inside(r)
    <3>1. PICK m \in 0 .. n - 1 : \E i \in 1 .. Len(q[m]) : q[m][i] = u BY <1>1, <2>2 DEF Inside
    <3>2. PICK i \in 1 .. Len(q[m]) : q[m][i] = u BY <3>1
    <3>3. i \in 1 .. Len(r[m]) /\ r[m][i] = u
      <4>1. CASE m = l
        <5>1. i \in 1 .. Len(q[l]) /\ q[l][i] = u BY <3>2, <4>1
        <5> QED BY <1>2, <4>1, <5>1
      <4>2. CASE m # l BY <1>1, <3>2, <4>2
      <4> QED BY <4>1, <4>2
    <3> QED BY <1>1, <2>2, <3>3 DEF Inside
  <2>3. t \in Inside(r)
    <3>1. Len(q[l]) + 1 \in 1 .. Len(r[l]) BY <1>2
    <3> QED BY <1>1, <1>2, <3>1 DEF Inside
  <2> QED BY <2>1, <2>2, <2>3
<1> QED BY <1>3, <1>6, <1>7 DEF r

LEMMA LinkedLists ==
  ASSUME NEW ls, NEW q, NEW n, Lists(ls, q, n), NEW l \in 0 .. n - 1,
         NEW t \in Threads, t \notin Inside(q)
  PROVE  LET r == Appended(q, l, t)
         IN  Lists(Linked(ls, l, t), r, n) /\ Inside(r) = Inside(q) \cup {t}
<1> DEFINE k == Linked(ls, l, t)
           r == Appended(q, l, t)
<1>1. n \in Nat /\ n \in 0 .. MaxLanes /\ l \in AllLanes /\ Fifo(q, n) /\ Once(q) /\ ls \in Links
  BY LaneIsThere, MaxLanesType DEF Lists
<1>2. Fifo(r, n) /\ Once(r) /\ Inside(r) = Inside(q) \cup {t}
  <2>1. n \in Nat /\ Fifo(q, n) /\ Once(q) BY <1>1
  <2> QED BY <2>1, AppendedThreads
<1>3. /\ q[l] \in Seq(Threads) /\ Len(q[l]) \in Nat
      /\ r[l] = Append(q[l], t) /\ \A m \in 0 .. n - 1 : m # l => r[m] = q[m]
      /\ \A m \in 0 .. n - 1 : q[m] \in Seq(Threads) /\ Len(q[m]) \in Nat
  BY <1>1 DEF Fifo, Appended
<1> HIDE DEF r
<1>4. ASSUME NEW m \in 0 .. n - 1, NEW i \in 1 .. Len(q[m])
      PROVE  q[m][i] \in Inside(q) /\ q[m][i] \in Threads /\ q[m][i] # t
  <2>1. q[m][i] \in Threads BY <1>3
  <2> QED BY <1>1, <2>1 DEF Inside, Fifo
<1>5. Chain(ls, l, q[l]) /\ ls.next[t] = NoThread BY DEF Lists
<1>6. ls.prev[l] \in Threads <=> q[l] # <<>>
  <2>1. q[l] # <<>> => Len(q[l]) \in 1 .. Len(q[l]) BY <1>3
  <2> QED BY <1>4, <1>5, <2>1, ReadyQueueAssumption DEF Chain, ReadyQueueAssumption, MockHead
<1>7. CASE q[l] = <<>>
  <2>0. ls.prev[l] = "self" BY <1>5, <1>7 DEF Chain
  <2>1. k = [ls EXCEPT !.anchor[l] = t, !.prev[l] = t] BY <1>6, <1>7, <2>0 DEF Linked
  <2>2. /\ k \in Links /\ k.next = ls.next
        /\ k.anchor = [ls.anchor EXCEPT ![l] = t] /\ k.prev = [ls.prev EXCEPT ![l] = t]
    <3> DEFINE j == [ls EXCEPT !.anchor[l] = t]
    <3>1. k = [j EXCEPT !.prev[l] = t] BY <2>1
    <3>2. j \in Links /\ j.anchor = [ls.anchor EXCEPT ![l] = t] /\ j.prev = ls.prev /\ j.next = ls.next
      BY <1>1, SetAnchor
    <3> HIDE DEF j, k
    <3> QED BY <1>1, <3>1, <3>2, SetPrev
  <2>3. Chain(k, l, r[l])
    <3>1. r[l] = <<t>> BY <1>3, <1>7
    <3>2. r[l] # <<>> /\ Len(r[l]) = 1 /\ r[l][1] = t
      <4>1. <<t>> # <<>> /\ Len(<<t>>) = 1 /\ <<t>>[1] = t OBVIOUS
      <4> QED BY <3>1, <4>1
    <3> QED BY <1>1, <1>5, <2>2, <3>2 DEF Chain, Links
  <2>4. ASSUME NEW m \in 0 .. n - 1, m # l PROVE Chain(k, m, r[m])
    <3>1. Chain(ls, m, q[m]) /\ r[m] = q[m] /\ m \in AllLanes BY <1>1, <1>3, <2>4, LaneIsThere DEF Lists
    <3> QED BY <1>1, <2>2, <2>4, <3>1 DEF Chain, Links
  <2>5. \A m \in AllLanes : m >= n => k.anchor[m] = NoThread BY <1>1, <2>2, MaxLanesType DEF Lists, Links
  <2>6. \A u \in Threads \ Inside(r) : k.next[u] = NoThread BY <1>2, <2>2 DEF Lists
  <2>7. Lists(k, r, n) BY <1>1, <1>2, <2>2, <2>3, <2>4, <2>5, <2>6 DEF Lists
  <2> QED BY <1>2, <2>7 DEF r
<1>8. CASE q[l] # <<>>
  <2> DEFINE z == q[l][Len(q[l])]
  <2>1. Len(q[l]) \in 1 .. Len(q[l]) /\ ls.prev[l] = z /\ z \in Threads /\ z # t
    <3>1. Len(q[l]) \in 1 .. Len(q[l]) BY <1>3, <1>8
    <3> QED BY <1>4, <1>5, <1>8, <3>1 DEF Chain
  <2>2. k = [ls EXCEPT !.next[z] = t, !.prev[l] = t] BY <1>6, <1>8, <2>1 DEF Linked
  <2>3. /\ k \in Links /\ k.next = [ls.next EXCEPT ![z] = t]
        /\ k.anchor = ls.anchor /\ k.prev = [ls.prev EXCEPT ![l] = t]
    <3> DEFINE j == [ls EXCEPT !.next[z] = t]
    <3>1. k = [j EXCEPT !.prev[l] = t] BY <2>2
    <3>2. j \in Links /\ j.next = [ls.next EXCEPT ![z] = t] /\ j.anchor = ls.anchor /\ j.prev = ls.prev
      BY <1>1, <2>1, SetNext
    <3> HIDE DEF j, k
    <3> QED BY <1>1, <3>1, <3>2, SetPrev
  <2>4. Chain(k, l, r[l])
    <3>1. r[l] # <<>> /\ Len(r[l]) = Len(q[l]) + 1 /\ r[l][Len(r[l])] = t /\ r[l][1] = q[l][1]
      BY <1>3, <2>1
    <3>2. k.next[t] = NoThread /\ k.anchor[l] = r[l][1] /\ k.prev[l] = r[l][Len(r[l])]
      BY <1>1, <1>5, <1>8, <2>1, <2>3, <3>1 DEF Chain, Links
    <3>3. ASSUME NEW i \in 1 .. Len(r[l]) - 1 PROVE k.next[r[l][i]] = r[l][i + 1]
      <4>1. i \in 1 .. Len(q[l]) /\ r[l][i] = q[l][i] BY <1>3, <3>1
      <4>2. CASE i = Len(q[l]) BY <1>1, <2>1, <2>3, <3>1, <4>1, <4>2 DEF Links
      <4>3. CASE i # Len(q[l])
        <5>1. i \in 1 .. Len(q[l]) - 1 /\ i + 1 \in 1 .. Len(q[l]) BY <1>3, <4>1, <4>3
        <5>2. r[l][i + 1] = q[l][i + 1] /\ ls.next[q[l][i]] = q[l][i + 1] BY <1>3, <1>5, <5>1 DEF Chain
        <5>3. q[l][i] # z
          <6>1. l \in DOMAIN q BY <1>1 DEF Fifo
          <6> QED BY <1>1, <2>1, <4>1, <4>3, <6>1 DEF Once
        <5>4. q[l][i] \in Threads BY <1>4, <4>1
        <5> QED BY <1>1, <2>3, <4>1, <5>2, <5>3, <5>4 DEF Links
      <4> QED BY <4>2, <4>3
    <3> QED BY <3>1, <3>2, <3>3 DEF Chain
  <2>5. ASSUME NEW m \in 0 .. n - 1, m # l PROVE Chain(k, m, r[m])
    <3>1. Chain(ls, m, q[m]) /\ r[m] = q[m] /\ m \in AllLanes BY <1>1, <1>3, <2>5, LaneIsThere DEF Lists
    <3>2. \A i \in 1 .. Len(q[m]) : q[m][i] # z /\ q[m][i] \in Threads
      <4>1. l \in DOMAIN q /\ m \in DOMAIN q BY <1>1 DEF Fifo
      <4> QED BY <1>1, <1>4, <2>1, <2>5, <4>1 DEF Once
    <3>3. \A i \in 1 .. Len(q[m]) : k.next[q[m][i]] = ls.next[q[m][i]] BY <1>1, <2>3, <3>2 DEF Links
    <3>4. Len(q[m]) \in Nat /\ (q[m] # <<>> => Len(q[m]) \in 1 .. Len(q[m])) BY <1>3
    <3> QED BY <1>1, <2>3, <2>5, <3>1, <3>3, <3>4 DEF Chain, Links
  <2>6. \A m \in AllLanes : m >= n => k.anchor[m] = NoThread BY <2>3 DEF Lists
  <2>7. \A u \in Threads \ Inside(r) : k.next[u] = NoThread
    <3>1. z \in Inside(q) BY <1>4, <2>1
    <3> QED BY <1>1, <1>2, <2>3, <3>1 DEF Lists, Links
  <2>8. Lists(k, r, n) BY <1>1, <1>2, <2>3, <2>4, <2>5, <2>6, <2>7 DEF Lists
  <2> QED BY <1>2, <2>8 DEF r
<1> QED BY <1>7, <1>8

(* The first thread of a lane is gone. *)
LEMMA ShortenedThreads ==
  ASSUME NEW n \in Nat, NEW q, Fifo(q, n), Once(q), NEW l \in 0 .. n - 1, q[l] # <<>>
  PROVE  LET r == Shortened(q, l)
         IN  /\ Fifo(r, n) /\ Once(r) /\ Inside(r) = Inside(q) \ {q[l][1]}
             /\ \A i \in 1 .. Len(r[l]) : r[l][i] = q[l][i + 1]
<1> DEFINE r == Shortened(q, l)
           t == q[l][1]
<1>1. /\ q[l] \in Seq(Threads) /\ DOMAIN q = 0 .. n - 1 /\ DOMAIN r = 0 .. n - 1
      /\ r[l] = Tail(q[l]) /\ \A m \in 0 .. n - 1 : m # l => r[m] = q[m]
      /\ \A m \in 0 .. n - 1 : q[m] \in Seq(Threads) /\ Len(q[m]) \in Nat
  BY DEF Fifo, Shortened
<1>2. /\ Len(q[l]) \in Nat /\ Len(q[l]) >= 1 /\ Len(r[l]) = Len(q[l]) - 1 /\ r[l] \in Seq(Threads)
      /\ \A i \in 1 .. Len(r[l]) : r[l][i] = q[l][i + 1]
  BY <1>1
<1> HIDE DEF r
<1>3. Fifo(r, n)
  <2>1. \A m \in 0 .. n - 1 : r[m] \in Seq(Threads) BY <1>1, <1>2
  <2>2. r = [m \in 0 .. n - 1 |-> r[m]] BY <1>1 DEF r, Shortened
  <2> QED BY <2>1, <2>2 DEF Fifo
<1>4. \A m \in 0 .. n - 1 : \A i \in 1 .. Len(r[m]) :
         \/ m # l /\ i \in 1 .. Len(q[m]) /\ r[m][i] = q[m][i]
         \/ m = l /\ i + 1 \in 1 .. Len(q[m]) /\ r[m][i] = q[m][i + 1]
  <2>1. TAKE m \in 0 .. n - 1
  <2>2. TAKE i \in 1 .. Len(r[m])
  <2>3. CASE m # l BY <1>1, <2>3
  <2>4. CASE m = l
    <3>1. i \in 1 .. Len(r[l]) BY <2>2, <2>4
    <3>2. i + 1 \in 1 .. Len(q[l]) BY <1>2, <3>1
    <3> QED BY <1>2, <2>4, <3>1, <3>2
  <2> QED BY <2>3, <2>4
<1>5. ASSUME NEW k \in 0 .. n - 1, NEW m \in 0 .. n - 1, NEW i \in 1 .. Len(q[k]), NEW j \in 1 .. Len(q[m]),
             q[k][i] = q[m][j]
      PROVE  k = m /\ i = j
  <2>1. k \in DOMAIN q /\ m \in DOMAIN q BY <1>1
  <2> QED BY <1>5, <2>1 DEF Once
<1>6. Once(r)
  <2> SUFFICES ASSUME NEW k \in 0 .. n - 1, NEW m \in 0 .. n - 1, NEW i \in 1 .. Len(r[k]),
                      NEW j \in 1 .. Len(r[m]), r[k][i] = r[m][j]
               PROVE  k = m /\ i = j
    <3>1. DOMAIN r = 0 .. n - 1 BY <1>1
    <3> QED BY <3>1 DEF Once
  <2>1. i \in Int /\ j \in Int BY <1>1, <1>2
  <2> QED BY <1>4, <1>5, <2>1
<1>7. Inside(r) = Inside(q) \ {t}
  <2>1. ASSUME NEW u \in Inside(r) PROVE u \in Inside(q) \ {t}
    <3>1. u \in Threads /\ \E m \in 0 .. n - 1 : \E i \in 1 .. Len(r[m]) : r[m][i] = u BY <1>1 DEF Inside
    <3>2. PICK m \in 0 .. n - 1 : \E i \in 1 .. Len(r[m]) : r[m][i] = u BY <3>1
    <3>3. PICK i \in 1 .. Len(r[m]) : r[m][i] = u BY <3>2
    <3>4. PICK j \in 1 .. Len(q[m]) : q[m][j] = u /\ (m = l => j # 1)
      <4>1. i \in Int /\ i >= 1 BY <3>3, <1>1, <1>2
      <4>2. \/ m # l /\ i \in 1 .. Len(q[m]) /\ r[m][i] = q[m][i]
            \/ m = l /\ i + 1 \in 1 .. Len(q[m]) /\ r[m][i] = q[m][i + 1]
        BY <1>4
      <4>3. i + 1 # 1 BY <4>1
      <4> QED BY <3>3, <4>2, <4>3
    <3>5. 1 \in 1 .. Len(q[l]) BY <1>2
    <3>6. u # t BY <1>5, <3>4, <3>5
    <3> QED BY <1>1, <3>1, <3>4, <3>6 DEF Inside
  <2>2. ASSUME NEW u \in Inside(q), u # t PROVE u \in Inside(r)
    <3>1. u \in Threads /\ \E m \in 0 .. n - 1 : \E i \in 1 .. Len(q[m]) : q[m][i] = u BY <1>1 DEF Inside
    <3>2. PICK m \in 0 .. n - 1 : \E i \in 1 .. Len(q[m]) : q[m][i] = u BY <3>1
    <3>3. PICK i \in 1 .. Len(q[m]) : q[m][i] = u BY <3>2
    <3>4. \E j \in 1 .. Len(r[m]) : r[m][j] = u
      <4>1. CASE m = l
        <5>1. i # 1 /\ i \in 1 .. Len(q[l]) BY <2>2, <3>3, <4>1
        <5>2. i - 1 \in 1 .. Len(r[l]) BY <1>2, <5>1
        <5>3. r[l][i - 1] = q[l][(i - 1) + 1] /\ (i - 1) + 1 = i BY <1>2, <5>1, <5>2
        <5> QED BY <3>3, <4>1, <5>2, <5>3
      <4>2. CASE m # l BY <1>1, <3>3, <4>2
      <4> QED BY <4>1, <4>2
    <3> QED BY <1>1, <3>1, <3>4 DEF Inside
  <2> QED BY <2>1, <2>2
<1> QED BY <1>2, <1>3, <1>6, <1>7 DEF r

LEMMA UnlinkedLists ==
  ASSUME NEW ls, NEW q, NEW n, Lists(ls, q, n), NEW l \in 0 .. n - 1, q[l] # <<>>
  PROVE  LET r == Shortened(q, l)
         IN  Lists(Unlinked(ls, l), r, n) /\ ls.anchor[l] = q[l][1] /\ Inside(r) = Inside(q) \ {q[l][1]}
<1> DEFINE k == Unlinked(ls, l)
           r == Shortened(q, l)
           t == q[l][1]
<1>1. n \in Nat /\ n \in 0 .. MaxLanes /\ l \in AllLanes /\ Fifo(q, n) /\ Once(q) /\ ls \in Links
  BY LaneIsThere, MaxLanesType DEF Lists
<1>2. /\ Fifo(r, n) /\ Once(r) /\ Inside(r) = Inside(q) \ {t}
      /\ \A i \in 1 .. Len(r[l]) : r[l][i] = q[l][i + 1]
  <2>1. n \in Nat /\ Fifo(q, n) /\ Once(q) BY <1>1
  <2> QED BY <2>1, ShortenedThreads
<1>3. /\ q[l] \in Seq(Threads) /\ Len(q[l]) \in Nat /\ Len(q[l]) >= 1 /\ t \in Threads
      /\ r[l] = Tail(q[l]) /\ \A m \in 0 .. n - 1 : m # l => r[m] = q[m]
      /\ \A m \in 0 .. n - 1 : q[m] \in Seq(Threads) /\ Len(q[m]) \in Nat
  BY <1>1 DEF Fifo, Shortened
<1> HIDE DEF r
<1>4. Chain(ls, l, q[l]) BY DEF Lists
<1>5. ls.anchor[l] = t BY <1>4 DEF Chain
<1> DEFINE x == ls.next[t]
           y == IF x = NoThread THEN "self" ELSE ls.prev[l]
<1>6. x \in Threads \cup {NoThread} /\ y \in Threads \cup MockHead
  BY <1>1, <1>3 DEF Links, MockHead
<1>7. /\ k \in Links /\ k.anchor = [ls.anchor EXCEPT ![l] = x] /\ k.next = [ls.next EXCEPT ![t] = NoThread]
      /\ k.prev = [ls.prev EXCEPT ![l] = y]
  <2> DEFINE a == [ls EXCEPT !.anchor[l] = x]
             b == [a EXCEPT !.next[t] = NoThread]
             c == [b EXCEPT !.prev[l] = y]
  <2>1. a \in Links /\ a.anchor = [ls.anchor EXCEPT ![l] = x] /\ a.prev = ls.prev /\ a.next = ls.next
    BY <1>1, <1>6, SetAnchor
  <2>2. k = [b EXCEPT !.prev[l] = IF x = NoThread THEN "self" ELSE @] BY <1>5 DEF Unlinked
  <2> HIDE DEF a
  <2>3. b \in Links /\ b.next = [a.next EXCEPT ![t] = NoThread] /\ b.anchor = a.anchor /\ b.prev = a.prev
    <3>1. t \in Threads /\ NoThread \in Threads \cup {NoThread} BY <1>3
    <3> HIDE DEF t
    <3> QED BY <2>1, <3>1, SetNext
  <2>4. [b EXCEPT !.prev[l] = IF x = NoThread THEN "self" ELSE @] = [b EXCEPT !.prev[l] = IF x = NoThread THEN "self" ELSE b.prev[l]]
    OBVIOUS
  <2>5. b.prev[l] = ls.prev[l] BY <2>1, <2>3
  <2>6. k = c
    <3> HIDE DEF b, k, x
    <3> QED BY <2>2, <2>4, <2>5
  <2> HIDE DEF b, k, y
  <2>7. c \in Links /\ c.prev = [b.prev EXCEPT ![l] = y] /\ c.anchor = b.anchor /\ c.next = b.next
    BY <1>1, <1>6, <2>3, SetPrev
  <2> QED BY <2>1, <2>3, <2>6, <2>7
<1> HIDE DEF k
<1>8. Chain(k, l, r[l])
  <2>0. PICK s \in Seq(Threads) : s = q[l] BY <1>3
  <2>1. /\ Len(r[l]) = Len(q[l]) - 1 /\ (r[l] = <<>> <=> Len(q[l]) = 1)
    <3>1. r[l] = Tail(s) /\ s # <<>> BY <1>3, <2>0
    <3>2. Len(Tail(s)) = Len(s) - 1 /\ Tail(s) \in Seq(Threads) /\ Len(s) \in Nat BY <3>1
    <3>3. \A u \in Seq(Threads) : u = <<>> <=> Len(u) = 0 OBVIOUS
    <3>4. Tail(s) = <<>> <=> Len(s) = 1
      <4>1. PICK u \in Seq(Threads) : u = Tail(s) BY <3>2
      <4>2. u = <<>> <=> Len(u) = 0 BY <3>3
      <4>3. Len(u) = Len(s) - 1 /\ Len(s) \in Nat BY <3>2, <4>1
      <4> QED BY <4>1, <4>2, <4>3
    <3> QED BY <2>0, <3>1, <3>2, <3>4
  <2>2. k.anchor[l] = x /\ k.prev[l] = y BY <1>1, <1>7 DEF Links
  <2>3. CASE Len(q[l]) = 1
    <3>1. x = NoThread BY <1>3, <1>4, <2>3 DEF Chain
    <3>2. r[l] = <<>> /\ Len(r[l]) = 0 /\ k.anchor[l] = NoThread /\ k.prev[l] = "self" BY <2>1, <2>2, <2>3, <3>1
    <3> QED BY <3>2 DEF Chain
  <2>4. CASE Len(q[l]) # 1
    <3>1. /\ 1 \in 1 .. Len(q[l]) - 1 /\ Len(q[l]) \in 1 .. Len(q[l]) /\ r[l] # <<>>
          /\ Len(r[l]) \in 1 .. Len(r[l]) /\ 1 \in 1 .. Len(r[l])
      BY <1>3, <2>1, <2>4
    <3>2. x = q[l][2]
      <4>1. ls.next[q[l][1]] = q[l][1 + 1] BY <1>4, <3>1 DEF Chain
      <4> QED BY <4>1
    <3>3. q[l][2] = r[l][1] /\ q[l][Len(q[l])] = r[l][Len(r[l])]
      <4>1. (Len(q[l]) - 1) + 1 = Len(q[l]) BY <1>3
      <4> QED BY <1>2, <2>1, <3>1, <4>1
    <3>4. x # NoThread
      <4>1. 2 \in 1 .. Len(q[l]) BY <1>3, <3>1
      <4>2. q[l][2] \in Threads BY <1>3, <4>1
      <4> QED BY <3>2, <4>2, ReadyQueueAssumption DEF ReadyQueueAssumption
    <3>5. k.anchor[l] = r[l][1] /\ k.prev[l] = r[l][Len(r[l])] BY <1>4, <2>2, <3>2, <3>3, <3>4, <1>3 DEF Chain
    <3>6. \A i \in 2 .. Len(q[l]) : q[l][i] # t /\ q[l][i] \in Threads
      <4>1. l \in DOMAIN q /\ 1 \in 1 .. Len(q[l]) BY <1>1, <1>3 DEF Fifo
      <4>2. TAKE i \in 2 .. Len(q[l])
      <4>3. i \in 1 .. Len(q[l]) /\ i # 1 BY <1>3
      <4> QED BY <1>1, <1>3, <4>1, <4>3 DEF Once
    <3>7. \A i \in 2 .. Len(q[l]) : k.next[q[l][i]] = ls.next[q[l][i]] BY <1>1, <1>7, <3>6 DEF Links
    <3>8. k.next[r[l][Len(r[l])]] = NoThread
      <4>1. Len(q[l]) \in 2 .. Len(q[l]) BY <1>3, <3>1
      <4> QED BY <1>3, <1>4, <3>3, <3>7, <4>1 DEF Chain
    <3>9. ASSUME NEW i \in 1 .. Len(r[l]) - 1 PROVE k.next[r[l][i]] = r[l][i + 1]
      <4>1. /\ i \in 1 .. Len(r[l]) /\ i + 1 \in 1 .. Len(r[l]) /\ i + 1 \in 2 .. Len(q[l])
            /\ i + 1 \in 1 .. Len(q[l]) - 1
        BY <1>3, <2>1
      <4>2. r[l][i] = q[l][i + 1] /\ r[l][i + 1] = q[l][(i + 1) + 1] BY <1>2, <4>1
      <4>3. ls.next[q[l][i + 1]] = q[l][(i + 1) + 1] BY <1>4, <4>1 DEF Chain
      <4> QED BY <3>7, <4>1, <4>2, <4>3
    <3> QED BY <3>1, <3>5, <3>8, <3>9 DEF Chain
  <2> QED BY <2>3, <2>4
<1>9. ASSUME NEW m \in 0 .. n - 1, m # l PROVE Chain(k, m, r[m])
  <2>1. Chain(ls, m, q[m]) /\ r[m] = q[m] /\ m \in AllLanes BY <1>1, <1>3, <1>9, LaneIsThere DEF Lists
  <2>2. \A i \in 1 .. Len(q[m]) : q[m][i] # t /\ q[m][i] \in Threads
    <3>1. l \in DOMAIN q /\ m \in DOMAIN q /\ 1 \in 1 .. Len(q[l]) BY <1>1, <1>3 DEF Fifo
    <3>2. PICK s \in Seq(Threads) : s = q[m] BY <1>3
    <3>3. \A i \in 1 .. Len(q[m]) : q[m][i] \in Threads BY <3>2
    <3>4. \A i \in 1 .. Len(q[m]) : q[m][i] = q[l][1] => m = l BY <1>1, <3>1 DEF Once
    <3> QED BY <1>9, <3>3, <3>4
  <2>3. \A i \in 1 .. Len(q[m]) : k.next[q[m][i]] = ls.next[q[m][i]] BY <1>1, <1>7, <2>2 DEF Links
  <2>4. Len(q[m]) \in Nat /\ (q[m] # <<>> => Len(q[m]) \in 1 .. Len(q[m])) BY <1>3
  <2>5. k.anchor[m] = ls.anchor[m] /\ k.prev[m] = ls.prev[m] BY <1>1, <1>7, <1>9, <2>1 DEF Links
  <2> QED BY <2>1, <2>3, <2>4, <2>5 DEF Chain
<1>10. \A m \in AllLanes : m >= n => k.anchor[m] = NoThread
  <2>1. TAKE m \in AllLanes
  <2>2. m >= n => m # l BY <1>1, MaxLanesType
  <2> QED BY <1>1, <1>7, <2>2 DEF Lists, Links
<1>11. \A u \in Threads \ Inside(r) : k.next[u] = NoThread BY <1>1, <1>2, <1>7 DEF Lists, Links
<1>12. Lists(k, r, n) BY <1>1, <1>2, <1>7, <1>8, <1>9, <1>10, <1>11 DEF Lists
<1> QED BY <1>2, <1>5, <1>12 DEF r, k

-----------------------------------------------------------------------------
(* Whoever follows the links of a lane finds its list.                     *)

LEMMA Least == ASSUME NEW T \in SUBSET Nat, T # {} PROVE \E n \in T : \A k \in T : n <= k
<1> DEFINE R == {p \in Nat \X Nat : p[1] < p[2]}
<1>1. IsWellFoundedOn(R, Nat) BY NatLessThanWellFounded DEF OpToRel
<1>2. PICK n \in T : \A k \in T : <<k, n>> \notin R
  <2> HIDE DEF R
  <2> QED BY <1>1, WFMin
<1>3. ASSUME NEW k \in T PROVE n <= k
  <2>1. <<k, n>> \in Nat \X Nat OBVIOUS
  <2> QED BY <1>2, <2>1
<1> QED BY <1>3

LEMMA SeqOfSeq ==
  ASSUME NEW S, NEW n \in Nat
  PROVE  \A x : x \in SeqOf(S, n) <=> x \in Seq(S) /\ Len(x) <= n
<1>1. ASSUME NEW x \in SeqOf(S, n) PROVE x \in Seq(S) /\ Len(x) <= n
  <2>1. PICK m \in 0 .. n : x \in [1 .. m -> S] BY DEF SeqOf
  <2> QED BY <2>1
<1>2. ASSUME NEW x \in Seq(S), Len(x) <= n PROVE x \in SeqOf(S, n)
  <2>1. Len(x) \in 0 .. n /\ x \in [1 .. Len(x) -> S] BY <1>2
  <2> QED BY <2>1 DEF SeqOf
<1> QED BY <1>1, <1>2

NThreads == Cardinality(Threads)

LEMMA NThreadsType == NThreads \in Nat
BY FS_CardinalityType, ReadyQueueAssumption DEF ReadyQueueAssumption, NThreads

\* The thread that comes after ts, and whether the walk ends there.
Following(ls, l, ts) == IF ts = <<>> THEN ls.anchor[l] ELSE ls.next[Last(ts)]
Ends(ls, l, ts) == Following(ls, l, ts) = NoThread \/ Len(ts) = NThreads

\* f continues each walk that has come to at least k threads.
Walks(f, ls, l, k) ==
  f = [ts \in {x \in SeqOf(Threads, NThreads) : Len(x) >= k} |->
         IF Ends(ls, l, ts) THEN ts ELSE f[Append(ts, Following(ls, l, ts))]]

LEMMA FollowingType ==
  ASSUME NEW ls \in Links, NEW l \in AllLanes, NEW ts \in SeqOf(Threads, NThreads), ~Ends(ls, l, ts)
  PROVE  /\ Following(ls, l, ts) \in Threads
         /\ Append(ts, Following(ls, l, ts)) \in SeqOf(Threads, NThreads)
         /\ Len(Append(ts, Following(ls, l, ts))) = Len(ts) + 1
<1>1. ts \in Seq(Threads) /\ Len(ts) <= NThreads /\ NThreads \in Nat /\ Len(ts) \in Nat BY SeqOfSeq, NThreadsType
<1>2. Following(ls, l, ts) \in Threads \cup {NoThread}
  <2>1. ts # <<>> => Last(ts) \in Threads BY <1>1 DEF Last
  <2> QED BY <2>1 DEF Following, Links
<1>3. Following(ls, l, ts) \in Threads /\ Len(ts) # NThreads BY <1>2 DEF Ends
<1> DEFINE a == Append(ts, Following(ls, l, ts))
<1>4. a \in Seq(Threads) /\ Len(a) = Len(ts) + 1 BY <1>1, <1>3
<1>5. Len(a) <= NThreads BY <1>1, <1>3, <1>4
<1> HIDE DEF a
<1>6. a \in SeqOf(Threads, NThreads) BY <1>1, <1>4, <1>5, SeqOfSeq
<1> QED BY <1>3, <1>4, <1>6 DEF a

LEMMA WalkExists ==
  ASSUME NEW ls \in Links, NEW l \in AllLanes
  PROVE  \E f : Walks(f, ls, l, 0)
<1> DEFINE T == {k \in Nat : k <= NThreads /\ ~ \E f : Walks(f, ls, l, NThreads - k)}
<1>1. SUFFICES ASSUME NThreads \in T PROVE FALSE BY NThreadsType
<1>2. PICK k \in T : \A j \in T : k <= j
  <2>1. T \in SUBSET Nat OBVIOUS
  <2> HIDE DEF T
  <2> QED BY <1>1, <2>1, Least
<1> DEFINE B(n) == {x \in SeqOf(Threads, NThreads) : Len(x) >= n}
<1>3. CASE k = 0
  <2> DEFINE f == [ts \in B(NThreads) |-> ts]
  <2>1. \A ts \in B(NThreads) : Ends(ls, l, ts) BY SeqOfSeq, NThreadsType DEF Ends
  <2>2. Walks(f, ls, l, NThreads) BY <2>1 DEF Walks
  <2> QED BY <1>2, <1>3, <2>2, NThreadsType
<1>4. CASE k # 0
  <2> DEFINE n == NThreads - k
  <2>1. k - 1 \in Nat /\ k - 1 \notin T /\ k - 1 <= NThreads /\ NThreads - (k - 1) = n + 1 /\ n \in Nat
    BY <1>2, <1>4, NThreadsType
  <2>2. PICK f : Walks(f, ls, l, n + 1) BY <2>1
  <2> DEFINE g == [ts \in B(n) |-> IF Ends(ls, l, ts) THEN ts ELSE f[Append(ts, Following(ls, l, ts))]]
  <2> HIDE DEF n
  <2>3. ASSUME NEW ts \in B(n), ~Ends(ls, l, ts)
        PROVE  f[Append(ts, Following(ls, l, ts))] = g[Append(ts, Following(ls, l, ts))]
    <3> DEFINE a == Append(ts, Following(ls, l, ts))
    <3>1. a \in SeqOf(Threads, NThreads) /\ Len(a) = Len(ts) + 1 BY <2>3, FollowingType
    <3>2. Len(ts) \in Nat /\ Len(ts) >= n BY <2>3, SeqOfSeq, NThreadsType
    <3> HIDE DEF a
    <3>3. a \in B(n + 1) /\ a \in B(n) BY <2>1, <3>1, <3>2
    <3>4. f[a] = IF Ends(ls, l, a) THEN a ELSE f[Append(a, Following(ls, l, a))] BY <2>2, <3>3 DEF Walks
    <3>5. g[a] = IF Ends(ls, l, a) THEN a ELSE f[Append(a, Following(ls, l, a))] BY <3>3
    <3> QED BY <3>4, <3>5 DEF a
  <2>4. \A ts \in B(n) : g[ts] = IF Ends(ls, l, ts) THEN ts ELSE g[Append(ts, Following(ls, l, ts))] BY <2>3
  <2>5. g = [ts \in B(n) |-> g[ts]] OBVIOUS
  <2> HIDE DEF g
  <2>6. g = [ts \in B(n) |-> IF Ends(ls, l, ts) THEN ts ELSE g[Append(ts, Following(ls, l, ts))]] BY <2>4, <2>5
  <2>7. Walks(g, ls, l, n) BY <2>6 DEF Walks
  <2> QED BY <1>2, <2>7 DEF n
<1> QED BY <1>3, <1>4

LEMMA WalkValue ==
  ASSUME NEW ls \in Links, NEW l \in AllLanes, NEW f, Walks(f, ls, l, 0),
         NEW s \in Seq(Threads), Len(s) <= NThreads, Chain(ls, l, s)
  PROVE  f[<<>>] = s
<1> DEFINE x(j) == SubSeq(s, 1, j)
           T == {i \in 0 .. Len(s) : f[x(Len(s) - i)] # s}
<1>0. Len(s) \in Nat /\ NThreads \in Nat BY NThreadsType
<1>1. x(0) = <<>> /\ x(Len(s)) = s BY <1>0
<1>2. \A j \in 0 .. Len(s) : x(j) \in Seq(Threads) /\ Len(x(j)) = j /\ (j > 0 => x(j) # <<>> /\ Last(x(j)) = s[j])
  BY <1>0 DEF Last
<1>3. \A j \in 0 .. Len(s) - 1 : x(j + 1) = Append(x(j), s[j + 1]) BY <1>0
<1> HIDE DEF x
<1>4. \A j \in 0 .. Len(s) : x(j) \in SeqOf(Threads, NThreads) BY <1>0, <1>2, SeqOfSeq
<1>5. \A y \in SeqOf(Threads, NThreads) : f[y] = IF Ends(ls, l, y) THEN y ELSE f[Append(y, Following(ls, l, y))]
  <2>1. {y \in SeqOf(Threads, NThreads) : Len(y) >= 0} = SeqOf(Threads, NThreads) BY <1>0, SeqOfSeq
  <2> QED BY <2>1 DEF Walks
<1>6. SUFFICES ASSUME Len(s) \in T PROVE FALSE BY <1>0, <1>1
<1>7. PICK i \in T : \A j \in T : i <= j
  <2>1. T \in SUBSET Nat OBVIOUS
  <2> HIDE DEF T
  <2> QED BY <1>6, <2>1, Least
<1>8. CASE i = 0
  <2>1. Following(ls, l, s) = NoThread BY DEF Following, Chain, Last
  <2>2. f[s] = s
    <3>1. Ends(ls, l, s) BY <2>1 DEF Ends
    <3>2. s \in SeqOf(Threads, NThreads) BY <1>0, SeqOfSeq
    <3> QED BY <1>5, <3>1, <3>2
  <2> QED BY <1>0, <1>1, <1>7, <1>8, <2>2
<1>9. CASE i # 0
  <2>0. i \in 0 .. Len(s) /\ f[x(Len(s) - i)] # s BY <1>7
  <2>1. PICK j \in 0 .. Len(s) - 1 : j = Len(s) - i
    <3>1. i \in 0 .. Len(s) /\ i # 0 /\ Len(s) \in Nat BY <1>0, <1>9, <2>0
    <3>2. Len(s) - i \in 0 .. Len(s) - 1 BY <3>1
    <3> QED BY <3>2
  <2>2. i - 1 \in 0 .. Len(s) /\ i - 1 \notin T /\ Len(s) - (i - 1) = j + 1 BY <1>0, <1>7, <1>9, <2>1
  <2>3. f[x(j + 1)] = s BY <2>2
  <2>4. Following(ls, l, x(j)) = s[j + 1]
    <3>1. CASE j = 0
      <4>1. s # <<>> BY <1>0, <2>1
      <4> QED BY <1>1, <3>1, <4>1 DEF Following, Chain
    <3>2. CASE j # 0
      <4>1. j \in 1 .. Len(s) - 1 /\ j \in 0 .. Len(s) /\ j > 0 BY <1>0, <2>1, <3>2
      <4> QED BY <1>2, <4>1 DEF Following, Chain
    <3> QED BY <3>1, <3>2
  <2>5. j \in 0 .. Len(s) /\ s[j + 1] \in Threads BY <1>0, <2>1
  <2>6. ~Ends(ls, l, x(j))
    <3>1. Len(x(j)) = j BY <1>2, <2>5
    <3>2. j # NThreads
      <4>1. j \in 0 .. Len(s) - 1 /\ Len(s) \in Nat /\ NThreads \in Nat /\ Len(s) <= NThreads BY <1>0, <2>1
      <4> QED BY <4>1
    <3> QED BY <2>4, <2>5, <3>1, <3>2, ReadyQueueAssumption DEF Ends, ReadyQueueAssumption
  <2>7. f[x(j)] = f[x(j + 1)] BY <1>3, <1>4, <1>5, <2>1, <2>4, <2>5, <2>6
  <2> QED BY <1>7, <2>1, <2>3, <2>7
<1> QED BY <1>8, <1>9

LEMMA ListFits ==
  ASSUME NEW n \in Nat, NEW q, Fifo(q, n), Once(q), NEW l \in 0 .. n - 1
  PROVE  q[l] \in Seq(Threads) /\ Len(q[l]) \in Nat /\ Len(q[l]) <= NThreads
<1>1. q[l] \in Seq(Threads) /\ Len(q[l]) \in Nat /\ l \in DOMAIN q BY DEF Fifo
<1> DEFINE f == [i \in 1 .. Len(q[l]) |-> q[l][i]]
<1>2. f \in Injection(1 .. Len(q[l]), Threads)
  <2>1. \A i \in 1 .. Len(q[l]) : q[l][i] \in Threads BY <1>1
  <2>2. \A i, j \in 1 .. Len(q[l]) : q[l][i] = q[l][j] => i = j BY <1>1 DEF Once
  <2> QED BY <2>1, <2>2 DEF Injection, IsInjective
<1>3. Cardinality(1 .. Len(q[l])) <= NThreads
  BY <1>2, FS_Injection, ReadyQueueAssumption DEF ExistsInjection, ReadyQueueAssumption, NThreads
<1>4. Cardinality(1 .. Len(q[l])) = Len(q[l])
  <2>1. PICK k \in Nat : k = Len(q[l]) BY <1>1
  <2>2. Cardinality(1 .. k) = IF 1 > k THEN 0 ELSE k - 1 + 1 BY FS_Interval
  <2>3. Cardinality(1 .. k) = k BY <2>2
  <2> QED BY <2>1, <2>3
<1> QED BY <1>1, <1>3, <1>4

LEMMA ThreadsOfLists ==
  ASSUME NEW ls, NEW q, NEW n, Lists(ls, q, n), NEW l \in 0 .. n - 1
  PROVE  ThreadsOf(ls, l) = q[l]
<1>1. l \in AllLanes /\ ls \in Links /\ n \in Nat /\ Fifo(q, n) /\ Once(q) /\ Chain(ls, l, q[l])
  BY LaneIsThere, MaxLanesType DEF Lists
<1> DEFINE W(g) == g = [ts \in SeqOf(Threads, Cardinality(Threads)) |->
                          LET m == IF ts = <<>> THEN ls.anchor[l] ELSE ls.next[Last(ts)]
                          IN  IF m = NoThread \/ Len(ts) = Cardinality(Threads) THEN ts ELSE g[Append(ts, m)]]
           f == CHOOSE g : W(g)
<1>2. ThreadsOf(ls, l) = f[<<>>] BY DEF ThreadsOf
<1>3. \A g : W(g) <=> Walks(g, ls, l, 0)
  <2>1. \A x \in SeqOf(Threads, NThreads) : Len(x) >= 0 BY SeqOfSeq, NThreadsType
  <2>2. {x \in SeqOf(Threads, NThreads) : Len(x) >= 0} = SeqOf(Threads, NThreads) BY <2>1
  <2>3. TAKE g
  <2> DEFINE E(ts) == IF Ends(ls, l, ts) THEN ts ELSE g[Append(ts, Following(ls, l, ts))]
  <2>4. Walks(g, ls, l, 0) <=> g = [ts \in SeqOf(Threads, NThreads) |-> E(ts)] BY <2>2 DEF Walks
  <2>5. W(g) <=> g = [ts \in SeqOf(Threads, NThreads) |-> E(ts)] BY DEF Ends, Following, NThreads
  <2> HIDE DEF W
  <2> QED BY <2>4, <2>5
<1>4. \E g : W(g)
  <2> HIDE DEF W
  <2> QED BY <1>1, <1>3, WalkExists
<1>5. W(f)
  <2> HIDE DEF W
  <2> QED BY <1>4, Zenon
<1> HIDE DEF W, f
<1>6. q[l] \in Seq(Threads) /\ Len(q[l]) <= NThreads BY <1>1, ListFits
<1> QED BY <1>1, <1>2, <1>3, <1>5, <1>6, WalkValue

-----------------------------------------------------------------------------
(* The array is reallocated.                                               *)

Grown(q, m) == [l \in 0 .. m - 1 |-> IF l \in DOMAIN q THEN q[l] ELSE <<>>]
Kept(q, m) == [l \in 0 .. m - 1 |-> q[l]]

\* The threads of the lanes from m on.
Gone(q, m) == {t \in Threads : \E l \in DOMAIN q : l >= m /\ \E i \in 1 .. Len(q[l]) : q[l][i] = t}

LEMMA SetAllPrevs ==
  ASSUME NEW ls \in Links, NEW f \in [AllLanes -> Threads \cup MockHead]
  PROVE  LET k == [ls EXCEPT !.prev = f]
         IN  k \in Links /\ k.prev = f /\ k.anchor = ls.anchor /\ k.next = ls.next
BY DEF Links

LEMMA SetAllAnchors ==
  ASSUME NEW ls \in Links, NEW f \in [AllLanes -> Threads \cup {NoThread}]
  PROVE  LET k == [ls EXCEPT !.anchor = f]
         IN  k \in Links /\ k.anchor = f /\ k.prev = ls.prev /\ k.next = ls.next
BY DEF Links

LEMMA SetAllNexts ==
  ASSUME NEW ls \in Links, NEW f \in [Threads -> Threads \cup {NoThread}]
  PROVE  LET k == [ls EXCEPT !.next = f]
         IN  k \in Links /\ k.next = f /\ k.anchor = ls.anchor /\ k.prev = ls.prev
BY DEF Links

(* fix repairs the lanes that were moved, and new ones are empty. *)
LEMMA FixedLists ==
  ASSUME NEW ls, NEW q, NEW n, Lists(ls, q, n), NEW m \in n .. MaxLanes, count \in Nat, n <= count,
         NEW moved \in BOOLEAN
  PROVE  LET r == Grown(q, m)
         IN  Lists(Fixed(Reallocated(ls, m, moved), m), r, m) /\ Inside(r) = Inside(q)
<1> DEFINE z == Reallocated(ls, m, moved)
           k == Fixed(z, m)
           r == Grown(q, m)
           g == [l \in AllLanes |-> IF l >= MinOf(count, m) THEN "self"
                                    ELSE IF moved /\ ls.prev[l] = "self" THEN "stale" ELSE ls.prev[l]]
           f == [l \in AllLanes |-> IF l < m /\ IsEmpty(ls, l) THEN "self" ELSE g[l]]
<1>1. n \in Nat /\ n \in 0 .. MaxLanes /\ m \in 0 .. MaxLanes /\ m >= n /\ Fifo(q, n) /\ Once(q) /\ ls \in Links
  BY MaxLanesType DEF Lists
<1>2. z \in Links /\ z.prev = g /\ z.anchor = ls.anchor /\ z.next = ls.next
  <2>1. g \in [AllLanes -> Threads \cup MockHead] BY <1>1 DEF Links, MockHead
  <2>2. z = [ls EXCEPT !.prev = [l \in AllLanes |-> IF l >= MinOf(count, m) THEN "self"
                                  ELSE IF moved /\ @[l] = "self" THEN "stale" ELSE @[l]]]
    BY DEF Reallocated
  <2> HIDE DEF z
  <2>3. z = [ls EXCEPT !.prev = g] BY <2>2
  <2> HIDE DEF g
  <2> QED BY <1>1, <2>1, <2>3, SetAllPrevs
<1> HIDE DEF z
<1>3. f \in [AllLanes -> Threads \cup MockHead]
  <2>1. g \in [AllLanes -> Threads \cup MockHead] BY <1>2 DEF Links
  <2> HIDE DEF g
  <2> QED BY <2>1 DEF MockHead
<1>4. k \in Links /\ k.prev = f /\ k.anchor = ls.anchor /\ k.next = ls.next
  <2>1. k = [z EXCEPT !.prev = [l \in AllLanes |-> IF l < m /\ IsEmpty(z, l) THEN "self" ELSE @[l]]] BY DEF Fixed
  <2>2. \A l \in AllLanes : IsEmpty(z, l) <=> IsEmpty(ls, l) BY <1>2 DEF IsEmpty
  <2> HIDE DEF k, g
  <2>3. k = [z EXCEPT !.prev = f] BY <1>2, <2>1, <2>2
  <2> HIDE DEF f
  <2> QED BY <1>2, <1>3, <2>3, SetAllPrevs
<1> HIDE DEF k
<1>5. /\ DOMAIN q = 0 .. n - 1 /\ DOMAIN r = 0 .. m - 1
      /\ \A l \in 0 .. n - 1 : r[l] = q[l] /\ q[l] \in Seq(Threads)
      /\ \A l \in 0 .. m - 1 : l \notin 0 .. n - 1 => r[l] = <<>>
  <2>1. DOMAIN q = 0 .. n - 1 /\ \A l \in 0 .. n - 1 : q[l] \in Seq(Threads) BY <1>1 DEF Fifo
  <2>2. \A l \in 0 .. n - 1 : l \in 0 .. m - 1 BY <1>1
  <2>3. \A l \in 0 .. m - 1 : r[l] = IF l \in DOMAIN q THEN q[l] ELSE <<>> BY DEF Grown
  <2>4. DOMAIN r = 0 .. m - 1 BY DEF Grown
  <2> HIDE DEF r
  <2> QED BY <2>1, <2>2, <2>3, <2>4
<1>6. Fifo(r, m)
  <2>0. <<>> \in Seq(Threads) OBVIOUS
  <2>1. \A l \in 0 .. m - 1 : r[l] \in Seq(Threads) BY <1>5, <2>0
  <2>2. r = [l \in 0 .. m - 1 |-> r[l]] BY DEF Grown
  <2> HIDE DEF r
  <2> QED BY <2>1, <2>2 DEF Fifo
<1> HIDE DEF r
<1>7. \A l \in 0 .. m - 1 : \A i \in 1 .. Len(r[l]) : l \in 0 .. n - 1 /\ r[l] = q[l] BY <1>5
<1>8. Once(r)
  <2>1. ASSUME NEW a \in 0 .. n - 1, NEW b \in 0 .. n - 1, NEW i \in 1 .. Len(q[a]), NEW j \in 1 .. Len(q[b]),
               q[a][i] = q[b][j]
        PROVE  a = b /\ i = j
    <3>1. a \in DOMAIN q /\ b \in DOMAIN q BY <1>5
    <3> QED BY <1>1, <2>1, <3>1 DEF Once
  <2> QED BY <1>5, <1>7, <2>1 DEF Once
<1>9. Inside(r) = Inside(q)
  <2>1. \A l \in 0 .. n - 1 : l \in 0 .. m - 1 BY <1>1
  <2> QED BY <1>5, <1>7, <2>1 DEF Inside
<1>10. ASSUME NEW l \in 0 .. m - 1 PROVE Chain(k, l, r[l])
  <2>1. l \in AllLanes /\ l < m BY <1>1, LaneIsThere
  <2>2. CASE l \in 0 .. n - 1
    <3>1. Chain(ls, l, q[l]) /\ q[l] \in Seq(Threads) /\ r[l] = q[l] BY <1>5, <2>2 DEF Lists
    <3>2. CASE q[l] = <<>>
      <4>1. ls.anchor[l] = NoThread /\ ls.prev[l] = "self" BY <3>1, <3>2 DEF Chain
      <4>2. k.prev[l] = "self" BY <1>4, <2>1, <4>1 DEF IsEmpty
      <4>3. Len(q[l]) = 0 BY <3>2
      <4> QED BY <1>4, <3>1, <3>2, <4>1, <4>2, <4>3 DEF Chain
    <3>3. CASE q[l] # <<>>
      <4>1. 1 \in 1 .. Len(q[l]) /\ q[l][1] \in Threads BY <3>1, <3>3
      <4>2. ~IsEmpty(ls, l) BY <3>1, <3>3, <4>1, ReadyQueueAssumption DEF Chain, IsEmpty, ReadyQueueAssumption
      <4>3. Len(q[l]) \in 1 .. Len(q[l]) BY <4>1
      <4>4. ls.prev[l] \in Threads BY <3>1, <3>3, <4>3 DEF Chain
      <4>5. ls.prev[l] # "self" BY <4>4, ReadyQueueAssumption DEF ReadyQueueAssumption, MockHead
      <4>6. l < count /\ ~(l >= MinOf(count, m)) BY <1>1, <2>1, <2>2 DEF MinOf
      <4>7. k.prev[l] = ls.prev[l] BY <1>4, <2>1, <4>2, <4>5, <4>6
      <4> QED BY <1>4, <3>1, <4>7 DEF Chain
    <3> QED BY <3>2, <3>3
  <2>3. CASE l \notin 0 .. n - 1
    <3>1. r[l] = <<>> /\ Len(r[l]) = 0
      <4>1. Len(<<>>) = 0 OBVIOUS
      <4> QED BY <1>5, <2>3, <4>1
    <3>2. ls.anchor[l] = NoThread
      <4>1. l >= n BY <1>1, <2>3
      <4> QED BY <2>1, <4>1 DEF Lists
    <3>3. k.prev[l] = "self" BY <1>4, <2>1, <3>2 DEF IsEmpty
    <3> QED BY <1>4, <3>1, <3>2, <3>3 DEF Chain
  <2> QED BY <2>2, <2>3
<1>11. \A l \in AllLanes : l >= m => k.anchor[l] = NoThread
  <2>1. \A l \in AllLanes : l >= m => l >= n BY <1>1, MaxLanesType
  <2> QED BY <1>4, <2>1 DEF Lists
<1>12. \A u \in Threads \ Inside(r) : k.next[u] = NoThread BY <1>4, <1>9 DEF Lists
<1>13. Lists(k, r, m) BY <1>1, <1>4, <1>6, <1>8, <1>10, <1>11, <1>12 DEF Lists
<1> QED BY <1>9, <1>13 DEF z, k, r

(* The lanes from m on are emptied. *)
LEMMA EmptiedLists ==
  ASSUME NEW ls, NEW q, Lists(ls, q, count), NEW m \in 0 .. count
  PROVE  LET r == Kept(q, m)
         IN  /\ Lists(Emptied(ls, m), r, m)
             /\ Inside(r) \cap Gone(q, m) = {} /\ Inside(r) \cup Gone(q, m) = Inside(q)
<1> DEFINE k == Emptied(ls, m)
           r == Kept(q, m)
           a == [l \in AllLanes |-> IF l < m THEN ls.anchor[l] ELSE NoThread]
           f == [t \in Threads |-> IF t \in Gone(q, m) THEN NoThread ELSE ls.next[t]]
<1>1. count \in Nat /\ m \in 0 .. MaxLanes /\ m <= count /\ Fifo(q, count) /\ Once(q) /\ ls \in Links
  BY MaxLanesType DEF Lists
<1>2. a \in [AllLanes -> Threads \cup {NoThread}] /\ f \in [Threads -> Threads \cup {NoThread}]
  BY <1>1 DEF Links
<1>3. \A l \in Lanes : ThreadsOf(ls, l) = q[l] BY ThreadsOfLists DEF Lanes
<1>4. \A t \in Threads : (\E l \in Lanes : l >= m /\ t \in ToSet(ThreadsOf(ls, l))) <=> t \in Gone(q, m)
  <2>1. \A l \in Lanes : DOMAIN q[l] = 1 .. Len(q[l]) BY <1>1 DEF Fifo, Lanes
  <2>2. DOMAIN q = Lanes BY <1>1 DEF Fifo, Lanes
  <2> QED BY <1>3, <2>1, <2>2 DEF Gone, ToSet
<1>5. k = [[ls EXCEPT !.anchor = a] EXCEPT !.next = f]
  <2> DEFINE g == [t \in Threads |-> IF \E l \in Lanes : l >= m /\ t \in ToSet(ThreadsOf(ls, l))
                                     THEN NoThread ELSE ls.next[t]]
  <2>1. g = f BY <1>4, Zenon
  <2>2. k = [ls EXCEPT !.anchor = a, !.next = g] BY DEF Emptied
  <2> HIDE DEF a, g, f, k
  <2> QED BY <2>1, <2>2
<1>6. k \in Links /\ k.anchor = a /\ k.next = f /\ k.prev = ls.prev
  <2> DEFINE j == [ls EXCEPT !.anchor = a]
  <2> HIDE DEF a, f, k
  <2>1. j \in Links /\ j.anchor = a /\ j.prev = ls.prev /\ j.next = ls.next BY <1>1, <1>2, SetAllAnchors
  <2>2. k = [j EXCEPT !.next = f] BY <1>5
  <2> HIDE DEF j
  <2> QED BY <1>2, <2>1, <2>2, SetAllNexts
<1> HIDE DEF k
<1>7. /\ DOMAIN q = 0 .. count - 1 /\ DOMAIN r = 0 .. m - 1
      /\ \A l \in 0 .. m - 1 : l \in 0 .. count - 1 /\ r[l] = q[l] /\ q[l] \in Seq(Threads)
  <2>1. DOMAIN q = 0 .. count - 1 /\ \A l \in 0 .. count - 1 : q[l] \in Seq(Threads) BY <1>1 DEF Fifo
  <2>2. \A l \in 0 .. m - 1 : l \in 0 .. count - 1 BY <1>1
  <2>3. DOMAIN r = 0 .. m - 1 /\ \A l \in 0 .. m - 1 : r[l] = q[l] BY DEF Kept
  <2> HIDE DEF r
  <2> QED BY <2>1, <2>2, <2>3
<1>8. Fifo(r, m)
  <2>1. \A l \in 0 .. m - 1 : r[l] \in Seq(Threads) BY <1>7
  <2>2. r = [l \in 0 .. m - 1 |-> r[l]] BY DEF Kept
  <2> HIDE DEF r
  <2> QED BY <2>1, <2>2 DEF Fifo
<1> HIDE DEF r
<1>9. Once(r)
  <2>1. \A l \in DOMAIN r : l \in DOMAIN q /\ r[l] = q[l] BY <1>7
  <2> QED BY <1>1, <2>1 DEF Once
<1>10. Inside(r) \cap Gone(q, m) = {} /\ Inside(r) \cup Gone(q, m) = Inside(q)
  <2>1. ASSUME NEW u \in Inside(r) PROVE u \in Inside(q) \ Gone(q, m)
    <3>1. PICK l \in 0 .. m - 1 : \E i \in 1 .. Len(r[l]) : r[l][i] = u BY <1>7, <2>1 DEF Inside
    <3>2. PICK i \in 1 .. Len(q[l]) : q[l][i] = u BY <1>7, <3>1
    <3>3. ~(l >= m) /\ l \in DOMAIN q BY <1>1, <1>7
    <3> QED BY <1>1, <2>1, <3>2, <3>3 DEF Inside, Gone, Once
  <2>2. ASSUME NEW u \in Inside(q), u \notin Gone(q, m) PROVE u \in Inside(r)
    <3>1. PICK l \in 0 .. count - 1 : \E i \in 1 .. Len(q[l]) : q[l][i] = u BY <1>7, <2>2 DEF Inside
    <3>2. l \in 0 .. m - 1
      <4>1. ~(l >= m) BY <1>7, <2>2, <3>1 DEF Gone, Inside
      <4> QED BY <1>1, <4>1
    <3> QED BY <1>7, <2>2, <3>1, <3>2 DEF Inside
  <2>3. Gone(q, m) \subseteq Inside(q) BY DEF Gone, Inside
  <2> QED BY <2>1, <2>2, <2>3
<1>11. ASSUME NEW l \in 0 .. m - 1 PROVE Chain(k, l, r[l])
  <2>1. l \in AllLanes /\ l < m BY <1>1, LaneIsThere
  <2>2. Chain(ls, l, q[l]) /\ r[l] = q[l] /\ q[l] \in Seq(Threads) /\ l \in DOMAIN r BY <1>7 DEF Lists
  <2>3. \A i \in 1 .. Len(q[l]) : k.next[q[l][i]] = ls.next[q[l][i]]
    <3>1. \A i \in 1 .. Len(q[l]) : q[l][i] \in Inside(r) /\ q[l][i] \in Threads BY <2>2 DEF Inside
    <3> QED BY <1>6, <1>10, <3>1
  <2>4. Len(q[l]) \in Nat /\ (q[l] # <<>> => Len(q[l]) \in 1 .. Len(q[l])) BY <2>2
  <2>5. k.anchor[l] = ls.anchor[l] /\ k.prev[l] = ls.prev[l] BY <1>6, <2>1
  <2> QED BY <2>2, <2>3, <2>4, <2>5 DEF Chain
<1>12. \A l \in AllLanes : l >= m => k.anchor[l] = NoThread BY <1>1, <1>6, MaxLanesType
<1>13. \A u \in Threads \ Inside(r) : k.next[u] = NoThread BY <1>6, <1>10 DEF Lists
<1>14. Lists(k, r, m) BY <1>1, <1>6, <1>8, <1>9, <1>11, <1>12, <1>13 DEF Lists
<1> QED BY <1>10, <1>14 DEF k, r

-----------------------------------------------------------------------------
(* The threads of the lanes that go away are pushed again.                 *)

\* The lists of r begin with those of q.
Begins(q, r) ==
  \A l \in DOMAIN q : Len(q[l]) <= Len(r[l]) /\ \A i \in 1 .. Len(q[l]) : r[l][i] = q[l][i]

\* f has linked the first i threads of ts, for each i to k.
PushesTo(f, ls, ts, to, k) ==
  f = [i \in 0 .. k |-> IF i = 0 THEN ls ELSE Linked(f[i - 1], to[ts[i]], ts[i])]

\* What has been pushed of the first i threads of ts.
PushedLists(fi, q, ts, n, i) ==
  \E r : /\ Lists(fi, r, n) /\ Begins(q, r)
         /\ Inside(r) = Inside(q) \cup {ts[j] : j \in 1 .. i}

LEMMA PushesExist ==
  ASSUME NEW ls, NEW ts, NEW to, NEW n \in Nat
  PROVE  \E f : PushesTo(f, ls, ts, to, n)
<1> DEFINE T == {k \in Nat : ~ \E f : PushesTo(f, ls, ts, to, k)}
<1>1. SUFFICES ASSUME n \in T PROVE FALSE OBVIOUS
<1>2. PICK k \in T : \A j \in T : k <= j
  <2>1. T \in SUBSET Nat OBVIOUS
  <2> HIDE DEF T
  <2> QED BY <1>1, <2>1, Least
<1>3. CASE k = 0
  <2> DEFINE f == [i \in 0 .. 0 |-> ls]
  <2>1. PushesTo(f, ls, ts, to, 0) BY DEF PushesTo
  <2> QED BY <1>2, <1>3, <2>1
<1>4. CASE k # 0
  <2>1. k \in Nat /\ k - 1 \in Nat /\ k - 1 \notin T BY <1>2, <1>4
  <2>2. PICK f : PushesTo(f, ls, ts, to, k - 1) BY <2>1
  <2> DEFINE g == [i \in 0 .. k |-> IF i = 0 THEN ls ELSE Linked(f[i - 1], to[ts[i]], ts[i])]
  <2>3. ASSUME NEW i \in 0 .. k - 1 PROVE g[i] = f[i]
    <3>1. i \in 0 .. k BY <2>1
    <3>2. f[i] = IF i = 0 THEN ls ELSE Linked(f[i - 1], to[ts[i]], ts[i]) BY <2>2 DEF PushesTo
    <3> QED BY <3>1, <3>2
  <2>4. ASSUME NEW i \in 0 .. k PROVE g[i] = IF i = 0 THEN ls ELSE Linked(g[i - 1], to[ts[i]], ts[i])
    <3>1. i # 0 => i - 1 \in 0 .. k - 1 BY <2>1
    <3>2. i # 0 => g[i - 1] = f[i - 1] BY <2>3, <3>1
    <3>3. g[i] = IF i = 0 THEN ls ELSE Linked(f[i - 1], to[ts[i]], ts[i]) OBVIOUS
    <3> HIDE DEF g
    <3> QED BY <3>2, <3>3
  <2>5. g = [i \in 0 .. k |-> g[i]] OBVIOUS
  <2> HIDE DEF g
  <2>6. PushesTo(g, ls, ts, to, k) BY <2>4, <2>5 DEF PushesTo
  <2> QED BY <1>2, <2>6
<1> QED BY <1>3, <1>4

LEMMA PushesKeepLists ==
  ASSUME NEW ls, NEW q, NEW n, Lists(ls, q, n),
         NEW ts \in Seq(Threads), \A i, j \in 1 .. Len(ts) : ts[i] = ts[j] => i = j,
         \A i \in 1 .. Len(ts) : ts[i] \notin Inside(q),
         NEW to, \A i \in 1 .. Len(ts) : to[ts[i]] \in 0 .. n - 1,
         NEW f, PushesTo(f, ls, ts, to, Len(ts))
  PROVE  PushedLists(f[Len(ts)], q, ts, n, Len(ts))
<1> DEFINE T == {k \in 0 .. Len(ts) : ~ PushedLists(f[k], q, ts, n, k)}
<1>0. Len(ts) \in Nat /\ n \in Nat /\ Fifo(q, n) BY MaxLanesType DEF Lists
<1>1. SUFFICES ASSUME Len(ts) \in T PROVE FALSE BY <1>0
<1>2. PICK k \in T : \A j \in T : k <= j
  <2>1. T \in SUBSET Nat OBVIOUS
  <2> HIDE DEF T
  <2> QED BY <1>1, <2>1, Least
<1>3. k \in 0 .. Len(ts) /\ k \in Nat BY <1>0, <1>2
<1>4. CASE k = 0
  <2>1. f[k] = ls BY <1>3, <1>4 DEF PushesTo
  <2>2. Begins(q, q)
    <3>1. \A l \in DOMAIN q : Len(q[l]) \in Nat BY <1>0 DEF Fifo
    <3> QED BY <3>1 DEF Begins
  <2>3. {ts[j] : j \in 1 .. k} = {} BY <1>4
  <2>4. Inside(q) = Inside(q) \cup {ts[j] : j \in 1 .. k} BY <2>3
  <2>5. PushedLists(f[k], q, ts, n, k) BY <2>1, <2>2, <2>4 DEF PushedLists
  <2> QED BY <1>2, <2>5
<1>5. CASE k # 0
  <2>1. /\ k - 1 \in 0 .. Len(ts) /\ k \in 1 .. Len(ts) /\ f[k] = Linked(f[k - 1], to[ts[k]], ts[k])
        /\ k - 1 \notin T
    <3>1. k - 1 \in 0 .. Len(ts) /\ k \in 1 .. Len(ts) /\ ~(k <= k - 1) BY <1>0, <1>3, <1>5
    <3>2. f[k] = Linked(f[k - 1], to[ts[k]], ts[k]) BY <1>3, <1>5 DEF PushesTo
    <3> QED BY <1>2, <3>1, <3>2
  <2>2. PICK r : /\ Lists(f[k - 1], r, n) /\ Begins(q, r)
                 /\ Inside(r) = Inside(q) \cup {ts[j] : j \in 1 .. k - 1}
    BY <2>1 DEF PushedLists
  <2> DEFINE l == to[ts[k]]
             t == ts[k]
             s == Appended(r, l, t)
  <2>3. l \in 0 .. n - 1 /\ t \in Threads BY <2>1
  <2>4. t \notin Inside(r)
    <3>1. \A j \in 1 .. k - 1 : j \in 1 .. Len(ts) /\ j # k BY <1>0, <1>3
    <3>2. t \notin {ts[j] : j \in 1 .. k - 1} BY <2>1, <3>1
    <3> QED BY <2>1, <2>2, <3>2
  <2> HIDE DEF l, t, s
  <2>5. Lists(f[k], s, n) /\ Inside(s) = Inside(r) \cup {t}
    <3>1. f[k] = Linked(f[k - 1], l, t) BY <2>1 DEF l, t
    <3> QED BY <2>2, <2>3, <2>4, <3>1, LinkedLists DEF s
  <2>6. Begins(q, s)
    <3>1. Fifo(r, n) BY <2>2 DEF Lists
    <3>2. DOMAIN q = 0 .. n - 1 BY <1>0 DEF Fifo
    <3> SUFFICES ASSUME NEW m \in 0 .. n - 1
                 PROVE  Len(q[m]) <= Len(s[m]) /\ \A i \in 1 .. Len(q[m]) : s[m][i] = q[m][i]
      BY <3>2 DEF Begins
    <3>3. q[m] \in Seq(Threads) /\ r[m] \in Seq(Threads) BY <1>0, <3>1 DEF Fifo
    <3>4. Len(q[m]) <= Len(r[m]) /\ \A i \in 1 .. Len(q[m]) : r[m][i] = q[m][i] BY <2>2, <3>2 DEF Begins
    <3>5. s[m] = IF m = l THEN Append(r[m], t) ELSE r[m] BY <3>1 DEF Fifo, Appended, s
    <3>6. CASE m = l
      <4>1. s[m] = Append(r[m], t) BY <3>5, <3>6
      <4>2. Len(s[m]) = Len(r[m]) + 1 /\ \A i \in 1 .. Len(r[m]) : s[m][i] = r[m][i] BY <2>3, <3>3, <4>1
      <4>3. Len(q[m]) \in Nat /\ Len(r[m]) \in Nat BY <3>3
      <4> QED BY <3>4, <4>2, <4>3
    <3> QED BY <3>4, <3>5, <3>6
  <2>7. Inside(s) = Inside(q) \cup {ts[j] : j \in 1 .. k}
    <3>1. \A j : j \in 1 .. k <=> j \in 1 .. k - 1 \/ j = k BY <1>3, <1>5
    <3>2. {ts[j] : j \in 1 .. k} = {ts[j] : j \in 1 .. k - 1} \cup {t} BY <3>1 DEF t
    <3> QED BY <2>2, <2>5, <3>2
  <2>8. PushedLists(f[k], q, ts, n, k) BY <2>5, <2>6, <2>7 DEF PushedLists
  <2> QED BY <1>2, <2>8
<1> QED BY <1>4, <1>5

LEMMA RepushedLists ==
  ASSUME NEW ls, NEW q, NEW n, Lists(ls, q, n),
         NEW ts \in Seq(Threads), \A i, j \in 1 .. Len(ts) : ts[i] = ts[j] => i = j,
         \A i \in 1 .. Len(ts) : ts[i] \notin Inside(q),
         NEW to, \A i \in 1 .. Len(ts) : to[ts[i]] \in 0 .. n - 1
  PROVE  PushedLists(Repushed(ls, ts, to), q, ts, n, Len(ts))
<1> DEFINE f == CHOOSE g : PushesTo(g, ls, ts, to, Len(ts))
<1>1. Repushed(ls, ts, to) = f[Len(ts)] BY DEF Repushed, PushesTo
<1>2. \E g : PushesTo(g, ls, ts, to, Len(ts))
  <2>1. Len(ts) \in Nat OBVIOUS
  <2> QED BY <2>1, PushesExist
<1>3. PushesTo(f, ls, ts, to, Len(ts)) BY <1>2, Zenon
<1> HIDE DEF f
<1> QED BY <1>1, <1>3, PushesKeepLists

(* Two lanes or none go away. *)
LEMMA FlattenTwo ==
  ASSUME NEW S, NEW a \in Seq(S), NEW b \in Seq(S)
  PROVE  FlattenSeq(<<a, b>>) = a \o b
<1> DEFINE W(g) == g = [i \in 1 .. 2 |-> IF i = 1 THEN <<a, b>>[i] ELSE g[i - 1] \o <<a, b>>[i]]
           f == CHOOSE g : W(g)
           h == [i \in 1 .. 2 |-> IF i = 1 THEN a ELSE a \o b]
<1>1. FlattenSeq(<<a, b>>) = f[2]
  <2>1. Len(<<a, b>>) = 2 OBVIOUS
  <2> QED BY <2>1 DEF FlattenSeq
<1>2. W(h)
  <2>1. \A i \in 1 .. 2 : h[i] = IF i = 1 THEN <<a, b>>[i] ELSE h[i - 1] \o <<a, b>>[i]
    <3>1. TAKE i \in 1 .. 2
    <3>2. <<a, b>>[1] = a /\ <<a, b>>[2] = b OBVIOUS
    <3>3. h[1] = a /\ h[2] = a \o b OBVIOUS
    <3> HIDE DEF h
    <3>4. CASE i = 1 BY <3>2, <3>3, <3>4
    <3>5. CASE i = 2
      <4>1. i - 1 = 1 BY <3>5
      <4>2. h[i - 1] = a /\ <<a, b>>[i] = b /\ h[i] = a \o b BY <3>2, <3>3, <3>5, <4>1
      <4> QED BY <3>5, <4>2
    <3> QED BY <3>4, <3>5
  <2>2. h = [i \in 1 .. 2 |-> h[i]] OBVIOUS
  <2> HIDE DEF h
  <2> QED BY <2>1, <2>2
<1>3. W(f)
  <2> HIDE DEF W, h
  <2> QED BY <1>2, Zenon
<1>4. f[1] = a
  <2>1. <<a, b>>[1] = a OBVIOUS
  <2> HIDE DEF f
  <2>2. f[1] = <<a, b>>[1] BY <1>3
  <2> QED BY <2>1, <2>2
<1>5. f[2] = a \o b
  <2>1. <<a, b>>[2] = b /\ 2 - 1 = 1 OBVIOUS
  <2> HIDE DEF f
  <2>0. 2 \in 1 .. 2 /\ 2 # 1 OBVIOUS
  <2>2. f[2] = f[2 - 1] \o <<a, b>>[2] BY <1>3, <2>0
  <2>3. f[2 - 1] = f[1] BY <2>1
  <2> QED BY <1>4, <2>1, <2>2, <2>3
<1> HIDE DEF f
<1> QED BY <1>1, <1>5

LEMMA DisplacedThreads ==
  ASSUME NEW q, Lists(lanes, q, count), NEW m \in 0 .. count, count - m \in {0, 2}
  PROVE  /\ Displaced(m) \in Seq(Threads)
         /\ \A i, j \in 1 .. Len(Displaced(m)) : Displaced(m)[i] = Displaced(m)[j] => i = j
         /\ \A t : t \in Gone(q, m) <=> \E i \in 1 .. Len(Displaced(m)) : Displaced(m)[i] = t
<1> DEFINE ts == Displaced(m)
           seqs == [i \in 1 .. count - m |-> ThreadsOf(lanes, m + i - 1)]
<1>1. count \in Nat /\ m \in Nat /\ m <= count /\ Fifo(q, count) /\ Once(q) BY MaxLanesType DEF Lists
<1>2. ts = FlattenSeq(seqs) BY DEF Displaced
<1>3. CASE count - m = 0
  <2>1. seqs = <<>>
    <3>1. 1 .. count - m = {} BY <1>3
    <3> QED BY <3>1
  <2>2. ts = <<>>
    <3>1. Len(<<>>) = 0 OBVIOUS
    <3> HIDE DEF seqs
    <3>2. FlattenSeq(<<>>) = <<>> BY <3>1 DEF FlattenSeq
    <3> QED BY <1>2, <2>1, <3>2
  <2>3. Gone(q, m) = {}
    <3>1. \A l \in DOMAIN q : ~(l >= m) BY <1>1, <1>3 DEF Fifo
    <3> QED BY <3>1 DEF Gone
  <2> HIDE DEF ts
  <2> QED BY <2>2, <2>3 DEF ts
<1>4. CASE count - m = 2
  <2>1. m \in 0 .. count - 1 /\ m + 1 \in 0 .. count - 1 /\ \A l \in 0 .. count - 1 : l >= m => l = m \/ l = m + 1
    BY <1>1, <1>4
  <2>2. /\ q[m] \in Seq(Threads) /\ q[m + 1] \in Seq(Threads) /\ DOMAIN q = 0 .. count - 1
        /\ Len(q[m]) \in Nat /\ Len(q[m + 1]) \in Nat
    BY <1>1, <2>1 DEF Fifo
  <2>3. ThreadsOf(lanes, m) = q[m] /\ ThreadsOf(lanes, m + 1) = q[m + 1] BY <2>1, ThreadsOfLists
  <2>4. seqs = <<q[m], q[m + 1]>>
    <3>1. m + 1 - 1 = m /\ m + 2 - 1 = m + 1 BY <1>1
    <3>2. \A i \in 1 .. 2 : seqs[i] = <<q[m], q[m + 1]>>[i]
      <4>1. TAKE i \in 1 .. 2
      <4>2. seqs[i] = ThreadsOf(lanes, m + i - 1) BY <1>4
      <4> HIDE DEF seqs
      <4>3. CASE i = 1 BY <2>3, <3>1, <4>2, <4>3
      <4>4. CASE i = 2 BY <2>3, <3>1, <4>2, <4>4
      <4> QED BY <4>3, <4>4
    <3>3. seqs = [i \in 1 .. 2 |-> seqs[i]] BY <1>4
    <3> HIDE DEF seqs
    <3>4. <<q[m], q[m + 1]>> = [i \in 1 .. 2 |-> <<q[m], q[m + 1]>>[i]] OBVIOUS
    <3>5. [i \in 1 .. 2 |-> seqs[i]] = [i \in 1 .. 2 |-> <<q[m], q[m + 1]>>[i]] BY <3>2
    <3> QED BY <3>3, <3>4, <3>5
  <2>5. ts = q[m] \o q[m + 1]
    <3> HIDE DEF seqs, ts
    <3> QED BY <1>2, <2>2, <2>4, FlattenTwo
  <2> HIDE DEF ts, seqs
  <2> DEFINE a == Len(q[m])
             b == Len(q[m + 1])
  <2>6. /\ ts \in Seq(Threads) /\ Len(ts) = a + b
        /\ \A i \in 1 .. a : ts[i] = q[m][i]
        /\ \A i \in a + 1 .. a + b : ts[i] = q[m + 1][i - a]
    <3>1. PICK s \in Seq(Threads) : s = q[m] BY <2>2
    <3>2. PICK u \in Seq(Threads) : u = q[m + 1] BY <2>2
    <3>3. /\ s \o u \in Seq(Threads) /\ Len(s \o u) = Len(s) + Len(u)
          /\ \A i \in 1 .. Len(s) : (s \o u)[i] = s[i]
          /\ \A i \in Len(s) + 1 .. Len(s) + Len(u) : (s \o u)[i] = u[i - Len(s)]
      OBVIOUS
    <3> QED BY <2>5, <3>1, <3>2, <3>3
  <2>7. a \in Nat /\ b \in Nat BY <2>2
  <2> HIDE DEF a, b
  <2>8. ASSUME NEW i \in 1 .. a + b
        PROVE  \/ i \in 1 .. a /\ ts[i] = q[m][i]
               \/ i \notin 1 .. a /\ i - a \in 1 .. b /\ ts[i] = q[m + 1][i - a]
    <3>1. CASE i <= a BY <2>6, <2>7, <3>1
    <3>2. CASE i > a
      <4>1. i \in a + 1 .. a + b /\ i - a \in 1 .. b /\ i \notin 1 .. a BY <2>7, <3>2
      <4> QED BY <2>6, <4>1
    <3> QED BY <2>7, <3>1, <3>2
  <2>9. ASSUME NEW i \in 1 .. a + b, NEW j \in 1 .. a + b, ts[i] = ts[j]
        PROVE  i = j
    <3>0. m \in DOMAIN q /\ m + 1 \in DOMAIN q /\ m # m + 1 BY <1>1, <2>1, <2>2
    <3>1. \A x, y \in 1 .. a : q[m][x] = q[m][y] => x = y BY <1>1, <3>0 DEF Once, a
    <3>2. \A x, y \in 1 .. b : q[m + 1][x] = q[m + 1][y] => x = y BY <1>1, <3>0 DEF Once, b
    <3>3. \A x \in 1 .. a : \A y \in 1 .. b : q[m][x] # q[m + 1][y] BY <1>1, <3>0 DEF Once, a, b
    <3>4. CASE i \in 1 .. a /\ j \in 1 .. a BY <2>8, <2>9, <3>1, <3>4
    <3>5. CASE i \notin 1 .. a /\ j \notin 1 .. a
      <4>1. i - a \in 1 .. b /\ j - a \in 1 .. b /\ i - a = j - a BY <2>8, <2>9, <3>2, <3>5
      <4>2. i \in Int /\ j \in Int /\ a \in Int BY <2>7
      <4> QED BY <4>1, <4>2
    <3>6. CASE i \in 1 .. a /\ j \notin 1 .. a BY <2>8, <2>9, <3>3, <3>6
    <3>7. CASE i \notin 1 .. a /\ j \in 1 .. a BY <2>8, <2>9, <3>3, <3>7
    <3> QED BY <3>4, <3>5, <3>6, <3>7
  <2>10. ASSUME NEW t, t \in Gone(q, m) PROVE \E i \in 1 .. a + b : ts[i] = t
    <3>1. PICK l \in 0 .. count - 1 : l >= m /\ \E i \in 1 .. Len(q[l]) : q[l][i] = t BY <2>2, <2>10 DEF Gone
    <3>2. l = m \/ l = m + 1 BY <2>1, <3>1
    <3>3. CASE l = m
      <4>1. PICK i \in 1 .. a : q[m][i] = t BY <3>1, <3>3 DEF a
      <4>2. i \in 1 .. a + b /\ ts[i] = t BY <2>6, <2>7, <4>1
      <4> QED BY <4>2
    <3>4. CASE l = m + 1
      <4>1. PICK i \in 1 .. b : q[m + 1][i] = t BY <3>1, <3>4 DEF b
      <4>2. PICK j \in a + 1 .. a + b : j - a = i
        <5>1. a + i \in a + 1 .. a + b /\ (a + i) - a = i BY <2>7
        <5> QED BY <5>1
      <4>3. j \in 1 .. a + b /\ ts[j] = t BY <2>6, <2>7, <4>1, <4>2
      <4> QED BY <4>3
    <3> QED BY <3>2, <3>3, <3>4
  <2>11. ASSUME NEW i \in 1 .. a + b PROVE ts[i] \in Gone(q, m)
    <3>1. ts[i] \in Threads BY <2>6, <2>7
    <3>2. PICK l \in {m, m + 1} : \E j \in 1 .. Len(q[l]) : q[l][j] = ts[i] BY <2>8 DEF a, b
    <3>3. l \in DOMAIN q /\ l >= m BY <1>1, <2>1, <2>2
    <3> QED BY <3>1, <3>2, <3>3 DEF Gone
  <2> QED BY <2>6, <2>9, <2>10, <2>11 DEF ts
<1> QED BY <1>3, <1>4

-----------------------------------------------------------------------------
(* The inductive invariant.                                                *)

Locations == {"out", "push", "pushed", "try", "lock", "pop", "popped", "none"}

TypeOK ==
  /\ members \in SUBSET Procs /\ count = LaneCount(Cardinality(members))
  /\ locked \in [AllLanes -> BOOLEAN] /\ preferred \in [Threads -> Nat \cup {UINT_MAX}]
  /\ rdqid \in [Procs -> Nat]
  /\ pc \in [Procs -> Locations] /\ lane \in [Procs -> AllLanes]
  /\ left \in [Procs -> 0 .. MaxLanes] /\ thr \in [Procs -> Threads \cup {NoThread}]
  /\ queued \in SUBSET Threads /\ since \in [Procs -> SUBSET Threads]
  /\ contended \in [Procs -> BOOLEAN]

\* A processor works on a lane that exists, and has a thread for itself
\* between its push and the list, or between the list and its return.
OpInv ==
  /\ \A p \in Procs :
       /\ pc[p] \notin {"out", "none"} => lane[p] < count
       /\ pc[p] \in {"try", "lock", "pop"} => left[p] \in 1 .. count
       /\ pc[p] \in {"push", "popped"} <=> thr[p] # NoThread
       /\ thr[p] \notin queued /\ since[p] \subseteq queued
       /\ pc[p] = "out" => since[p] = {}
  /\ \A p, o \in Procs : thr[p] # NoThread /\ thr[o] = thr[p] => o = p

\* The lanes of the processors of the cluster are the slots from 0 on.
MemberInv ==
  /\ \A p \in members : \E i \in 0 .. Cardinality(members) - 1 : rdqid[p] = Shard * i
  /\ \A p, o \in members : rdqid[p] = rdqid[o] => p = o

Queues == [l \in Lanes |-> ThreadsOf(lanes, l)]

ListInv == Lists(lanes, Queues, count) /\ queued = Inside(Queues)

\* Every thread of S that is in q is in one of k lanes, in the order in which
\* a search that is at lane l, of n, visits them.
Found(q, n, l, k, S) ==
  \A m \in DOMAIN q : \A i \in 1 .. Len(q[m]) :
    q[m][i] \in S => (IF m >= l THEN m - l ELSE (m - l) + n) < k

\* A search that met no locked lane still has before it every thread that was
\* queued when it began and that nobody has popped.
SearchInv(q) ==
  \A p \in Procs : ~contended[p] =>
    /\ pc[p] \in {"try", "lock", "pop"} => Found(q, count, lane[p], left[p], since[p])
    /\ pc[p] = "none" => since[p] = {}

IInv == TypeOK /\ OpInv /\ MemberInv /\ ListInv /\ SearchInv(Queues)

LEMMA LaneCountType ==
  /\ \A n \in Nat : /\ LaneCount(n) \in Nat /\ LaneCount(n) >= 2 /\ LaneCount(n) >= 2 * n
                    /\ LaneCount(n + 1) - LaneCount(n) \in {0, 2}
  /\ \A m, n \in Nat : m <= n => LaneCount(m) <= LaneCount(n)
BY DEF LaneCount, MaxOf, Shard, SingleShard

LEMMA MembersType ==
  ASSUME NEW ms \in SUBSET Procs
  PROVE  /\ IsFiniteSet(ms) /\ Cardinality(ms) \in Nat /\ LaneCount(Cardinality(ms)) \in 2 .. MaxLanes
         /\ \A p \in Procs \ ms : /\ Cardinality(ms \cup {p}) = Cardinality(ms) + 1
                                  /\ LaneCount(Cardinality(ms \cup {p})) \in 2 .. MaxLanes
<1>1. IsFiniteSet(Procs) BY ReadyQueueAssumption DEF ReadyQueueAssumption
<1>2. \A xs \in SUBSET Procs : LaneCount(Cardinality(xs)) \in 2 .. MaxLanes
  <2>1. TAKE xs \in SUBSET Procs
  <2>2. IsFiniteSet(xs) /\ Cardinality(xs) <= Cardinality(Procs) BY <1>1, FS_Subset
  <2>3. Cardinality(xs) \in Nat /\ Cardinality(Procs) \in Nat BY <1>1, <2>2, FS_CardinalityType
  <2> QED BY <2>2, <2>3, LaneCountType DEF MaxLanes
<1>3. IsFiniteSet(ms) BY <1>1, FS_Subset
<1>4. Cardinality(ms) \in Nat BY <1>3, FS_CardinalityType
<1>5. ASSUME NEW p \in Procs \ ms
      PROVE  Cardinality(ms \cup {p}) = Cardinality(ms) + 1 /\ ms \cup {p} \in SUBSET Procs
  BY <1>3, FS_AddElement
<1> QED BY <1>2, <1>3, <1>4, <1>5

LEMMA CountType == TypeOK => count \in 2 .. MaxLanes /\ count \in Nat
BY MembersType, MaxLanesType DEF TypeOK

(* The lists that the links form are the queues. *)
LEMMA ListsAreQueues ==
  ASSUME NEW ls, NEW q, NEW n, Lists(ls, q, n)
  PROVE  [l \in 0 .. n - 1 |-> ThreadsOf(ls, l)] = q
<1>1. Fifo(q, n) BY DEF Lists
<1>2. q = [l \in 0 .. n - 1 |-> q[l]] BY <1>1 DEF Fifo
<1>3. \A l \in 0 .. n - 1 : ThreadsOf(ls, l) = q[l] BY ThreadsOfLists
<1> QED BY <1>2, <1>3

LEMMA InitInv == Init => IInv
<1> SUFFICES ASSUME Init PROVE IInv OBVIOUS
<1>1. Cardinality({}) = 0 /\ LaneCount(0) = 2 BY FS_EmptySet DEF LaneCount, MaxOf, Shard, SingleShard
<1>2. 0 \in AllLanes /\ 0 \in 0 .. MaxLanes /\ count = 2 /\ 2 \in 0 .. MaxLanes BY <1>1, MaxLanesType DEF Init
<1>3. TypeOK BY <1>1, <1>2 DEF Init, TypeOK, Locations
<1>4. OpInv BY <1>2, ReadyQueueAssumption DEF Init, OpInv, ReadyQueueAssumption
<1>5. MemberInv BY DEF Init, MemberInv
<1> DEFINE q == [l \in 0 .. 1 |-> <<>>]
<1>6. Lists(lanes, q, count) /\ Inside(q) = {}
  <2>1. lanes \in Links
    <3>1. /\ [l \in AllLanes |-> NoThread] \in [AllLanes -> Threads \cup {NoThread}]
          /\ [l \in AllLanes |-> "self"] \in [AllLanes -> Threads \cup MockHead]
          /\ [t \in Threads |-> NoThread] \in [Threads -> Threads \cup {NoThread}]
      BY DEF MockHead
    <3> QED BY <3>1 DEF Init, Links
  <2>2. /\ lanes.anchor = [l \in AllLanes |-> NoThread] /\ lanes.prev = [l \in AllLanes |-> "self"]
        /\ lanes.next = [t \in Threads |-> NoThread]
    BY DEF Init
  <2>3. Fifo(q, 2)
    <3>1. <<>> \in Seq(Threads) /\ 0 .. 1 = 0 .. 2 - 1 OBVIOUS
    <3> QED BY <3>1 DEF Fifo
  <2>4. \A l \in DOMAIN q : q[l] = <<>> /\ Len(q[l]) = 0
    <3>1. Len(<<>>) = 0 OBVIOUS
    <3> QED BY <3>1
  <2>5. DOMAIN q = 0 .. 2 - 1 OBVIOUS
  <2> HIDE DEF q
  <2>6. Once(q) /\ Inside(q) = {} BY <2>4 DEF Once, Inside
  <2>7. ASSUME NEW l \in 0 .. 2 - 1 PROVE Chain(lanes, l, q[l])
    <3>1. l \in AllLanes BY <1>2, LaneIsThere
    <3> QED BY <2>2, <2>4, <2>5, <3>1 DEF Chain
  <2> QED BY <1>2, <2>1, <2>2, <2>3, <2>6, <2>7 DEF Lists
<1>7. Queues = q BY <1>6, ListsAreQueues DEF Queues, Lanes
<1>8. ListInv BY <1>6, <1>7 DEF ListInv, Init
<1>9. SearchInv(Queues) BY DEF SearchInv, Init
<1> QED BY <1>3, <1>4, <1>5, <1>8, <1>9 DEF IInv

-----------------------------------------------------------------------------
(* What each step does to the queues.                                      *)

LEMMA PushLinkQueues ==
  ASSUME IInv, NEW p \in Procs, PushLink(p)
  PROVE  /\ lane[p] \in Lanes /\ thr[p] \in Threads /\ thr[p] \notin Inside(Queues)
         /\ Queues' = Appended(Queues, lane[p], thr[p]) /\ ListInv'
<1>1. /\ pc[p] = "push" /\ count' = count /\ lanes' = Linked(lanes, lane[p], thr[p])
      /\ queued' = queued \cup {thr[p]}
  BY DEF PushLink, queueVars
<1>2. lane[p] \in Lanes /\ thr[p] \in Threads /\ thr[p] \notin queued
  <2>1. /\ lane[p] \in AllLanes /\ count \in Nat /\ thr[p] \in Threads \cup {NoThread}
        /\ lane[p] < count /\ thr[p] # NoThread /\ thr[p] \notin queued
    BY <1>1, CountType DEF IInv, TypeOK, OpInv
  <2> QED BY <2>1, MaxLanesType DEF Lanes
<1> DEFINE l == lane[p]
           t == thr[p]
<1>3. PICK q : q = Queues OBVIOUS
<1>4. Lists(lanes, q, count) /\ queued = Inside(q) BY <1>3 DEF IInv, ListInv
<1>5. PICK r : r = Appended(q, l, t) OBVIOUS
<1>6. Lists(Linked(lanes, l, t), r, count) /\ Inside(r) = Inside(q) \cup {t}
  <2>1. l \in 0 .. count - 1 /\ t \in Threads /\ t \notin Inside(q) BY <1>2, <1>4 DEF Lanes
  <2> HIDE DEF l, t
  <2> QED BY <1>4, <1>5, <2>1, LinkedLists
<1>7. Lists(lanes', r, count') /\ queued' = Inside(r) BY <1>1, <1>4, <1>6
<1>8. Queues' = r
  <2>1. [m \in 0 .. count' - 1 |-> ThreadsOf(lanes', m)] = r BY <1>7, ListsAreQueues
  <2> QED BY <2>1 DEF Queues, Lanes
<1>9. ListInv' BY <1>7, <1>8 DEF ListInv
<1> QED BY <1>2, <1>3, <1>4, <1>5, <1>8, <1>9

LEMMA PopQueues ==
  ASSUME IInv, NEW p \in Procs, Pop(p)
  PROVE  /\ lane[p] \in Lanes /\ Queues[lane[p]] # <<>>
         /\ lanes.anchor[lane[p]] = Queues[lane[p]][1] /\ lanes.anchor[lane[p]] \in Threads
         /\ lanes.anchor[lane[p]] \in Inside(Queues)
         /\ Queues' = Shortened(Queues, lane[p]) /\ ListInv'
<1> DEFINE l == lane[p]
           t == lanes.anchor[l]
<1>1. /\ pc[p] = "pop" /\ count' = count /\ lanes' = Unlinked(lanes, l) /\ ~IsEmpty(lanes, l)
      /\ queued' = queued \ {t}
  BY DEF Pop, queueVars
<1>2. l \in Lanes
  <2>1. l \in AllLanes /\ count \in Nat /\ l < count BY <1>1, CountType DEF IInv, TypeOK, OpInv
  <2> QED BY <2>1, MaxLanesType DEF Lanes
<1>3. PICK q : q = Queues OBVIOUS
<1>4. Lists(lanes, q, count) /\ queued = Inside(q) BY <1>3 DEF IInv, ListInv
<1>5. l \in 0 .. count - 1 BY <1>2 DEF Lanes
<1>6. q[l] # <<>> /\ t = q[l][1]
  <2>1. Chain(lanes, l, q[l]) BY <1>4, <1>5 DEF Lists
  <2> QED BY <1>1, <2>1 DEF Chain, IsEmpty
<1>7. t \in Threads /\ t \in Inside(q)
  <2>1. q[l] \in Seq(Threads) /\ l \in DOMAIN q BY <1>4, <1>5 DEF Lists, Fifo
  <2>2. 1 \in 1 .. Len(q[l]) /\ q[l][1] \in Threads BY <1>6, <2>1
  <2> QED BY <1>6, <2>1, <2>2 DEF Inside
<1>8. PICK r : r = Shortened(q, l) OBVIOUS
<1> HIDE DEF l
<1>9. Lists(Unlinked(lanes, l), r, count) /\ Inside(r) = Inside(q) \ {t}
  BY <1>4, <1>5, <1>6, <1>8, UnlinkedLists
<1>10. Lists(lanes', r, count') /\ queued' = Inside(r) BY <1>1, <1>4, <1>9
<1>11. Queues' = r
  <2>1. [m \in 0 .. count' - 1 |-> ThreadsOf(lanes', m)] = r BY <1>10, ListsAreQueues
  <2> QED BY <2>1 DEF Queues, Lanes
<1>12. ListInv' BY <1>10, <1>11 DEF ListInv
<1> QED BY <1>2, <1>3, <1>6, <1>7, <1>8, <1>11, <1>12 DEF l

LEMMA JoinQueues ==
  ASSUME IInv, NEW p \in Procs, Join(p)
  PROVE  /\ count' \in count .. MaxLanes /\ Queues' = Grown(Queues, count')
         /\ Inside(Queues') = Inside(Queues) /\ ListInv'
<1>1. /\ count' = LaneCount(Cardinality(members \cup {p})) /\ p \in Procs \ members /\ queued' = queued
      /\ IF count' = count THEN lanes' = lanes
         ELSE \E moved \in BOOLEAN : lanes' = Fixed(Reallocated(lanes, count', moved), count')
  BY DEF Join, history
<1>2. count' \in count .. MaxLanes /\ count \in Nat
  <2>1. members \in SUBSET Procs /\ count = LaneCount(Cardinality(members)) BY DEF IInv, TypeOK
  <2>2. Cardinality(members) \in Nat /\ Cardinality(members \cup {p}) = Cardinality(members) + 1
        /\ count' \in 2 .. MaxLanes
    BY <1>1, <2>1, MembersType
  <2>3. count' - count \in {0, 2} /\ count \in Nat BY <1>1, <2>1, <2>2, LaneCountType
  <2>4. PICK c \in 2 .. MaxLanes : c = count' BY <2>2
  <2>5. PICK d \in Nat : d = count BY <2>3
  <2>6. c - d \in {0, 2} /\ MaxLanes \in Nat BY <2>3, <2>4, <2>5, MaxLanesType
  <2>7. c \in d .. MaxLanes BY <2>6
  <2> QED BY <2>4, <2>5, <2>7
<1>3. PICK q : q = Queues OBVIOUS
<1>4. Lists(lanes, q, count) /\ queued = Inside(q) BY <1>3 DEF IInv, ListInv
<1>5. PICK r : r = Grown(q, count') OBVIOUS
<1>6. Lists(lanes', r, count') /\ Inside(r) = Inside(q)
  <2>1. CASE count' = count
    <3>1. r = q
      <4>1. DOMAIN q = 0 .. count - 1 /\ q = [l \in 0 .. count - 1 |-> q[l]] BY <1>4 DEF Lists, Fifo
      <4>2. r = [l \in 0 .. count - 1 |-> IF l \in DOMAIN q THEN q[l] ELSE <<>>] BY <1>5, <2>1 DEF Grown
      <4>3. [l \in 0 .. count - 1 |-> IF l \in DOMAIN q THEN q[l] ELSE <<>>] = [l \in 0 .. count - 1 |-> q[l]]
        BY <4>1
      <4> QED BY <4>1, <4>2, <4>3
    <3> QED BY <1>1, <1>4, <2>1, <3>1
  <2>2. CASE count' # count
    <3>1. PICK n \in count .. MaxLanes : n = count' BY <1>2
    <3>2. PICK moved \in BOOLEAN : lanes' = Fixed(Reallocated(lanes, n, moved), n) BY <1>1, <2>2, <3>1
    <3>3. count <= count /\ count \in Nat BY <1>2
    <3>4. Lists(Fixed(Reallocated(lanes, n, moved), n), Grown(q, n), n) /\ Inside(Grown(q, n)) = Inside(q)
      BY <1>4, <3>3, FixedLists
    <3> QED BY <1>5, <3>1, <3>2, <3>4
  <2> QED BY <2>1, <2>2
<1>7. Queues' = r
  <2>1. [m \in 0 .. count' - 1 |-> ThreadsOf(lanes', m)] = r BY <1>6, ListsAreQueues
  <2> QED BY <2>1 DEF Queues, Lanes
<1>8. ListInv' BY <1>1, <1>4, <1>6, <1>7 DEF ListInv
<1> QED BY <1>2, <1>3, <1>5, <1>6, <1>7, <1>8

LEMMA LeaveQueues ==
  ASSUME IInv, NEW p \in Procs, Leave(p)
  PROVE  /\ count' \in 2 .. count /\ Begins(Kept(Queues, count'), Queues')
         /\ Inside(Queues') = Inside(Queues) /\ ListInv'
<1>1. /\ count' = LaneCount(Cardinality(members \ {p})) /\ p \in members /\ queued' = queued
      /\ \E to \in [ToSet(Displaced(count')) -> 0 .. count' - 1], moved \in BOOLEAN :
           lanes' = Fixed(Reallocated(Repushed(Emptied(lanes, count'), Displaced(count'), to), count', moved), count')
  BY DEF Leave, history
<1>2. count' \in 2 .. count /\ count \in 2 .. MaxLanes /\ count - count' \in {0, 2}
  <2>1. members \in SUBSET Procs /\ count = LaneCount(Cardinality(members)) /\ count \in 2 .. MaxLanes
    BY CountType DEF IInv, TypeOK
  <2>2. members \ {p} \in SUBSET Procs /\ p \in Procs \ (members \ {p}) /\ (members \ {p}) \cup {p} = members
    BY <1>1, <2>1
  <2>3. Cardinality(members \ {p}) \in Nat /\ Cardinality(members) = Cardinality(members \ {p}) + 1
        /\ count' \in 2 .. MaxLanes
    BY <1>1, <2>2, MembersType
  <2>4. count - count' \in {0, 2} BY <1>1, <2>1, <2>3, LaneCountType
  <2> QED BY <2>1, <2>3, <2>4, MaxLanesType
<1>3. PICK q : q = Queues OBVIOUS
<1>4. Lists(lanes, q, count) /\ queued = Inside(q) BY <1>3 DEF IInv, ListInv
<1>5. PICK n \in 0 .. count : n = count' BY <1>2
<1> DEFINE ts == Displaced(n)
           ls == Emptied(lanes, n)
           r == Kept(q, n)
<1>6. n \in Nat /\ n \in n .. MaxLanes BY <1>2, <1>5, MaxLanesType
<1>7. Lists(ls, r, n) /\ Inside(r) \cap Gone(q, n) = {} /\ Inside(r) \cup Gone(q, n) = Inside(q)
  BY <1>4, EmptiedLists
<1>8. /\ ts \in Seq(Threads)
      /\ \A i, j \in 1 .. Len(ts) : ts[i] = ts[j] => i = j
      /\ \A t : t \in Gone(q, n) <=> \E i \in 1 .. Len(ts) : ts[i] = t
  <2>1. count - n \in {0, 2} BY <1>2, <1>5
  <2>2. Lists(lanes, q, count) BY <1>4
  <2> QED BY <2>1, <2>2, DisplacedThreads
<1>9. PICK to \in [ToSet(ts) -> 0 .. n - 1], moved \in BOOLEAN :
        lanes' = Fixed(Reallocated(Repushed(ls, ts, to), n, moved), n)
  BY <1>1, <1>5
<1> HIDE DEF ts, ls, r
<1>10. PICK s : Lists(Repushed(ls, ts, to), s, n) /\ Begins(r, s) /\ Inside(s) = Inside(q)
  <2>1. \A i \in 1 .. Len(ts) : ts[i] \notin Inside(r) BY <1>7, <1>8
  <2>2. \A i \in 1 .. Len(ts) : to[ts[i]] \in 0 .. n - 1
    <3>1. \A i \in 1 .. Len(ts) : ts[i] \in ToSet(ts) BY <1>8 DEF ToSet
    <3> QED BY <1>9, <3>1
  <2>3. PushedLists(Repushed(ls, ts, to), r, ts, n, Len(ts)) BY <1>7, <1>8, <2>1, <2>2, RepushedLists
  <2>4. PICK s : /\ Lists(Repushed(ls, ts, to), s, n) /\ Begins(r, s)
                 /\ Inside(s) = Inside(r) \cup {ts[j] : j \in 1 .. Len(ts)}
    BY <2>3 DEF PushedLists
  <2>5. {ts[j] : j \in 1 .. Len(ts)} = Gone(q, n) BY <1>8
  <2> QED BY <1>7, <2>4, <2>5
<1>11. Lists(lanes', s, n)
  <2>0. n <= count /\ count \in Nat BY <1>2, <1>5
  <2>1. Lists(Fixed(Reallocated(Repushed(ls, ts, to), n, moved), n), Grown(s, n), n)
    BY <1>6, <1>10, <2>0, FixedLists
  <2>2. Grown(s, n) = s
    <3>1. DOMAIN s = 0 .. n - 1 /\ s = [l \in 0 .. n - 1 |-> s[l]] BY <1>10 DEF Lists, Fifo
    <3>2. Grown(s, n) = [l \in 0 .. n - 1 |-> IF l \in DOMAIN s THEN s[l] ELSE <<>>] BY DEF Grown
    <3>3. [l \in 0 .. n - 1 |-> IF l \in DOMAIN s THEN s[l] ELSE <<>>] = [l \in 0 .. n - 1 |-> s[l]] BY <3>1
    <3> QED BY <3>1, <3>2, <3>3
  <2> QED BY <1>9, <2>1, <2>2
<1>12. Queues' = s
  <2>1. [m \in 0 .. n - 1 |-> ThreadsOf(lanes', m)] = s BY <1>11, ListsAreQueues
  <2> QED BY <1>5, <2>1 DEF Queues, Lanes
<1>13. ListInv' BY <1>1, <1>4, <1>5, <1>10, <1>11, <1>12 DEF ListInv
<1> QED BY <1>2, <1>3, <1>5, <1>10, <1>12, <1>13 DEF r

LEMMA OtherQueues ==
  ASSUME IInv, UNCHANGED <<lanes, count, queued>>
  PROVE  Queues' = Queues /\ ListInv'
<1>1. Queues' = Queues BY DEF Queues, Lanes
<1> QED BY <1>1 DEF IInv, ListInv

-----------------------------------------------------------------------------
(* Each step keeps the invariant.                                          *)

LEMMA NextOfLane ==
  ASSUME NEW c \in Nat, NEW a \in 0 .. c - 1
  PROVE  (a + 1) % c = IF a + 1 = c THEN 0 ELSE a + 1
<1>1. CASE a + 1 = c
  <2>1. c % c = 0 OBVIOUS
  <2> QED BY <1>1, <2>1
<1>2. CASE a + 1 # c
  <2>1. a + 1 \in 0 .. c - 1 BY <1>2
  <2> QED BY <1>2, <2>1
<1> QED BY <1>1, <1>2

LEMMA NextLaneType ==
  ASSUME IInv, NEW p \in Procs, pc[p] \in {"try", "lock", "pop"}, NextLane(p)
  PROVE  /\ lane[p] \in 0 .. count - 1 /\ left[p] \in 1 .. count /\ count \in Nat
         /\ pc' = [pc EXCEPT ![p] = IF left[p] = 1 THEN "none" ELSE "try"]
         /\ \E l \in 0 .. count - 1 :
              /\ lane' = [lane EXCEPT ![p] = l]
              /\ left[p] # 1 => l = IF lane[p] + 1 = count THEN 0 ELSE lane[p] + 1
         /\ \E k \in 0 .. count - 1 : left' = [left EXCEPT ![p] = k] /\ k = left[p] - 1
<1>1. lane[p] \in 0 .. count - 1 /\ left[p] \in 1 .. count /\ count \in Nat /\ count >= 2
  <2>1. lane[p] \in AllLanes /\ lane[p] < count /\ left[p] \in 1 .. count BY DEF IInv, TypeOK, OpInv
  <2>2. count \in 2 .. MaxLanes BY CountType DEF IInv
  <2> QED BY <2>1, <2>2, MaxLanesType
<1> DEFINE l == IF left[p] = 1 THEN 0 ELSE (lane[p] + 1) % count
<1>2. lane' = [lane EXCEPT ![p] = l] BY DEF NextLane
<1>3. (lane[p] + 1) % count = IF lane[p] + 1 = count THEN 0 ELSE lane[p] + 1 BY <1>1, NextOfLane
<1>4. l \in 0 .. count - 1 BY <1>1, <1>3
<1>5. left' = [left EXCEPT ![p] = left[p] - 1] /\ left[p] - 1 \in 0 .. count - 1 BY <1>1 DEF NextLane
<1>6. pc' = [pc EXCEPT ![p] = IF left[p] = 1 THEN "none" ELSE "try"] BY DEF NextLane
<1>7. left[p] # 1 => l = IF lane[p] + 1 = count THEN 0 ELSE lane[p] + 1 BY <1>3
<1> HIDE DEF l
<1> QED BY <1>1, <1>2, <1>4, <1>5, <1>6, <1>7

LEMMA LaneOfCount == ASSUME TypeOK, NEW l \in 0 .. count - 1 PROVE l \in AllLanes
BY CountType, MaxLanesType

LEMMA SlotsType ==
  ASSUME TypeOK, MemberInv, NEW p \in members
  PROVE  SlotLanes(rdqid[p]) \subseteq 0 .. count - 1 /\ rdqid[p] + Shard <= count /\ rdqid[p] \in Nat
<1>1. members \in SUBSET Procs /\ count = LaneCount(Cardinality(members)) BY DEF TypeOK
<1>2. Cardinality(members) \in Nat BY <1>1, MembersType
<1>3. PICK i \in 0 .. Cardinality(members) - 1 : rdqid[p] = Shard * i BY DEF MemberInv
<1>4. count \in Nat /\ count >= 2 * Cardinality(members) BY <1>1, <1>2, LaneCountType
<1>5. rdqid[p] \in Nat /\ rdqid[p] + 2 <= count BY <1>2, <1>3, <1>4 DEF Shard
<1> QED BY <1>4, <1>5 DEF SlotLanes, Shard

\* A preferred slot that still exists has all of its lanes, also when no
\* processor is in the cluster any more.
LEMMA RemoteType ==
  ASSUME IInv, NEW t \in Threads
  PROVE  RemoteLanes(t) \subseteq 0 .. count - 1
<1>1. preferred[t] \in Nat \cup {UINT_MAX} /\ count \in Nat /\ members \in SUBSET Procs
      /\ count = LaneCount(Cardinality(members))
  BY CountType DEF IInv, TypeOK
<1>2. CASE preferred[t] # UINT_MAX /\ preferred[t] * Shard < count
  <2>1. preferred[t] \in Nat /\ Cardinality(members) \in Nat BY <1>1, <1>2, MembersType
  <2>2. count = 2 * Cardinality(members) \/ count = 2
    BY <1>1, <2>1 DEF LaneCount, MaxOf, Shard, SingleShard
  <2>3. preferred[t] * 2 + 2 <= count BY <1>2, <2>1, <2>2 DEF Shard
  <2> QED BY <1>1, <1>2, <2>1, <2>3 DEF RemoteLanes, SlotLanes, Shard
<1>3. CASE ~(preferred[t] # UINT_MAX /\ preferred[t] * Shard < count) BY <1>3 DEF RemoteLanes, Lanes
<1> QED BY <1>2, <1>3

LEMMA ReassignedType ==
  ASSUME NEW ms \in SUBSET Procs, Reassigned(ms)
  PROVE  /\ rdqid' \in [Procs -> Nat]
         /\ \A p \in ms : \E i \in 0 .. Cardinality(ms) - 1 : rdqid'[p] = Shard * i
         /\ \A p, o \in ms : rdqid'[p] = rdqid'[o] => p = o
<1>1. Cardinality(ms) \in Nat BY MembersType
<1>2. PICK f \in [ms -> {Shard * i : i \in 0 .. Cardinality(ms) - 1}] :
        IsInjective(f) /\ rdqid' = [p \in Procs |-> IF p \in ms THEN f[p] ELSE 0]
  BY DEF Reassigned
<1>3. \A p \in ms : \E i \in 0 .. Cardinality(ms) - 1 : f[p] = Shard * i BY <1>2
<1>4. \A p \in ms : f[p] \in Nat BY <1>1, <1>3 DEF Shard
<1>5. rdqid' \in [Procs -> Nat] BY <1>2, <1>4
<1>6. \A p \in ms : rdqid'[p] = f[p] BY <1>2
<1>7. \A p, o \in ms : f[p] = f[o] => p = o BY <1>2 DEF IsInjective
<1> QED BY <1>3, <1>5, <1>6, <1>7

LEMMA ReturnType ==
  ASSUME TypeOK, NEW p \in Procs, Return(p)
  PROVE  /\ pc' \in [Procs -> Locations] /\ lane' \in [Procs -> AllLanes] /\ left' \in [Procs -> 0 .. MaxLanes]
         /\ thr' \in [Procs -> Threads \cup {NoThread}] /\ since' \in [Procs -> SUBSET Threads]
         /\ contended' \in [Procs -> BOOLEAN]
<1>1. 0 \in AllLanes /\ 0 \in 0 .. MaxLanes /\ "out" \in Locations BY MaxLanesType DEF Locations
<1> QED BY <1>1 DEF Return, TypeOK

LEMMA TypeStep ==
  ASSUME IInv, NEW p \in Procs,
         \/ \E t \in Threads : PushStart(p, t)
         \/ PushLink(p) \/ PushUnlock(p)
         \/ PopStart(p) \/ SearchStart(p) \/ TryEmpty(p) \/ TryLock(p)
         \/ PopEmpty(p) \/ Pop(p) \/ PopUnlock(p) \/ ReturnNone(p)
         \/ Join(p) \/ Leave(p)
  PROVE  TypeOK'
<1>1. TypeOK /\ MemberInv BY DEF IInv
<1>2. count \in 2 .. MaxLanes /\ MaxLanes \in Nat /\ 1 \in 0 .. MaxLanes /\ count \in 0 .. MaxLanes
  BY <1>1, CountType, MaxLanesType
<1>3. ASSUME NEW t \in Threads, PushStart(p, t) PROVE TypeOK'
  <2>1. PICK l \in RemoteLanes(t) \cup (IF p \in members THEN SlotLanes(rdqid[p]) ELSE {}) :
          locked' = [locked EXCEPT ![l] = TRUE] /\ lane' = [lane EXCEPT ![p] = l]
    BY <1>3 DEF PushStart
  <2>2. l \in AllLanes BY <1>1, RemoteType, SlotsType, LaneOfCount
  <2> QED BY <1>1, <1>3, <2>1, <2>2 DEF PushStart, TypeOK, queueVars, history, Locations
<1>4. CASE PushLink(p)
  <2>1. thr[p] \in Threads BY <1>4, PushLinkQueues
  <2> QED BY <1>1, <1>4, <2>1 DEF PushLink, TypeOK, queueVars, Locations
<1>5. CASE PushUnlock(p) BY <1>1, <1>5, ReturnType DEF PushUnlock, TypeOK, queueVars
<1>6. CASE PopStart(p)
  <2>1. PICK l \in AllLanes : lane' = [lane EXCEPT ![p] = l] BY <1>1, <1>6, LaneOfCount DEF PopStart, Lanes
  <2> QED BY <1>1, <1>2, <1>6, <2>1 DEF PopStart, TypeOK, queueVars, history, Locations
<1>7. CASE SearchStart(p)
  <2>1. PICK l \in AllLanes : lane' = [lane EXCEPT ![p] = l] BY <1>1, <1>7, LaneOfCount DEF SearchStart, Lanes
  <2> QED BY <1>1, <1>2, <1>7, <2>1 DEF SearchStart, TypeOK, queueVars, Locations
<1>8. ASSUME pc[p] \in {"try", "lock", "pop"}, NextLane(p)
      PROVE  /\ pc' \in [Procs -> Locations] /\ lane' \in [Procs -> AllLanes]
             /\ left' \in [Procs -> 0 .. MaxLanes]
  <2>1. PICK l \in AllLanes : lane' = [lane EXCEPT ![p] = l] BY <1>1, <1>8, NextLaneType, LaneOfCount
  <2>2. PICK k \in 0 .. MaxLanes : left' = [left EXCEPT ![p] = k]
    <3>1. PICK k \in 0 .. count - 1 : left' = [left EXCEPT ![p] = k] BY <1>8, NextLaneType
    <3>2. k \in 0 .. MaxLanes BY <1>2
    <3> QED BY <3>1, <3>2
  <2>3. pc' = [pc EXCEPT ![p] = IF left[p] = 1 THEN "none" ELSE "try"] BY <1>8, NextLaneType
  <2> QED BY <1>1, <2>1, <2>2, <2>3 DEF TypeOK, Locations
<1>9. CASE TryEmpty(p)
  <2>1. pc' \in [Procs -> Locations] /\ lane' \in [Procs -> AllLanes] /\ left' \in [Procs -> 0 .. MaxLanes]
    BY <1>1, <1>8, <1>9 DEF TryEmpty, TypeOK, Locations
  <2> QED BY <1>1, <1>9, <2>1 DEF TryEmpty, TypeOK, queueVars, history
<1>10. CASE TryLock(p)
  <2>1. pc' \in [Procs -> Locations] /\ lane' \in [Procs -> AllLanes] /\ left' \in [Procs -> 0 .. MaxLanes]
    BY <1>1, <1>8, <1>10 DEF TryLock, TypeOK, Locations
  <2>2. locked' \in [AllLanes -> BOOLEAN] /\ contended' \in [Procs -> BOOLEAN]
    <3>1. CASE locked[lane[p]]
      <4>1. contended' = [contended EXCEPT ![p] = @ \/ since[p] # {}] /\ locked' = locked
        BY <1>10, <3>1 DEF TryLock
      <4>2. contended \in [Procs -> BOOLEAN] /\ (contended[p] \/ since[p] # {}) \in BOOLEAN BY <1>1 DEF TypeOK
      <4>3. locked \in [AllLanes -> BOOLEAN] BY <1>1 DEF TypeOK
      <4>4. contended' \in [Procs -> BOOLEAN] BY <4>1, <4>2, Zenon
      <4> QED BY <4>1, <4>3, <4>4
    <3>2. CASE ~locked[lane[p]]
      <4>1. locked' = [locked EXCEPT ![lane[p]] = TRUE] /\ contended' = contended BY <1>10, <3>2 DEF TryLock
      <4> QED BY <1>1, <4>1 DEF TypeOK
    <3> QED BY <3>1, <3>2
  <2> QED BY <1>1, <1>10, <2>1, <2>2 DEF TryLock, TypeOK, queueVars
<1>11. CASE PopEmpty(p)
  <2>1. pc' \in [Procs -> Locations] /\ lane' \in [Procs -> AllLanes] /\ left' \in [Procs -> 0 .. MaxLanes]
    BY <1>8, <1>11 DEF PopEmpty
  <2> QED BY <1>1, <1>11, <2>1 DEF PopEmpty, TypeOK, queueVars, history
<1>12. CASE Pop(p)
  <2>1. lanes.anchor[lane[p]] \in Threads BY <1>12, PopQueues
  <2> QED BY <1>1, <1>12, <2>1 DEF Pop, TypeOK, queueVars, Locations
<1>13. CASE PopUnlock(p)
  <2>1. pc[p] = "popped" /\ thr[p] \in Threads BY <1>13 DEF PopUnlock, IInv, TypeOK, OpInv
  <2>2. lane[p] \div Shard \in Nat
    <3>1. lane[p] \in Nat BY <1>1, MaxLanesType DEF TypeOK
    <3> QED BY <3>1 DEF Shard
  <2> QED BY <1>1, <1>13, <2>1, <2>2, ReturnType DEF PopUnlock, TypeOK, queueVars
<1>14. CASE ReturnNone(p) BY <1>1, <1>14, ReturnType DEF ReturnNone, TypeOK, queueVars
<1>15. CASE Join(p)
  <2>1. members' \in SUBSET Procs /\ count' = LaneCount(Cardinality(members')) BY <1>1, <1>15 DEF Join, TypeOK
  <2>2. rdqid' \in [Procs -> Nat] BY <1>15, <2>1, ReassignedType DEF Join
  <2> QED BY <1>1, <1>15, <2>1, <2>2 DEF Join, TypeOK, opVars, history
<1>16. CASE Leave(p)
  <2>1. members' \in SUBSET Procs /\ count' = LaneCount(Cardinality(members')) BY <1>1, <1>16 DEF Leave, TypeOK
  <2>2. rdqid' \in [Procs -> Nat] BY <1>16, <2>1, ReassignedType DEF Leave
  <2> QED BY <1>1, <1>16, <2>1, <2>2 DEF Leave, TypeOK, opVars, history
<1> QED BY <1>3, <1>4, <1>5, <1>6, <1>7, <1>9, <1>10, <1>11, <1>12, <1>13, <1>14, <1>15, <1>16

LEMMA OpStep ==
  ASSUME IInv, NEW p \in Procs,
         \/ \E t \in Threads : PushStart(p, t)
         \/ PushLink(p) \/ PushUnlock(p)
         \/ PopStart(p) \/ SearchStart(p) \/ TryEmpty(p) \/ TryLock(p)
         \/ PopEmpty(p) \/ Pop(p) \/ PopUnlock(p) \/ ReturnNone(p)
         \/ Join(p) \/ Leave(p)
  PROVE  OpInv'
<1>1. TypeOK /\ OpInv /\ MemberInv BY DEF IInv
<1>2. count \in 2 .. MaxLanes /\ count \in Nat BY <1>1, CountType
<1>3. /\ pc \in [Procs -> Locations] /\ lane \in [Procs -> AllLanes] /\ left \in [Procs -> 0 .. MaxLanes]
      /\ thr \in [Procs -> Threads \cup {NoThread}] /\ since \in [Procs -> SUBSET Threads]
      /\ queued \in SUBSET Threads /\ NoThread \notin Threads
  BY <1>1, ReadyQueueAssumption DEF TypeOK, ReadyQueueAssumption
<1>4. ASSUME NEW t \in Threads, PushStart(p, t) PROVE OpInv'
  <2>1. PICK l \in RemoteLanes(t) \cup (IF p \in members THEN SlotLanes(rdqid[p]) ELSE {}) :
          lane' = [lane EXCEPT ![p] = l]
    BY <1>4 DEF PushStart
  <2>2. l \in 0 .. count - 1 BY <1>1, RemoteType, SlotsType
  <2>3. l < count BY <1>2, <2>2
  <2> QED BY <1>1, <1>3, <1>4, <2>1, <2>3 DEF PushStart, OpInv, queueVars, history
<1>5. CASE PushLink(p)
  <2>1. thr[p] \in Threads BY <1>5, PushLinkQueues
  <2> QED BY <1>1, <1>3, <1>5, <2>1 DEF PushLink, OpInv, queueVars
<1>6. CASE PushUnlock(p) BY <1>1, <1>3, <1>6 DEF PushUnlock, Return, OpInv, queueVars
<1>7. CASE PopStart(p)
  <2>1. PICK l \in 0 .. count - 1 : lane' = [lane EXCEPT ![p] = l] BY <1>7 DEF PopStart, Lanes
  <2>2. l < count /\ 1 \in 1 .. count BY <1>2
  <2> QED BY <1>1, <1>3, <1>7, <2>1, <2>2 DEF PopStart, OpInv, queueVars, history
<1>8. CASE SearchStart(p)
  <2>1. PICK l \in 0 .. count - 1 : lane' = [lane EXCEPT ![p] = l] BY <1>8 DEF SearchStart, Lanes
  <2>2. l < count /\ count \in 1 .. count BY <1>2
  <2> QED BY <1>1, <1>3, <1>8, <2>1, <2>2 DEF SearchStart, OpInv, queueVars
<1>9. ASSUME pc[p] \in {"try", "lock", "pop"}, NextLane(p), UNCHANGED <<count, queued, thr, since>>
      PROVE  OpInv'
  <2>1. PICK l \in 0 .. count - 1 : lane' = [lane EXCEPT ![p] = l] BY <1>9, NextLaneType
  <2>2. PICK k \in 0 .. count - 1 : left' = [left EXCEPT ![p] = k] /\ k = left[p] - 1 BY <1>9, NextLaneType
  <2>3. left[p] \in 1 .. count BY <1>1, <1>9 DEF OpInv
  <2>4. l < count /\ (left[p] # 1 => k \in 1 .. count) BY <1>2, <2>2, <2>3
  <2>5. pc' = [pc EXCEPT ![p] = IF left[p] = 1 THEN "none" ELSE "try"] BY <1>9, NextLaneType
  <2> QED BY <1>1, <1>3, <1>9, <2>1, <2>2, <2>4, <2>5 DEF OpInv
<1>10. CASE TryEmpty(p)
  <2>1. CASE IsEmpty(lanes, lane[p]) BY <1>9, <1>10, <2>1 DEF TryEmpty, queueVars, history
  <2>2. CASE ~IsEmpty(lanes, lane[p])
    BY <1>1, <1>3, <1>10, <2>2 DEF TryEmpty, OpInv, queueVars, history
  <2> QED BY <2>1, <2>2
<1>11. CASE TryLock(p)
  <2>1. CASE locked[lane[p]] BY <1>9, <1>11, <2>1 DEF TryLock, queueVars
  <2>2. CASE ~locked[lane[p]]
    BY <1>1, <1>3, <1>11, <2>2 DEF TryLock, OpInv, queueVars
  <2> QED BY <2>1, <2>2
<1>12. CASE PopEmpty(p) BY <1>9, <1>12 DEF PopEmpty, queueVars, history
<1>13. CASE Pop(p)
  <2> DEFINE t == lanes.anchor[lane[p]]
  <2>1. t \in Threads /\ t \in queued
    <3>1. t \in Threads /\ t \in Inside(Queues) BY <1>13, PopQueues
    <3>2. queued = Inside(Queues) BY DEF IInv, ListInv
    <3> QED BY <3>1, <3>2
  <2>2. /\ pc[p] = "pop" /\ count' = count /\ lane' = lane /\ left' = left
        /\ thr' = [thr EXCEPT ![p] = t] /\ queued' = queued \ {t}
        /\ since' = [q \in Procs |-> IF q = p THEN {} ELSE since[q] \ {t}]
        /\ pc' = [pc EXCEPT ![p] = "popped"]
    BY <1>13 DEF Pop, queueVars
  <2> HIDE DEF t
  <2> QED BY <1>1, <1>3, <2>1, <2>2 DEF OpInv
<1>14. CASE PopUnlock(p) BY <1>1, <1>3, <1>14 DEF PopUnlock, Return, OpInv, queueVars
<1>15. CASE ReturnNone(p) BY <1>1, <1>3, <1>15 DEF ReturnNone, Return, OpInv, queueVars
<1>16. CASE Join(p) \/ Leave(p)
  <2>1. WriterAlone /\ UNCHANGED <<pc, lane, left, thr, queued, since>>
    BY <1>16 DEF Join, Leave, opVars, history
  <2> QED BY <1>1, <1>3, <2>1 DEF OpInv, WriterAlone
<1> QED BY <1>4, <1>5, <1>6, <1>7, <1>8, <1>10, <1>11, <1>12, <1>13, <1>14, <1>15, <1>16

LEMMA MemberStep ==
  ASSUME IInv, NEW p \in Procs,
         UNCHANGED queueVars \/ Join(p) \/ Leave(p)
  PROVE  MemberInv'
<1>1. CASE UNCHANGED queueVars BY <1>1 DEF IInv, MemberInv, queueVars
<1>2. CASE Join(p)
  <2>1. members' \in SUBSET Procs /\ Reassigned(members') BY <1>2 DEF Join, IInv, TypeOK
  <2>2. PICK ms \in SUBSET Procs : ms = members' BY <2>1
  <2> QED BY <2>1, <2>2, ReassignedType DEF MemberInv
<1>3. CASE Leave(p)
  <2>1. members' \in SUBSET Procs /\ Reassigned(members') BY <1>3 DEF Leave, IInv, TypeOK
  <2>2. PICK ms \in SUBSET Procs : ms = members' BY <2>1
  <2> QED BY <2>1, <2>2, ReassignedType DEF MemberInv
<1> QED BY <1>1, <1>2, <1>3

LEMMA ListStep ==
  ASSUME IInv, NEW p \in Procs,
         UNCHANGED <<lanes, count, queued>> \/ PushLink(p) \/ Pop(p) \/ Join(p) \/ Leave(p)
  PROVE  ListInv'
BY OtherQueues, PushLinkQueues, PopQueues, JoinQueues, LeaveQueues

LEMMA FoundFewer ==
  ASSUME NEW q, NEW r, NEW n, NEW l, NEW k, NEW S, NEW T, Found(q, n, l, k, S),
         \A m \in DOMAIN r : /\ m \in DOMAIN q
                             /\ \A i \in 1 .. Len(r[m]) : r[m][i] \in T =>
                                  r[m][i] \in S /\ \E j \in 1 .. Len(q[m]) : q[m][j] = r[m][i]
  PROVE  Found(r, n, l, k, T)
BY DEF Found

LEMMA FoundNext ==
  ASSUME NEW n \in Nat, NEW q, DOMAIN q = 0 .. n - 1, NEW l \in 0 .. n - 1, NEW k \in 1 .. n, NEW S,
         Found(q, n, l, k, S), \A i \in 1 .. Len(q[l]) : q[l][i] \notin S
  PROVE  /\ k = 1 => \A m \in DOMAIN q : \A i \in 1 .. Len(q[m]) : q[m][i] \notin S
         /\ Found(q, n, IF l + 1 = n THEN 0 ELSE l + 1, k - 1, S)
<1>1. ASSUME NEW m \in 0 .. n - 1, NEW i \in 1 .. Len(q[m]), q[m][i] \in S
      PROVE  /\ m # l /\ (IF m >= l THEN m - l ELSE (m - l) + n) < k
  BY <1>1 DEF Found
<1>2. ASSUME NEW m \in 0 .. n - 1, m # l, (IF m >= l THEN m - l ELSE (m - l) + n) < k
      PROVE  LET a == IF l + 1 = n THEN 0 ELSE l + 1
             IN  k # 1 /\ (IF m >= a THEN m - a ELSE (m - a) + n) < k - 1
  <2>1. CASE m >= l BY <1>2, <2>1
  <2>2. CASE ~(m >= l) BY <1>2, <2>2
  <2> QED BY <2>1, <2>2
<1>3. ASSUME k = 1, NEW m \in DOMAIN q, NEW i \in 1 .. Len(q[m]), q[m][i] \in S PROVE FALSE
  BY <1>1, <1>2, <1>3
<1> DEFINE a == IF l + 1 = n THEN 0 ELSE l + 1
<1>4. ASSUME NEW m \in DOMAIN q, NEW i \in 1 .. Len(q[m]), q[m][i] \in S
      PROVE  (IF m >= a THEN m - a ELSE (m - a) + n) < k - 1
  BY <1>1, <1>2, <1>4
<1> HIDE DEF a
<1>5. Found(q, n, a, k - 1, S) BY <1>4 DEF Found
<1> QED BY <1>3, <1>5 DEF a

LEMMA FoundAll ==
  ASSUME NEW n \in Nat, NEW q, DOMAIN q = 0 .. n - 1, NEW l \in 0 .. n - 1, NEW S
  PROVE  Found(q, n, l, n, S)
<1>1. \A m \in 0 .. n - 1 : (IF m >= l THEN m - l ELSE (m - l) + n) < n OBVIOUS
<1> QED BY <1>1 DEF Found

\* A search goes on from a lane that has none of its threads.
LEMMA NextLaneFound ==
  ASSUME IInv, NEW p \in Procs, pc[p] \in {"try", "lock", "pop"}, NextLane(p), ~contended[p],
         \A i \in 1 .. Len(Queues[lane[p]]) : Queues[lane[p]][i] \notin since[p]
  PROVE  /\ pc'[p] \in {"try", "lock", "pop"} => Found(Queues, count, lane'[p], left'[p], since[p])
         /\ pc'[p] = "none" => since[p] = {}
<1>1. /\ lane[p] \in 0 .. count - 1 /\ left[p] \in 1 .. count /\ count \in Nat
      /\ pc' = [pc EXCEPT ![p] = IF left[p] = 1 THEN "none" ELSE "try"]
  BY NextLaneType
<1>2. pc'[p] = IF left[p] = 1 THEN "none" ELSE "try" BY <1>1 DEF IInv, TypeOK
<1>3. DOMAIN Queues = 0 .. count - 1 BY DEF Queues, Lanes
<1>4. Found(Queues, count, lane[p], left[p], since[p]) BY DEF IInv, SearchInv
<1>5. /\ left[p] = 1 => \A m \in DOMAIN Queues : \A i \in 1 .. Len(Queues[m]) : Queues[m][i] \notin since[p]
      /\ Found(Queues, count, IF lane[p] + 1 = count THEN 0 ELSE lane[p] + 1, left[p] - 1, since[p])
  BY <1>1, <1>3, <1>4, FoundNext
<1>6. left[p] = 1 => since[p] = {}
  <2>1. since[p] \subseteq Inside(Queues) BY DEF IInv, OpInv, ListInv
  <2> QED BY <1>5, <2>1 DEF Inside
<1>7. left'[p] = left[p] - 1
  <2>1. left \in [Procs -> 0 .. MaxLanes] BY DEF IInv, TypeOK
  <2> QED BY <2>1, NextLaneType
<1>8. left[p] # 1 => lane'[p] = IF lane[p] + 1 = count THEN 0 ELSE lane[p] + 1
  <2>1. lane \in [Procs -> AllLanes] BY DEF IInv, TypeOK
  <2> QED BY <2>1, NextLaneType
<1> QED BY <1>2, <1>5, <1>6, <1>7, <1>8

LEMMA EmptyQueue ==
  ASSUME IInv, NEW l \in 0 .. count - 1, IsEmpty(lanes, l)
  PROVE  \A i \in 1 .. Len(Queues[l]) : FALSE
<1>1. Lists(lanes, Queues, count) BY DEF IInv, ListInv
<1>2. Queues[l] \in Seq(Threads) /\ Chain(lanes, l, Queues[l]) BY <1>1 DEF Lists, Fifo
<1>3. Queues[l] = <<>>
  <2>1. SUFFICES ASSUME Queues[l] # <<>> PROVE FALSE OBVIOUS
  <2>2. 1 \in 1 .. Len(Queues[l]) /\ Queues[l][1] \in Threads BY <1>2, <2>1
  <2> QED BY <1>2, <2>1, <2>2, ReadyQueueAssumption DEF Chain, IsEmpty, ReadyQueueAssumption
<1>4. Len(<<>>) = 0 OBVIOUS
<1> QED BY <1>3, <1>4

LEMMA SearchStep ==
  ASSUME IInv, NEW p \in Procs,
         \/ \E t \in Threads : PushStart(p, t)
         \/ PushLink(p) \/ PushUnlock(p)
         \/ PopStart(p) \/ SearchStart(p) \/ TryEmpty(p) \/ TryLock(p)
         \/ PopEmpty(p) \/ Pop(p) \/ PopUnlock(p) \/ ReturnNone(p)
         \/ Join(p) \/ Leave(p)
  PROVE  SearchInv(Queues)'
<1>0. /\ pc \in [Procs -> Locations] /\ lane \in [Procs -> AllLanes] /\ left \in [Procs -> 0 .. MaxLanes]
      /\ since \in [Procs -> SUBSET Threads] /\ contended \in [Procs -> BOOLEAN] /\ count \in Nat
      /\ SearchInv(Queues) /\ OpInv
  BY CountType DEF IInv, TypeOK
<1>1. DOMAIN Queues = 0 .. count - 1 BY DEF Queues, Lanes
<1>2. ASSUME UNCHANGED <<lanes, count>> PROVE Queues' = Queues BY <1>2 DEF Queues, Lanes
<1>3. CASE \E t \in Threads : PushStart(p, t)
  BY <1>0, <1>2, <1>3 DEF PushStart, SearchInv, queueVars, history
<1>4. CASE PushUnlock(p) BY <1>0, <1>2, <1>4 DEF PushUnlock, Return, SearchInv, queueVars
<1>5. CASE PopUnlock(p) BY <1>0, <1>2, <1>5 DEF PopUnlock, Return, SearchInv, queueVars
<1>6. CASE ReturnNone(p) BY <1>0, <1>2, <1>6 DEF ReturnNone, Return, SearchInv, queueVars
<1>7. CASE Join(p) \/ Leave(p)
  <2>1. WriterAlone /\ pc' = pc BY <1>7 DEF Join, Leave, opVars
  <2> QED BY <2>1 DEF WriterAlone, SearchInv
<1>8. CASE PopStart(p)
  <2>1. PICK l \in 0 .. count - 1 : lane' = [lane EXCEPT ![p] = l] BY <1>8 DEF PopStart, Lanes
  <2>2. pc[p] = "out" /\ since' = since /\ contended' = contended /\ count' = count /\ lanes' = lanes
        /\ pc' = [pc EXCEPT ![p] = "try"] /\ left' = [left EXCEPT ![p] = 1]
    BY <1>8 DEF PopStart, queueVars, history
  <2>3. since[p] = {} BY <2>2 DEF IInv, OpInv
  <2>4. \A m \in 0 .. count - 1 : Found(Queues, count, m, 1, {}) BY DEF Found
  <2> QED BY <1>0, <1>2, <2>1, <2>2, <2>3, <2>4 DEF SearchInv
<1>9. CASE SearchStart(p)
  <2>1. PICK l \in 0 .. count - 1 : lane' = [lane EXCEPT ![p] = l] BY <1>9 DEF SearchStart, Lanes
  <2>2. since' = [since EXCEPT ![p] = queued] /\ contended' = contended /\ count' = count /\ lanes' = lanes
        /\ pc' = [pc EXCEPT ![p] = "try"] /\ left' = [left EXCEPT ![p] = count]
    BY <1>9 DEF SearchStart, queueVars
  <2>3. Found(Queues, count, l, count, queued) BY <1>0, <1>1, FoundAll
  <2> QED BY <1>0, <1>2, <2>1, <2>2, <2>3 DEF SearchInv
<1>10. ASSUME pc[p] \in {"try", "lock", "pop"}, NextLane(p), UNCHANGED <<lanes, count, since>>,
              \A o \in Procs : o # p => contended'[o] = contended[o],
              ~contended'[p] => /\ ~contended[p]
                                /\ \A i \in 1 .. Len(Queues[lane[p]]) : Queues[lane[p]][i] \notin since[p]
       PROVE  SearchInv(Queues)'
  <2>1. Queues' = Queues BY <1>2, <1>10
  <2>2. ~contended'[p] => /\ pc'[p] \in {"try", "lock", "pop"} => Found(Queues, count, lane'[p], left'[p], since[p])
                          /\ pc'[p] = "none" => since[p] = {}
    BY <1>10, NextLaneFound
  <2>3. \A o \in Procs : o # p => pc'[o] = pc[o] /\ lane'[o] = lane[o] /\ left'[o] = left[o]
    BY <1>0, <1>10 DEF NextLane
  <2> QED BY <1>0, <1>10, <2>1, <2>2, <2>3 DEF SearchInv
<1>11. ASSUME pc[p] \in {"try", "lock", "pop"}, IsEmpty(lanes, lane[p])
       PROVE  \A i \in 1 .. Len(Queues[lane[p]]) : Queues[lane[p]][i] \notin since[p]
  <2>1. lane[p] \in 0 .. count - 1
    <3>1. lane[p] < count /\ lane[p] \in AllLanes BY <1>0, <1>11 DEF OpInv
    <3> QED BY <1>0, <3>1, MaxLanesType
  <2> QED BY <1>11, <2>1, EmptyQueue
<1>12. CASE TryEmpty(p)
  <2>1. CASE IsEmpty(lanes, lane[p]) BY <1>10, <1>11, <1>12, <2>1 DEF TryEmpty, queueVars, history
  <2>2. CASE ~IsEmpty(lanes, lane[p])
    BY <1>0, <1>2, <1>12, <2>2 DEF TryEmpty, SearchInv, queueVars, history
  <2> QED BY <2>1, <2>2
<1>13. CASE TryLock(p)
  <2>1. CASE locked[lane[p]]
    <3>1. contended' = [contended EXCEPT ![p] = @ \/ since[p] # {}] BY <1>13, <2>1 DEF TryLock
    <3>2. contended'[p] = (contended[p] \/ since[p] # {}) BY <1>0, <3>1, Zenon
    <3>3. \A o \in Procs : o # p => contended'[o] = contended[o] BY <1>0, <3>1, Zenon
    <3>4. ~contended'[p] => ~contended[p] /\ since[p] = {} BY <3>2
    <3>5. pc[p] = "lock" /\ NextLane(p) /\ UNCHANGED <<lanes, count, since>>
      BY <1>13, <2>1 DEF TryLock, queueVars
    <3> QED BY <1>10, <3>3, <3>4, <3>5
  <2>2. CASE ~locked[lane[p]]
    BY <1>0, <1>2, <1>13, <2>2 DEF TryLock, SearchInv, queueVars
  <2> QED BY <2>1, <2>2
<1>14. CASE PopEmpty(p) BY <1>10, <1>11, <1>14 DEF PopEmpty, queueVars, history
<1>15. ASSUME UNCHANGED <<count, lane, left, contended>>,
              \A o \in Procs : pc'[o] = pc[o] \/ pc'[o] \in {"pushed", "popped"},
              \A o \in Procs : since'[o] \subseteq since[o],
              \A m \in DOMAIN Queues' :
                /\ m \in DOMAIN Queues
                /\ \A o \in Procs : \A i \in 1 .. Len(Queues'[m]) : Queues'[m][i] \in since'[o] =>
                     \E j \in 1 .. Len(Queues[m]) : Queues[m][j] = Queues'[m][i]
       PROVE  SearchInv(Queues)'
  <2>1. PICK q : q = Queues OBVIOUS
  <2>2. PICK r : r = Queues' OBVIOUS
  <2>3. ASSUME NEW o \in Procs, ~contended[o], pc[o] \in {"try", "lock", "pop"}
        PROVE  Found(r, count, lane[o], left[o], since'[o])
    <3>1. Found(q, count, lane[o], left[o], since[o]) BY <1>0, <2>1, <2>3 DEF SearchInv
    <3>2. \A m \in DOMAIN r :
            /\ m \in DOMAIN q
            /\ \A i \in 1 .. Len(r[m]) : r[m][i] \in since'[o] =>
                 r[m][i] \in since[o] /\ \E j \in 1 .. Len(q[m]) : q[m][j] = r[m][i]
      BY <1>15, <2>1, <2>2
    <3> QED BY <3>1, <3>2, FoundFewer
  <2>4. ASSUME NEW o \in Procs, ~contended[o], pc[o] = "none" PROVE since'[o] = {}
    BY <1>0, <1>15, <2>4 DEF SearchInv
  <2> QED BY <1>15, <2>2, <2>3, <2>4 DEF SearchInv
<1>16. CASE PushLink(p)
  <2> DEFINE t == thr[p]
             l == lane[p]
  <2>1. l \in Lanes /\ t \in Threads /\ t \notin Inside(Queues) /\ Queues' = Appended(Queues, l, t)
    BY <1>16, PushLinkQueues
  <2>2. UNCHANGED <<count, lane, left, contended, since>> /\ pc' = [pc EXCEPT ![p] = "pushed"]
    BY <1>16 DEF PushLink, queueVars
  <2>3. PICK q : q = Queues OBVIOUS
  <2>4. PICK r : r = Appended(q, l, t) OBVIOUS
  <2>5. \A o \in Procs : t \notin since[o] BY <1>0, <2>1 DEF OpInv, IInv, ListInv
  <2> HIDE DEF t, l
  <2>6. Fifo(q, count) BY <2>3 DEF IInv, ListInv, Lists
  <2>7. ASSUME NEW m \in DOMAIN r, NEW i \in 1 .. Len(r[m]), r[m][i] # t
        PROVE  \E j \in 1 .. Len(q[m]) : q[m][j] = r[m][i]
    <3>1. m \in 0 .. count - 1 /\ q[m] \in Seq(Threads) BY <2>4, <2>6 DEF Appended, Fifo
    <3>2. CASE m = l
      <4>1. r[m] = Append(q[m], t) BY <2>4, <2>6, <3>1, <3>2 DEF Appended, Fifo
      <4>2. PICK s \in Seq(Threads) : s = q[m] BY <3>1
      <4>3. PICK u \in Threads : u = t BY <2>1
      <4>4. /\ Len(Append(s, u)) = Len(s) + 1 /\ Append(s, u)[Len(s) + 1] = u /\ Len(s) \in Nat
            /\ \A j \in 1 .. Len(s) : Append(s, u)[j] = s[j]
        OBVIOUS
      <4>5. i \in 1 .. Len(s) \/ i = Len(s) + 1 BY <4>1, <4>2, <4>3, <4>4
      <4> QED BY <2>7, <4>1, <4>2, <4>3, <4>4, <4>5
    <3>3. CASE m # l
      <4>1. r[m] = q[m] BY <2>4, <2>6, <3>1, <3>3 DEF Appended, Fifo
      <4> QED BY <4>1
    <3> QED BY <3>2, <3>3
  <2>8. DOMAIN r = DOMAIN q BY <2>4 DEF Appended
  <2>9. Queues' = r BY <2>1, <2>3, <2>4
  <2>10. \A o \in Procs : pc'[o] = pc[o] \/ pc'[o] \in {"pushed", "popped"} BY <1>0, <2>2
  <2> QED BY <1>15, <2>2, <2>3, <2>5, <2>7, <2>8, <2>9, <2>10
<1>17. CASE Pop(p)
  <2> DEFINE t == lanes.anchor[lane[p]]
             l == lane[p]
  <2>1. l \in Lanes /\ Queues[l] # <<>> /\ Queues' = Shortened(Queues, l) BY <1>17, PopQueues
  <2>2. /\ UNCHANGED <<count, lane, left, contended>> /\ pc' = [pc EXCEPT ![p] = "popped"]
        /\ since' = [q \in Procs |-> IF q = p THEN {} ELSE since[q] \ {t}]
    BY <1>17 DEF Pop, queueVars
  <2>3. PICK q : q = Queues OBVIOUS
  <2>4. PICK r : r = Shortened(q, l) OBVIOUS
  <2> HIDE DEF t, l
  <2>5. \A o \in Procs : since'[o] \subseteq since[o] BY <1>0, <2>2
  <2>6. Fifo(q, count) BY <2>3 DEF IInv, ListInv, Lists
  <2>7. ASSUME NEW m \in DOMAIN r, NEW i \in 1 .. Len(r[m])
        PROVE  \E j \in 1 .. Len(q[m]) : q[m][j] = r[m][i]
    <3>1. m \in 0 .. count - 1 /\ q[m] \in Seq(Threads) BY <2>4, <2>6 DEF Shortened, Fifo
    <3>2. CASE m = l
      <4>1. r[m] = Tail(q[m]) /\ q[m] # <<>> BY <2>1, <2>3, <2>4, <2>6, <3>1, <3>2 DEF Shortened, Fifo
      <4>2. PICK s \in Seq(Threads) : s = q[m] BY <3>1
      <4>3. /\ Len(Tail(s)) = Len(s) - 1 /\ Len(s) \in Nat
            /\ \A j \in 1 .. Len(s) - 1 : Tail(s)[j] = s[j + 1]
        BY <4>1, <4>2
      <4>4. i \in 1 .. Len(s) - 1 /\ i + 1 \in 1 .. Len(s) BY <4>1, <4>2, <4>3
      <4> QED BY <4>1, <4>2, <4>3, <4>4
    <3>3. CASE m # l
      <4>1. r[m] = q[m] BY <2>4, <2>6, <3>1, <3>3 DEF Shortened, Fifo
      <4> QED BY <4>1
    <3> QED BY <3>2, <3>3
  <2>8. DOMAIN r = DOMAIN q BY <2>4 DEF Shortened
  <2>9. Queues' = r BY <2>1, <2>3, <2>4
  <2>10. \A o \in Procs : pc'[o] = pc[o] \/ pc'[o] \in {"pushed", "popped"} BY <1>0, <2>2
  <2> QED BY <1>15, <2>2, <2>3, <2>5, <2>7, <2>8, <2>9, <2>10
<1> QED BY <1>3, <1>4, <1>5, <1>6, <1>7, <1>8, <1>9, <1>12, <1>13, <1>14, <1>16, <1>17

LEMMA StepInv == IInv /\ [Next]_vars => IInv'
<1> SUFFICES ASSUME IInv, [Next]_vars PROVE IInv' OBVIOUS
<1>1. CASE UNCHANGED vars
  <2>1. UNCHANGED <<count, members, rdqid, lanes, locked, preferred, pc, lane, left, thr, queued, since, contended>>
    BY <1>1 DEF vars, queueVars, opVars, history
  <2>2. TypeOK' BY <2>1 DEF IInv, TypeOK
  <2>3. OpInv' BY <2>1 DEF IInv, OpInv
  <2>4. MemberInv' BY <2>1 DEF IInv, MemberInv
  <2>5. Queues' = Queues BY <2>1 DEF Queues, Lanes
  <2>6. ListInv' BY <2>1, <2>5 DEF IInv, ListInv
  <2>7. SearchInv(Queues)' BY <2>1, <2>5 DEF IInv, SearchInv
  <2> QED BY <2>2, <2>3, <2>4, <2>6, <2>7 DEF IInv
<1>2. CASE Next
  <2>1. PICK p \in Procs :
          \/ \E t \in Threads : PushStart(p, t)
          \/ PushLink(p) \/ PushUnlock(p)
          \/ PopStart(p) \/ SearchStart(p) \/ TryEmpty(p) \/ TryLock(p)
          \/ PopEmpty(p) \/ Pop(p) \/ PopUnlock(p) \/ ReturnNone(p)
          \/ Join(p) \/ Leave(p)
    BY <1>2 DEF Next
  <2>2. TypeOK' /\ OpInv' BY <2>1, TypeStep, OpStep
  <2>3. UNCHANGED queueVars \/ Join(p) \/ Leave(p)
    BY <2>1 DEF PushStart, PushLink, PushUnlock, PopStart, SearchStart, TryEmpty, TryLock, PopEmpty, Pop,
                PopUnlock, ReturnNone
  <2>4. UNCHANGED <<lanes, count, queued>> \/ PushLink(p) \/ Pop(p) \/ Join(p) \/ Leave(p)
    BY <2>1 DEF PushStart, PushUnlock, PopStart, SearchStart, TryEmpty, TryLock, PopEmpty,
                PopUnlock, ReturnNone, queueVars, history
  <2>5. MemberInv' BY <2>3, MemberStep
  <2>6. ListInv' BY <2>4, ListStep
  <2>7. SearchInv(Queues)' BY <2>1, SearchStep
  <2> QED BY <2>2, <2>5, <2>6, <2>7 DEF IInv
<1> QED BY <1>1, <1>2

-----------------------------------------------------------------------------
(* The properties.                                                         *)

\* The variables keep their types: among them, the number of lanes is the one
\* that the processors of the cluster call for.
THEOREM ReadyQueueTypeCorrect == Spec => []TypeOK
<1>1. IInv => TypeOK BY DEF IInv
<1> QED BY <1>1, InitInv, StepInv, PTL DEF Spec

LEMMA ListsAgreeInv == IInv => ListsAgree
<1> SUFFICES ASSUME IInv PROVE ListsAgree OBVIOUS
<1>1. PICK q : q = Queues OBVIOUS
<1>2. Lists(lanes, q, count) /\ queued = Inside(q) /\ Fifo(q, count) BY <1>1 DEF IInv, ListInv, Lists
<1>3. \A l \in Lanes : ThreadsOf(lanes, l) = q[l] BY <1>1 DEF Queues
<1>4. ASSUME NEW l \in Lanes PROVE lanes.prev[l] = IF IsEmpty(lanes, l) THEN "self" ELSE Last(q[l])
  <2>1. Chain(lanes, l, q[l]) /\ q[l] \in Seq(Threads) BY <1>2 DEF Lists, Fifo, Lanes
  <2>2. CASE q[l] = <<>> BY <2>1, <2>2 DEF Chain, IsEmpty
  <2>3. CASE q[l] # <<>>
    <3>1. 1 \in 1 .. Len(q[l]) /\ q[l][1] \in Threads BY <2>1, <2>3
    <3> QED BY <2>1, <2>3, <3>1, ReadyQueueAssumption DEF Chain, IsEmpty, Last, ReadyQueueAssumption
  <2> QED BY <2>2, <2>3
<1>5. queued = UNION {ToSet(ThreadsOf(lanes, l)) : l \in Lanes}
  <2>1. DOMAIN q = Lanes BY <1>2 DEF Fifo, Lanes
  <2>2. \A l \in Lanes : ToSet(q[l]) = {q[l][i] : i \in 1 .. Len(q[l])} /\ ToSet(q[l]) \subseteq Threads
    <3>1. TAKE l \in Lanes
    <3>2. q[l] \in Seq(Threads) BY <1>2 DEF Fifo, Lanes
    <3> QED BY <3>2 DEF ToSet
  <2>3. Inside(q) = UNION {ToSet(q[l]) : l \in Lanes} BY <2>1, <2>2 DEF Inside
  <2> QED BY <1>2, <1>3, <2>3
<1> QED BY <1>3, <1>4, <1>5 DEF ListsAgree

LEMMA LanesInBoundsInv == IInv => LanesInBounds
<1> SUFFICES ASSUME IInv PROVE LanesInBounds OBVIOUS
<1>1. \A p \in Procs : pc[p] \notin {"out", "none"} => lane[p] < count BY DEF IInv, OpInv
<1>2. \A p \in members : rdqid[p] + Shard <= count BY SlotsType DEF IInv
<1>3. ASSUME NEW p \in members, NEW o \in members, SlotLanes(rdqid[p]) \cap SlotLanes(rdqid[o]) # {}
      PROVE  p = o
  <2>1. PICK i \in 0 .. Cardinality(members) - 1 : rdqid[p] = Shard * i BY DEF IInv, MemberInv
  <2>2. PICK j \in 0 .. Cardinality(members) - 1 : rdqid[o] = Shard * j BY DEF IInv, MemberInv
  <2>3. Cardinality(members) \in Nat BY MembersType DEF IInv, TypeOK
  <2>4. PICK x : x \in 2 * i .. 2 * i + 1 /\ x \in 2 * j .. 2 * j + 1
    BY <1>3, <2>1, <2>2, <2>3 DEF SlotLanes, Shard
  <2>5. i = j BY <2>3, <2>4
  <2> QED BY <2>1, <2>2, <2>5 DEF IInv, MemberInv
<1> QED BY <1>1, <1>2, <1>3 DEF LanesInBounds

\* In every state the links and the end pointers of each lane agree and hold
\* exactly the queued threads, and every lane that is worked on or given to a
\* processor exists, also after the array has shrunk or grown
\* (ready_queue.cfa:68-263, cluster.cfa:268-412).
THEOREM LanesStayIntact == Spec => []LanesIntact
<1>1. IInv => LanesIntact BY ListsAgreeInv, LanesInBoundsInv DEF LanesIntact
<1> QED BY <1>1, InitInv, StepInv, PTL DEF Spec

\* A search that returns null although a thread was queued all the time has
\* met a locked lane (search, ready_queue.cfa:227-243).
THEOREM SearchesMissOnlyLocked == Spec => []SearchMissesOnlyLocked
<1>1. IInv => SearchMissesOnlyLocked BY DEF IInv, SearchInv, SearchMissesOnlyLocked
<1> QED BY <1>1, InitInv, StepInv, PTL DEF Spec

-----------------------------------------------------------------------------
(* The lanes are first-in first-out queues.                                *)

LEMMA HeldInside ==
  ASSUME NEW n \in Nat, NEW q, Fifo(q, n)
  PROVE  Fifos!Held(q) = Inside(q)
<1>1. DOMAIN q = 0 .. n - 1 BY DEF Fifo
<1>2. \A l \in DOMAIN q : /\ Fifos!InLane(q, l) = {q[l][i] : i \in 1 .. Len(q[l])}
                          /\ Fifos!InLane(q, l) \subseteq Threads
  <2>1. TAKE l \in DOMAIN q
  <2>2. q[l] \in Seq(Threads) BY <1>1 DEF Fifo
  <2> QED BY <2>2 DEF Fifos!InLane
<1> QED BY <1>2 DEF Fifos!Held, Inside

LEMMA SameCardinality == \A S : Fifos!Cardinality(S) = Cardinality(S)
BY DEF Fifos!Cardinality, Cardinality

LEMMA SizeInside ==
  ASSUME NEW n \in Nat, NEW q, Fifo(q, n), Once(q)
  PROVE  Cardinality(Fifos!Size(q)) = Cardinality(Inside(q))
<1> DEFINE S == Fifos!Size(q)
           f == [x \in S |-> q[x[1]][x[2]]]
<1>1. \A l \in 0 .. n - 1 : q[l] \in Seq(Threads) /\ Len(q[l]) \in Nat /\ Len(q[l]) <= NThreads BY ListFits
<1>2. DOMAIN q = 0 .. n - 1 BY DEF Fifo
<1>3. \A l \in 0 .. n - 1 : \A i \in 1 .. Len(q[l]) : <<l, i>> \in S
  <2>1. TAKE l \in 0 .. n - 1
  <2>2. TAKE i \in 1 .. Len(q[l])
  <2>3. i \in 1 .. Cardinality(Threads) /\ i <= Len(q[l]) BY <1>1, NThreadsType DEF NThreads
  <2> QED BY <1>2, <2>3, SameCardinality DEF Fifos!Size
<1>4. \A x \in S : x = <<x[1], x[2]>> /\ x[1] \in 0 .. n - 1 /\ x[2] \in 1 .. Len(q[x[1]])
  <2>1. TAKE x \in S
  <2>2. x \in (0 .. n - 1) \X (1 .. NThreads) /\ x[2] <= Len(q[x[1]])
    BY <1>2, SameCardinality DEF Fifos!Size, NThreads
  <2> QED BY <1>1, <2>2, NThreadsType
<1> HIDE DEF S
<1>5. f \in [S -> Inside(q)]
  <2>1. ASSUME NEW x \in S PROVE q[x[1]][x[2]] \in Inside(q)
    <3>1. x[1] \in 0 .. n - 1 /\ x[2] \in 1 .. Len(q[x[1]]) BY <1>4
    <3>2. q[x[1]][x[2]] \in Threads BY <1>1, <3>1
    <3> QED BY <1>2, <3>1, <3>2 DEF Inside
  <2> QED BY <2>1
<1>6. IsInjective(f)
  <2>1. ASSUME NEW x \in S, NEW y \in S, q[x[1]][x[2]] = q[y[1]][y[2]] PROVE x = y
    <3>1. x[1] = y[1] /\ x[2] = y[2] BY <1>2, <1>4, <2>1 DEF Once
    <3> QED BY <1>4, <3>1
  <2> QED BY <2>1 DEF IsInjective
<1>7. \A t \in Inside(q) : \E x \in S : f[x] = t
  <2>1. TAKE t \in Inside(q)
  <2>2. PICK l \in 0 .. n - 1 : \E i \in 1 .. Len(q[l]) : q[l][i] = t BY <1>2 DEF Inside
  <2>3. PICK i \in 1 .. Len(q[l]) : q[l][i] = t BY <2>2
  <2>4. <<l, i>> \in S /\ f[<<l, i>>] = q[l][i] BY <1>3
  <2> QED BY <2>3, <2>4
<1>8. ExistsBijection(S, Inside(q))
  BY <1>5, <1>6, <1>7 DEF ExistsBijection, Bijection, Injection, Surjection
<1>9. IsFiniteSet(S)
  <2>1. IsFiniteSet(Threads) BY ReadyQueueAssumption DEF ReadyQueueAssumption
  <2>2. IsFiniteSet(Inside(q)) BY <2>1, FS_Subset DEF Inside
  <2>3. f \in Injection(S, Inside(q)) BY <1>5, <1>6 DEF Injection
  <2> HIDE DEF f
  <2> QED BY <2>2, <2>3, FS_Injection
<1> QED BY <1>8, <1>9, FS_Bijection DEF S

LEMMA InitQueues == Init => Queues = [l \in 0 .. 1 |-> <<>>]
<1> SUFFICES ASSUME Init PROVE Queues = [l \in 0 .. 1 |-> <<>>] OBVIOUS
<1>1. count = 2
  <2>1. Cardinality({}) = 0 BY FS_EmptySet
  <2> QED BY <2>1 DEF Init, LaneCount, MaxOf, Shard, SingleShard
<1>2. IInv BY InitInv
<1>3. Lists(lanes, Queues, count) BY <1>2 DEF IInv, ListInv
<1>4. ASSUME NEW l \in 0 .. 1 PROVE Queues[l] = <<>>
  <2>1. l \in 0 .. count - 1 /\ l \in AllLanes BY <1>1, <1>3, LaneIsThere DEF Lists
  <2>2. IsEmpty(lanes, l) BY <2>1 DEF Init, IsEmpty
  <2>3. \A i \in 1 .. Len(Queues[l]) : FALSE BY <1>2, <2>1, <2>2, EmptyQueue
  <2>4. Queues[l] \in Seq(Threads) BY <1>3, <2>1 DEF Lists, Fifo
  <2> QED BY <2>3, <2>4
<1>5. Queues = [l \in 0 .. 1 |-> Queues[l]]
  <2>1. Lanes = 0 .. 1 BY <1>1 DEF Lanes
  <2> QED BY <2>1 DEF Queues
<1> QED BY <1>4, <1>5

LEMMA PushLinkPushes ==
  ASSUME IInv, NEW p \in Procs, PushLink(p)
  PROVE  Fifos!Next
<1> DEFINE l == lane[p]
           t == thr[p]
<1>1. l \in Lanes /\ t \in Threads /\ t \notin Inside(Queues) /\ Queues' = Appended(Queues, l, t)
  BY PushLinkQueues
<1>2. count \in Nat /\ Fifo(Queues, count) BY CountType DEF IInv, ListInv, Lists
<1>3. t \notin Fifos!Held(Queues) BY <1>1, <1>2, HeldInside
<1>4. Queues' = [Queues EXCEPT ![l] = Append(@, t)] BY <1>1 DEF Appended
<1>5. l \in DOMAIN Queues BY <1>1 DEF Queues
<1> HIDE DEF l, t
<1>6. Fifos!Push(l, t) BY <1>3, <1>4 DEF Fifos!Push, Queues
<1> QED BY <1>1, <1>5, <1>6 DEF Fifos!Next, Queues

LEMMA PopPops ==
  ASSUME IInv, NEW p \in Procs, Pop(p)
  PROVE  Fifos!Next
<1> DEFINE l == lane[p]
<1>1. l \in Lanes /\ Queues[l] # <<>> /\ Queues' = Shortened(Queues, l) BY PopQueues
<1>2. Queues' = [Queues EXCEPT ![l] = Tail(@)] BY <1>1 DEF Shortened
<1>3. l \in DOMAIN Queues BY <1>1 DEF Queues
<1> HIDE DEF l
<1>4. Fifos!Pop(l) BY <1>1, <1>2 DEF Fifos!Pop, Queues
<1> QED BY <1>3, <1>4 DEF Fifos!Next, Queues

\* What is to be shown of a change of the number of lanes.
LEMMA QueuesResized ==
  ASSUME IInv, ListInv', count' \in Nat, Inside(Queues') = Inside(Queues),
         \A l \in Lanes : l < count' => /\ Len(Queues[l]) <= Len(Queues'[l])
                                        /\ \A i \in 1 .. Len(Queues[l]) : Queues'[l][i] = Queues[l][i]
  PROVE  Fifos!Next
<1>1. PICK q : q = Queues OBVIOUS
<1>2. PICK r : r = Queues' OBVIOUS
<1>3. PICK n \in Nat : n = count BY CountType DEF IInv
<1>4. PICK m \in Nat : m = count' OBVIOUS
<1>5. Fifo(q, n) /\ Once(q) BY <1>1, <1>3 DEF IInv, ListInv, Lists
<1>6. Fifo(r, m) /\ Once(r)
  <2>1. Lists(lanes', Queues', count') BY DEF ListInv
  <2>2. Lists(lanes', r, m) BY <1>2, <1>4, <2>1
  <2> QED BY <2>2 DEF Lists
<1>7. DOMAIN q = 0 .. n - 1 /\ DOMAIN r = 0 .. m - 1 BY <1>5, <1>6 DEF Fifo
<1>8. DOMAIN r = 0 .. Cardinality(DOMAIN r) - 1
  <2>1. Cardinality(0 .. m - 1) = IF 0 > m - 1 THEN 0 ELSE m - 1 - 0 + 1 BY FS_Interval
  <2>2. Cardinality(0 .. m - 1) = m BY <2>1
  <2> QED BY <1>7, <2>2
<1>9. Fifos!Held(r) = Fifos!Held(q)
  <2>1. Inside(r) = Inside(q) BY <1>1, <1>2
  <2> QED BY <1>5, <1>6, <2>1, HeldInside
<1>10. Cardinality(Fifos!Size(r)) = Cardinality(Fifos!Size(q))
  <2>1. Inside(r) = Inside(q) BY <1>1, <1>2
  <2> QED BY <1>5, <1>6, <2>1, SizeInside
<1>11. ASSUME NEW l \in DOMAIN q \cap DOMAIN r PROVE q[l] = SubSeq(r[l], 1, Len(q[l]))
  <2>1. PICK s \in Seq(Threads) : s = q[l] BY <1>5, <1>7 DEF Fifo
  <2>2. PICK u \in Seq(Threads) : u = r[l] BY <1>6, <1>7 DEF Fifo
  <2>3. Len(s) <= Len(u) /\ \A i \in 1 .. Len(s) : u[i] = s[i]
    <3>1. l \in Lanes /\ l < count' BY <1>3, <1>4, <1>7 DEF Lanes
    <3> QED BY <1>1, <1>2, <2>1, <2>2, <3>1
  <2>4. /\ SubSeq(u, 1, Len(s)) \in Seq(Threads) /\ Len(SubSeq(u, 1, Len(s))) = Len(s)
        /\ \A i \in 1 .. Len(s) : SubSeq(u, 1, Len(s))[i] = u[i]
    BY <2>3
  <2>5. s = SubSeq(u, 1, Len(s)) BY <2>3, <2>4
  <2> QED BY <2>1, <2>2, <2>5
<1>12. Fifos!Resize
  <2>1. q = [l \in Lanes |-> ThreadsOf(lanes, l)] BY <1>1 DEF Queues
  <2>2. r = [l \in Lanes |-> ThreadsOf(lanes, l)]' BY <1>2 DEF Queues
  <2>3. /\ DOMAIN r = 0 .. Fifos!Cardinality(DOMAIN r) - 1
        /\ Fifos!Cardinality(Fifos!Size(r)) = Fifos!Cardinality(Fifos!Size(q))
    BY <1>8, <1>10, SameCardinality
  <2> QED BY <1>9, <1>11, <2>1, <2>2, <2>3 DEF Fifos!Resize
<1> QED BY <1>12 DEF Fifos!Next

LEMMA JoinResizes ==
  ASSUME IInv, NEW p \in Procs, Join(p)
  PROVE  Fifos!Next
<1>1. /\ count' \in count .. MaxLanes /\ Queues' = Grown(Queues, count')
      /\ Inside(Queues') = Inside(Queues) /\ ListInv'
  BY JoinQueues
<1>2. count \in Nat /\ MaxLanes \in Nat BY CountType, MaxLanesType DEF IInv
<1>3. count' \in Nat /\ count' >= count
  <2>1. PICK n \in Nat : n = count BY <1>2
  <2>2. PICK m \in n .. MaxLanes : m = count' BY <1>1, <2>1
  <2>3. m \in Nat /\ m >= n BY <1>2, <2>1
  <2> QED BY <2>1, <2>2, <2>3
<1>4. PICK q : q = Queues OBVIOUS
<1>5. Fifo(q, count) BY <1>4 DEF IInv, ListInv, Lists
<1>6. PICK m \in Nat : m = count' BY <1>3
<1>7. \A l \in Lanes : Grown(q, m)[l] = q[l] /\ Len(q[l]) \in Nat
  <2>1. TAKE l \in Lanes
  <2>1a. l \in 0 .. count - 1 /\ m >= count BY <1>3, <1>6 DEF Lanes
  <2>1b. l \in DOMAIN q /\ q[l] \in Seq(Threads) BY <1>5, <2>1a DEF Fifo
  <2>1c. l \in 0 .. m - 1 BY <1>2, <2>1a
  <2>2. l \in 0 .. m - 1 /\ l \in DOMAIN q /\ q[l] \in Seq(Threads) BY <2>1b, <2>1c
  <2> QED BY <2>2 DEF Grown
<1>8. \A l \in Lanes : /\ Len(Queues[l]) <= Len(Queues'[l])
                       /\ \A i \in 1 .. Len(Queues[l]) : Queues'[l][i] = Queues[l][i]
  <2>1. PICK r : r = Queues' OBVIOUS
  <2>2. r = Grown(q, m) BY <1>1, <1>4, <1>6, <2>1
  <2>3. \A l \in Lanes : Len(q[l]) <= Len(r[l]) /\ \A i \in 1 .. Len(q[l]) : r[l][i] = q[l][i] BY <1>7, <2>2
  <2> QED BY <1>4, <2>1, <2>3
<1> QED BY <1>1, <1>3, <1>8, QueuesResized

LEMMA LeaveResizes ==
  ASSUME IInv, NEW p \in Procs, Leave(p)
  PROVE  Fifos!Next
<1>1. /\ count' \in 2 .. count /\ Begins(Kept(Queues, count'), Queues')
      /\ Inside(Queues') = Inside(Queues) /\ ListInv'
  BY LeaveQueues
<1>2. count \in Nat BY CountType DEF IInv
<1>3. PICK m \in Nat : m = count' BY <1>1, <1>2
<1>4. PICK q : q = Queues OBVIOUS
<1>5. PICK r : r = Queues' OBVIOUS
<1>6. Begins(Kept(q, m), r) BY <1>1, <1>3, <1>4, <1>5
<1>7. \A l \in Lanes : l < m => Len(q[l]) <= Len(r[l]) /\ \A i \in 1 .. Len(q[l]) : r[l][i] = q[l][i]
  <2>1. TAKE l \in Lanes
  <2>2. l < m => l \in DOMAIN Kept(q, m) /\ Kept(q, m)[l] = q[l] BY <1>2 DEF Kept, Lanes
  <2> QED BY <1>6, <2>2 DEF Begins
<1>8. count' \in Nat BY <1>3
<1>9. \A l \in Lanes : l < count' => /\ Len(Queues[l]) <= Len(Queues'[l])
                                     /\ \A i \in 1 .. Len(Queues[l]) : Queues'[l][i] = Queues[l][i]
  BY <1>3, <1>4, <1>5, <1>7
<1> QED BY <1>1, <1>8, <1>9, QueuesResized

\* The ready queue, whatever its processors do at once, is a number of
\* first-in first-out lanes, and a processor that joins or leaves moves
\* threads to the end of lanes that stay and loses or doubles none of them
\* (ready_queue.cfa:68-263, cluster.cfa:268-412).
THEOREM LanesAreFifos == Spec => ImplementsFifos
<1>1. Init => Fifos!Init BY InitQueues DEF Fifos!Init, Queues
<1>2. IInv /\ [Next]_vars => [Fifos!Next]_Queues
  <2> SUFFICES ASSUME IInv, [Next]_vars PROVE Fifos!Next \/ Queues' = Queues OBVIOUS
  <2>1. CASE UNCHANGED <<lanes, count>> BY <2>1 DEF Queues, Lanes
  <2>2. CASE Next /\ ~UNCHANGED <<lanes, count>>
    <3>1. PICK p \in Procs : PushLink(p) \/ Pop(p) \/ Join(p) \/ Leave(p)
      BY <2>2 DEF Next, PushStart, PushUnlock, PopStart, SearchStart, TryEmpty, TryLock, PopEmpty,
                  PopUnlock, ReturnNone, queueVars
    <3> QED BY <3>1, PushLinkPushes, PopPops, JoinResizes, LeaveResizes
  <2>3. UNCHANGED vars => UNCHANGED <<lanes, count>> BY DEF vars, queueVars
  <2> QED BY <2>1, <2>2, <2>3
<1>3. [Fifos!Next]_Queues => [Fifos!Next]_([l \in Lanes |-> ThreadsOf(lanes, l)]) BY DEF Queues
<1> QED BY <1>1, <1>2, <1>3, InitInv, StepInv, PTL DEF Spec, ImplementsFifos, Fifos!Spec

-----------------------------------------------------------------------------
(***************************************************************************)
(* The lock around the queue, module SchedRWLock, for any number of kernel *)
(* threads.                                                                *)
(*                                                                         *)
(* The inductive invariant LockIInv says which cells are owned by whom,    *)
(* that there is one writer at a time, and which locks that writer holds   *)
(* at every point of its two loops: a reader whose cell lies in the range  *)
(* the writer holds waits for its own lock, and every reader lies in the   *)
(* range that the writer will have covered when it enters.                 *)
(***************************************************************************)

\* Ownership of the cells: those that are ready belong to registered threads,
\* those that are not to threads between steps 2 and 3 of their registration.
CellInv ==
  /\ ready <= alloc
  /\ \A k \in Kthreads : place[k] \in Registered =>
       id[k] \in Cells /\ id[k] < ready /\ data[id[k]] = k
  /\ \A k \in Kthreads : place[k] \in {"write", "publish"} =>
       /\ id[k] \in Cells /\ ready <= id[k] /\ id[k] < alloc
       /\ data[id[k]] = IF place[k] = "publish" THEN k ELSE None
  /\ \A j, k \in Kthreads :
       place[j] \in {"write", "publish"} /\ place[k] \in {"write", "publish"} /\ id[j] = id[k] => j = k
  /\ \A c \in Cells : data[c] # None =>
       id[data[c]] = c /\ place[data[c]] \in Registered \cup {"publish"}

\* The bounds of the loops of a registering thread and of a writer.
LoopInv ==
  \A k \in Kthreads :
    /\ place[k] \in {"scan", "load", "take", "writing"} \cup Unlocking =>
         idx[k] <= last[k] /\ last[k] <= ready
    /\ place[k] \in {"writing", "release"} => idx[k] = last[k]
    /\ place[k] \in {"take", "ustore"} => idx[k] < last[k]

OneWriter ==
  /\ \A k \in Kthreads : place[k] \in Writer => write_lock
  /\ \A j, k \in Kthreads : place[j] \in Writer /\ place[k] \in Writer => j = k
  /\ write_lock => \E k \in Kthreads : place[k] \in Writer

\* The writer w holds the lock of the thread in cell c.
HoldsCell(w, c) ==
  \/ place[w] \in {"load", "take", "writing"} /\ c < idx[w]
  \/ place[w] \in Unlocking /\ idx[w] <= c /\ c < last[w]

\* The lock a writer read from a cell is that of the cell's owner, except for
\* an owner that came later, which neither reads nor is locked.
LoadedInv ==
  \A w \in Kthreads : place[w] \in {"take", "ustore"} =>
    /\ llock[w] \in Kthreads
    /\ place[llock[w]] \in Registered \cup {"left", "gone"}
    /\ id[llock[w]] = idx[w]
    /\ \A k \in Kthreads :
         place[k] \in Registered /\ id[k] = idx[w] /\ (place[k] \in Reader \/ sched_lock[k]) => llock[w] = k

\* Who holds the lock of a kernel thread.
HolderInv ==
  /\ \A k \in Kthreads : place[k] = "reading" => sched_lock[k]
  /\ \A k \in Kthreads : sched_lock[k] /\ place[k] \notin {"reading", "left", "gone"} =>
       place[k] \in Registered /\ \E w \in Kthreads : HoldsCell(w, id[k])

\* Readers and the writer.
CoverInv ==
  \A w, k \in Kthreads : place[w] \in Writer /\ place[k] \in Reader =>
    /\ HoldsCell(w, id[k]) => place[k] = "enter" /\ sched_lock[k]
    /\ place[w] # "size" => id[k] < last[w]

LockIInv ==
  LockTypeOK /\ CellInv /\ LoopInv /\ OneWriter /\ LoadedInv /\ HolderInv /\ CoverInv
(***************************************************************************)
(* One lemma per action, one step per conjunct of the invariant.           *)
(***************************************************************************)
USE SchedRWLockAssumption DEF Cells, Go, Registering, Registered, Reader, Writer, Locking, Unlocking

LEMMA HolderIsWriter ==
  ASSUME NEW w \in Kthreads, NEW c \in Cells, HoldsCell(w, c)
  PROVE  place[w] \in Writer
BY DEF HoldsCell

LEMMA WriterUnlocksNoReader ==
  ASSUME LockIInv, NEW w \in Kthreads, place[w] = "ustore"
  PROVE  place[llock[w]] # "reading"
<1>1. llock[w] \in Kthreads /\ id[llock[w]] = idx[w] /\ idx[w] < last[w]
  BY DEF LockIInv, LoadedInv, LoopInv
<1>2. HoldsCell(w, id[llock[w]])
  BY <1>1 DEF LockIInv, LockTypeOK, HoldsCell
<1>. QED BY <1>1, <1>2 DEF LockIInv, CoverInv

LEMMA RegisterStartStep ==
  ASSUME LockIInv, NEW n \in Kthreads, RegisterStart(n)
  PROVE  LockIInv'
<1>1. LockTypeOK'
  BY DEF LockIInv, LockTypeOK, RegisterStart
<1>2. CellInv'
  BY DEF LockIInv, CellInv, RegisterStart
<1>3. LoopInv'
  BY DEF LockIInv, LockTypeOK, LoopInv, RegisterStart
<1>4. OneWriter'
  BY DEF LockIInv, OneWriter, RegisterStart
<1>5. LoadedInv'
  BY DEF LockIInv, LoadedInv, RegisterStart
<1>6. HolderInv'
  BY DEF LockIInv, HolderInv, RegisterStart, HoldsCell
<1>7. CoverInv'
  BY DEF LockIInv, CoverInv, RegisterStart, HoldsCell
<1>. QED BY <1>1, <1>2, <1>3, <1>4, <1>5, <1>6, <1>7 DEF LockIInv

LEMMA TakeFreeStep ==
  ASSUME LockIInv, NEW n \in Kthreads, TakeFree(n)
  PROVE  LockIInv'
<1>1. LockTypeOK'
  BY DEF LockIInv, LockTypeOK, TakeFree
<1>2. CellInv'
  BY DEF LockIInv, LockTypeOK, CellInv, LoopInv, TakeFree
<1>3. LoopInv'
  BY DEF LockIInv, LoopInv, TakeFree
<1>4. OneWriter'
  BY DEF LockIInv, OneWriter, TakeFree
<1>5. LoadedInv'
  BY DEF LockIInv, LockTypeOK, CellInv, LoopInv, LoadedInv, HolderInv, TakeFree
<1>6. HolderInv'
  <2>1. ~sched_lock[n]
    BY DEF LockIInv, LockTypeOK, HolderInv, TakeFree
  <2>2. ASSUME NEW k \in Kthreads, sched_lock[k], place'[k] \notin {"reading", "left", "gone"}
        PROVE  place'[k] \in Registered /\ \E w \in Kthreads : HoldsCell(w, id[k])'
    <3>1. k # n
      BY <2>1, <2>2
    <3>2. place[k] = place'[k] /\ id[k] = id'[k]
      BY <3>1 DEF LockIInv, LockTypeOK, TakeFree
    <3>3. PICK w \in Kthreads : HoldsCell(w, id[k])
      BY <2>2, <3>2 DEF LockIInv, HolderInv
    <3>4. w # n /\ HoldsCell(w, id[k])'
      BY <3>2, <3>3 DEF LockIInv, LockTypeOK, TakeFree, HoldsCell
    <3>. QED BY <2>2, <3>2, <3>4 DEF LockIInv, HolderInv
  <2>. QED BY <2>2 DEF LockIInv, LockTypeOK, HolderInv, TakeFree
<1>7. CoverInv'
  BY DEF LockIInv, CoverInv, TakeFree, HoldsCell
<1>. QED BY <1>1, <1>2, <1>3, <1>4, <1>5, <1>6, <1>7 DEF LockIInv

LEMMA SkipTakenStep ==
  ASSUME LockIInv, NEW n \in Kthreads, SkipTaken(n)
  PROVE  LockIInv'
<1>1. LockTypeOK'
  BY DEF LockIInv, LockTypeOK, SkipTaken
<1>2. CellInv'
  BY DEF LockIInv, CellInv, SkipTaken
<1>3. LoopInv'
  BY DEF LockIInv, LockTypeOK, LoopInv, SkipTaken
<1>4. OneWriter'
  BY DEF LockIInv, OneWriter, SkipTaken
<1>5. LoadedInv'
  BY DEF LockIInv, LoadedInv, SkipTaken
<1>6. HolderInv'
  BY DEF LockIInv, HolderInv, SkipTaken, HoldsCell
<1>7. CoverInv'
  BY DEF LockIInv, CoverInv, SkipTaken, HoldsCell
<1>. QED BY <1>1, <1>2, <1>3, <1>4, <1>5, <1>6, <1>7 DEF LockIInv

LEMMA AllocCellStep ==
  ASSUME LockIInv, NEW n \in Kthreads, AllocCell(n)
  PROVE  LockIInv'
<1>1. LockTypeOK'
  BY DEF LockIInv, LockTypeOK, AllocCell
<1>2. CellInv'
  <2>1. /\ place[n] = "scan" /\ place'[n] = "write" /\ id'[n] = alloc
        /\ alloc \in Cells /\ ready <= alloc /\ alloc' = alloc + 1
        /\ ready' = ready /\ data' = data
    BY DEF LockIInv, LockTypeOK, CellInv, AllocCell
  <2>2. ASSUME NEW k \in Kthreads, k # n
        PROVE  place'[k] = place[k] /\ id'[k] = id[k]
    BY <2>2 DEF LockIInv, LockTypeOK, AllocCell
  <2>3. data[alloc] = None
    <3>1. SUFFICES ASSUME data[alloc] # None PROVE FALSE
      OBVIOUS
    <3>2. data[alloc] \in Kthreads /\ id[data[alloc]] = alloc
      BY <2>1, <3>1 DEF LockIInv, LockTypeOK, CellInv
    <3>3. place[data[alloc]] \in Registered \cup {"publish"}
      BY <2>1, <3>1 DEF LockIInv, CellInv
    <3>4. CASE place[data[alloc]] \in Registered
      BY <2>1, <3>2, <3>4 DEF LockIInv, LockTypeOK, CellInv
    <3>5. CASE place[data[alloc]] = "publish"
      BY <2>1, <3>2, <3>5 DEF LockIInv, LockTypeOK, CellInv
    <3>. QED BY <3>3, <3>4, <3>5
  <2>4. ready' <= alloc'
    BY <2>1 DEF LockIInv, LockTypeOK
  <2>5. \A k \in Kthreads : place'[k] \in Registered =>
          id'[k] \in Cells /\ id'[k] < ready' /\ data'[id'[k]] = k
    BY <2>1, <2>2 DEF LockIInv, CellInv
  <2>6. ASSUME NEW k \in Kthreads, place'[k] \in {"write", "publish"}
        PROVE  /\ id'[k] \in Cells /\ ready' <= id'[k] /\ id'[k] < alloc'
               /\ data'[id'[k]] = IF place'[k] = "publish" THEN k ELSE None
    <3>1. CASE k = n
      BY <2>1, <2>3, <3>1
    <3>2. CASE k # n
      BY <2>1, <2>2, <2>6, <3>2 DEF LockIInv, CellInv
    <3>. QED BY <3>1, <3>2
  <2>7. ASSUME NEW j \in Kthreads, NEW k \in Kthreads,
               place'[j] \in {"write", "publish"}, place'[k] \in {"write", "publish"}, id'[j] = id'[k]
        PROVE  j = k
    <3>1. \A i \in Kthreads : i # n /\ place[i] \in {"write", "publish"} => id[i] < alloc /\ id[i] \in Cells
      BY DEF LockIInv, CellInv
    <3>2. CASE j # n /\ k # n
      BY <2>2, <2>7, <3>2 DEF LockIInv, CellInv
    <3>3. CASE j = n /\ k # n
      BY <2>1, <2>2, <2>7, <3>1, <3>3
    <3>4. CASE j # n /\ k = n
      BY <2>1, <2>2, <2>7, <3>1, <3>4
    <3>. QED BY <3>2, <3>3, <3>4
  <2>8. ASSUME NEW c \in Cells, data'[c] # None
        PROVE  id'[data'[c]] = c /\ place'[data'[c]] \in Registered \cup {"publish"}
    <3>1. data[c] \in Kthreads /\ id[data[c]] = c /\ place[data[c]] \in Registered \cup {"publish"}
      BY <2>1, <2>8 DEF LockIInv, LockTypeOK, CellInv
    <3>2. data[c] # n
      BY <2>1, <3>1
    <3>. QED BY <2>1, <2>2, <3>1, <3>2
  <2>. QED BY <2>4, <2>5, <2>6, <2>7, <2>8 DEF CellInv
<1>3. LoopInv'
  BY DEF LockIInv, LoopInv, AllocCell
<1>4. OneWriter'
  BY DEF LockIInv, OneWriter, AllocCell
<1>5. LoadedInv'
  <2>. SUFFICES ASSUME NEW w \in Kthreads, place'[w] \in {"take", "ustore"}
                PROVE  /\ llock'[w] \in Kthreads
                       /\ place'[llock'[w]] \in Registered \cup {"left", "gone"}
                       /\ id'[llock'[w]] = idx'[w]
                       /\ \A k \in Kthreads :
                            /\ place'[k] \in Registered
                            /\ id'[k] = idx'[w]
                            /\ place'[k] \in Reader \/ sched_lock'[k]
                            => llock'[w] = k
    BY DEF LoadedInv
  <2>1. place[w] = place'[w] /\ w # n
    BY DEF LockIInv, LockTypeOK, AllocCell
  <2>2. llock[w] # n
    BY <2>1 DEF LockIInv, LoadedInv, AllocCell
  <2>. QED BY <2>1, <2>2 DEF LockIInv, LockTypeOK, LoadedInv, AllocCell
<1>6. HolderInv'
  BY DEF LockIInv, HolderInv, AllocCell, HoldsCell
<1>7. CoverInv'
  BY DEF LockIInv, CoverInv, AllocCell, HoldsCell
<1>. QED BY <1>1, <1>2, <1>3, <1>4, <1>5, <1>6, <1>7 DEF LockIInv

LEMMA WriteCellStep ==
  ASSUME LockIInv, NEW n \in Kthreads, WriteCell(n)
  PROVE  LockIInv'
<1>1. LockTypeOK'
  BY DEF LockIInv, LockTypeOK, WriteCell
<1>2. CellInv'
  BY DEF LockIInv, LockTypeOK, CellInv, WriteCell
<1>3. LoopInv'
  BY DEF LockIInv, LoopInv, WriteCell
<1>4. OneWriter'
  BY DEF LockIInv, OneWriter, WriteCell
<1>5. LoadedInv'
  BY DEF LockIInv, LoadedInv, WriteCell
<1>6. HolderInv'
  BY DEF LockIInv, HolderInv, WriteCell, HoldsCell
<1>7. CoverInv'
  BY DEF LockIInv, CoverInv, WriteCell, HoldsCell
<1>. QED BY <1>1, <1>2, <1>3, <1>4, <1>5, <1>6, <1>7 DEF LockIInv

LEMMA PublishCellStep ==
  ASSUME LockIInv, NEW n \in Kthreads, PublishCell(n)
  PROVE  LockIInv'
<1>1. LockTypeOK'
  BY DEF LockIInv, LockTypeOK, CellInv, PublishCell
<1>2. CellInv'
  BY DEF LockIInv, LockTypeOK, CellInv, PublishCell
<1>3. LoopInv'
  BY DEF LockIInv, LockTypeOK, LoopInv, PublishCell
<1>4. OneWriter'
  BY DEF LockIInv, OneWriter, PublishCell
<1>5. LoadedInv'
  BY DEF LockIInv, LockTypeOK, CellInv, LoopInv, LoadedInv, PublishCell
<1>6. HolderInv'
  BY DEF LockIInv, HolderInv, PublishCell, HoldsCell
<1>7. CoverInv'
  BY DEF LockIInv, CoverInv, PublishCell, HoldsCell
<1>. QED BY <1>1, <1>2, <1>3, <1>4, <1>5, <1>6, <1>7 DEF LockIInv

LEMMA UnregisterStep ==
  ASSUME LockIInv, NEW n \in Kthreads, Unregister(n)
  PROVE  LockIInv'
<1>1. LockTypeOK'
  BY DEF LockIInv, LockTypeOK, Unregister
<1>2. CellInv'
  BY DEF LockIInv, LockTypeOK, CellInv, Unregister
<1>3. LoopInv'
  BY DEF LockIInv, LoopInv, Unregister
<1>4. OneWriter'
  BY DEF LockIInv, OneWriter, Unregister
<1>5. LoadedInv'
  BY DEF LockIInv, LoadedInv, Unregister
<1>6. HolderInv'
  BY DEF LockIInv, HolderInv, Unregister, HoldsCell
<1>7. CoverInv'
  BY DEF LockIInv, CoverInv, Unregister, HoldsCell
<1>. QED BY <1>1, <1>2, <1>3, <1>4, <1>5, <1>6, <1>7 DEF LockIInv

LEMMA ExitStep ==
  ASSUME LockIInv, NEW n \in Kthreads, Exit(n)
  PROVE  LockIInv'
<1>1. LockTypeOK'
  BY DEF LockIInv, LockTypeOK, Exit
<1>2. CellInv'
  BY DEF LockIInv, CellInv, Exit
<1>3. LoopInv'
  BY DEF LockIInv, LoopInv, Exit
<1>4. OneWriter'
  BY DEF LockIInv, OneWriter, Exit
<1>5. LoadedInv'
  BY DEF LockIInv, LoadedInv, Exit
<1>6. HolderInv'
  BY DEF LockIInv, HolderInv, Exit, HoldsCell
<1>7. CoverInv'
  BY DEF LockIInv, CoverInv, Exit, HoldsCell
<1>. QED BY <1>1, <1>2, <1>3, <1>4, <1>5, <1>6, <1>7 DEF LockIInv

LEMMA ReadWaitStep ==
  ASSUME LockIInv, NEW n \in Kthreads, ReadWait(n)
  PROVE  LockIInv'
<1>1. LockTypeOK'
  BY DEF LockIInv, LockTypeOK, ReadWait
<1>2. CellInv'
  BY DEF LockIInv, CellInv, ReadWait
<1>3. LoopInv'
  BY DEF LockIInv, LoopInv, ReadWait
<1>4. OneWriter'
  BY DEF LockIInv, OneWriter, ReadWait
<1>5. LoadedInv'
  BY DEF LockIInv, LockTypeOK, CellInv, LoopInv, OneWriter, LoadedInv, ReadWait
<1>6. HolderInv'
  BY DEF LockIInv, HolderInv, ReadWait, HoldsCell
<1>7. CoverInv'
  BY DEF LockIInv, LockTypeOK, CellInv, LoopInv, OneWriter, CoverInv, ReadWait, HoldsCell
<1>. QED BY <1>1, <1>2, <1>3, <1>4, <1>5, <1>6, <1>7 DEF LockIInv

LEMMA ReadAcquireStep ==
  ASSUME LockIInv, NEW n \in Kthreads, ReadAcquire(n)
  PROVE  LockIInv'
<1>1. LockTypeOK'
  BY DEF LockIInv, LockTypeOK, ReadAcquire
<1>2. CellInv'
  BY DEF LockIInv, CellInv, ReadAcquire
<1>3. LoopInv'
  BY DEF LockIInv, LoopInv, ReadAcquire
<1>4. OneWriter'
  BY DEF LockIInv, OneWriter, ReadAcquire
<1>5. LoadedInv'
  BY DEF LockIInv, LoadedInv, ReadAcquire
<1>6. HolderInv'
  <2>1. place[n] = "enter" /\ place'[n] = "reading" /\ sched_lock'[n]
    BY DEF LockIInv, LockTypeOK, ReadAcquire
  <2>2. ASSUME NEW k \in Kthreads, k # n
        PROVE  place'[k] = place[k] /\ sched_lock'[k] = sched_lock[k]
    BY <2>2 DEF LockIInv, LockTypeOK, ReadAcquire
  <2>3. id' = id /\ idx' = idx /\ last' = last
    BY DEF ReadAcquire
  <2>4. ASSUME NEW k \in Kthreads, place'[k] = "reading"
        PROVE  sched_lock'[k]
    BY <2>1, <2>2, <2>4 DEF LockIInv, HolderInv
  <2>5. ASSUME NEW k \in Kthreads, sched_lock'[k], place'[k] \notin {"reading", "left", "gone"}
        PROVE  place'[k] \in Registered /\ \E w \in Kthreads : HoldsCell(w, id[k])'
    <3>1. k # n
      BY <2>1, <2>5
    <3>2. sched_lock[k] /\ place[k] = place'[k]
      BY <2>2, <2>5, <3>1
    <3>3. PICK w \in Kthreads : HoldsCell(w, id[k])
      BY <2>5, <3>2 DEF LockIInv, HolderInv
    <3>4. place'[w] = place[w]
      BY <2>1, <2>2, <3>3 DEF HoldsCell
    <3>5. HoldsCell(w, id[k])'
      BY <2>3, <3>3, <3>4 DEF HoldsCell
    <3>6. place[k] \in Registered
      BY <2>5, <3>2 DEF LockIInv, HolderInv
    <3>. QED BY <3>2, <3>5, <3>6
  <2>. QED BY <2>4, <2>5 DEF HolderInv
<1>7. CoverInv'
  BY DEF LockIInv, CoverInv, ReadAcquire, HoldsCell
<1>. QED BY <1>1, <1>2, <1>3, <1>4, <1>5, <1>6, <1>7 DEF LockIInv

LEMMA ReadUnlockStep ==
  ASSUME LockIInv, NEW n \in Kthreads, ReadUnlock(n)
  PROVE  LockIInv'
<1>1. LockTypeOK'
  BY DEF LockIInv, LockTypeOK, ReadUnlock
<1>2. CellInv'
  BY DEF LockIInv, CellInv, ReadUnlock
<1>3. LoopInv'
  BY DEF LockIInv, LoopInv, ReadUnlock
<1>4. OneWriter'
  BY DEF LockIInv, OneWriter, ReadUnlock
<1>5. LoadedInv'
  BY DEF LockIInv, LoadedInv, ReadUnlock
<1>6. HolderInv'
  BY DEF LockIInv, LockTypeOK, CellInv, LoopInv, OneWriter, HolderInv, ReadUnlock, HoldsCell
<1>7. CoverInv'
  BY DEF LockIInv, CoverInv, ReadUnlock, HoldsCell
<1>. QED BY <1>1, <1>2, <1>3, <1>4, <1>5, <1>6, <1>7 DEF LockIInv

LEMMA MutateAcquireStep ==
  ASSUME LockIInv, NEW n \in Kthreads, MutateAcquire(n)
  PROVE  LockIInv'
<1>1. LockTypeOK'
  BY DEF LockIInv, LockTypeOK, MutateAcquire
<1>2. CellInv'
  BY DEF LockIInv, CellInv, MutateAcquire
<1>3. LoopInv'
  BY DEF LockIInv, LoopInv, MutateAcquire
<1>4. OneWriter'
  BY DEF LockIInv, LockTypeOK, OneWriter, MutateAcquire
<1>5. LoadedInv'
  BY DEF LockIInv, LoadedInv, MutateAcquire
<1>6. HolderInv'
  BY DEF LockIInv, HolderInv, MutateAcquire, HoldsCell
<1>7. CoverInv'
  BY DEF LockIInv, CoverInv, MutateAcquire, HoldsCell
<1>. QED BY <1>1, <1>2, <1>3, <1>4, <1>5, <1>6, <1>7 DEF LockIInv

LEMMA MutateSizeStep ==
  ASSUME LockIInv, NEW n \in Kthreads, MutateSize(n)
  PROVE  LockIInv'
<1>1. LockTypeOK'
  BY DEF LockIInv, LockTypeOK, MutateSize
<1>2. CellInv'
  BY DEF LockIInv, CellInv, MutateSize
<1>3. LoopInv'
  BY DEF LockIInv, LockTypeOK, LoopInv, MutateSize
<1>4. OneWriter'
  BY DEF LockIInv, OneWriter, MutateSize
<1>5. LoadedInv'
  BY DEF LockIInv, LoadedInv, MutateSize
<1>6. HolderInv'
  BY DEF LockIInv, HolderInv, MutateSize, HoldsCell
<1>7. CoverInv'
  BY DEF LockIInv, LockTypeOK, CellInv, CoverInv, MutateSize, HoldsCell
<1>. QED BY <1>1, <1>2, <1>3, <1>4, <1>5, <1>6, <1>7 DEF LockIInv

LEMMA MutateLoadStep ==
  ASSUME LockIInv, NEW n \in Kthreads, MutateLoad(n)
  PROVE  LockIInv'
<1>1. CASE LoadLock(n, "load", "take")
  <2>1. LockTypeOK'
    BY <1>1 DEF LockIInv, LockTypeOK, LoadLock
  <2>2. CellInv'
    BY <1>1 DEF LockIInv, CellInv, LoadLock
  <2>3. LoopInv'
    BY <1>1 DEF LockIInv, LoopInv, LoadLock
  <2>4. OneWriter'
    BY <1>1 DEF LockIInv, OneWriter, LoadLock
  <2>5. LoadedInv'
    BY <1>1 DEF LockIInv, LockTypeOK, CellInv, LoopInv, LoadedInv, LoadLock
  <2>6. HolderInv'
    BY <1>1 DEF LockIInv, HolderInv, LoadLock, HoldsCell
  <2>7. CoverInv'
    BY <1>1 DEF LockIInv, CoverInv, LoadLock, HoldsCell
  <2>. QED BY <2>1, <2>2, <2>3, <2>4, <2>5, <2>6, <2>7 DEF LockIInv
<1>2. CASE SkipEmpty(n, "load")
  <2>1. LockTypeOK'
    BY <1>2 DEF LockIInv, LockTypeOK, SkipEmpty
  <2>2. CellInv'
    BY <1>2 DEF LockIInv, CellInv, SkipEmpty
  <2>3. LoopInv'
    BY <1>2 DEF LockIInv, LockTypeOK, LoopInv, SkipEmpty
  <2>4. OneWriter'
    BY <1>2 DEF LockIInv, OneWriter, SkipEmpty
  <2>5. LoadedInv'
    BY <1>2 DEF LockIInv, LoadedInv, SkipEmpty
  <2>6. HolderInv'
    BY <1>2 DEF LockIInv, LockTypeOK, CellInv, HolderInv, SkipEmpty, HoldsCell
  <2>7. CoverInv'
    BY <1>2 DEF LockIInv, LockTypeOK, CellInv, CoverInv, SkipEmpty, HoldsCell
  <2>. QED BY <2>1, <2>2, <2>3, <2>4, <2>5, <2>6, <2>7 DEF LockIInv
<1>3. CASE EndLoop(n, "load", "writing")
  <2>1. LockTypeOK'
    BY <1>3 DEF LockIInv, LockTypeOK, EndLoop
  <2>2. CellInv'
    BY <1>3 DEF LockIInv, CellInv, EndLoop
  <2>3. LoopInv'
    BY <1>3 DEF LockIInv, LoopInv, EndLoop
  <2>4. OneWriter'
    BY <1>3 DEF LockIInv, OneWriter, EndLoop
  <2>5. LoadedInv'
    BY <1>3 DEF LockIInv, LoadedInv, EndLoop
  <2>6. HolderInv'
    BY <1>3 DEF LockIInv, HolderInv, EndLoop, HoldsCell
  <2>7. CoverInv'
    BY <1>3 DEF LockIInv, CoverInv, EndLoop, HoldsCell
  <2>. QED BY <2>1, <2>2, <2>3, <2>4, <2>5, <2>6, <2>7 DEF LockIInv
<1>. QED BY <1>1, <1>2, <1>3 DEF MutateLoad

LEMMA MutateTakeStep ==
  ASSUME LockIInv, NEW n \in Kthreads, MutateTake(n)
  PROVE  LockIInv'
<1>1. LockTypeOK'
  BY DEF LockIInv, LockTypeOK, CellInv, LoopInv, LoadedInv, HolderInv, MutateTake
<1>2. CellInv'
  BY DEF LockIInv, CellInv, MutateTake
<1>3. LoopInv'
  BY DEF LockIInv, LockTypeOK, LoopInv, MutateTake
<1>4. OneWriter'
  BY DEF LockIInv, OneWriter, MutateTake
<1>5. LoadedInv'
  BY DEF LockIInv, LockTypeOK, CellInv, LoopInv, OneWriter, LoadedInv, MutateTake
<1>6. HolderInv'
  <2>1. /\ place[n] = "take" /\ place' = [place EXCEPT ![n] = "load"] /\ ~sched_lock[llock[n]]
        /\ sched_lock' = [sched_lock EXCEPT ![llock[n]] = TRUE]
        /\ idx' = [idx EXCEPT ![n] = @ + 1] /\ id' = id /\ last' = last
    BY DEF MutateTake
  <2>2. /\ llock[n] \in Kthreads /\ id[llock[n]] = idx[n]
        /\ place[llock[n]] \in Registered \cup {"left", "gone"}
    BY <2>1 DEF LockIInv, LoadedInv
  <2>3. /\ place \in [Kthreads -> {"out", "left", "gone"} \cup Registering \cup Registered]
        /\ sched_lock \in [Kthreads -> BOOLEAN] /\ id \in [Kthreads -> Cells \cup {-1}] /\ idx \in [Kthreads -> 0 .. MaxCells]
    BY DEF LockIInv, LockTypeOK
  <2>4. /\ place'[n] = "load" /\ idx'[n] = idx[n] + 1
        /\ \A w \in Kthreads \ {n} : place'[w] = place[w] /\ idx'[w] = idx[w]
        /\ \A k \in Kthreads \ {llock[n]} : sched_lock'[k] = sched_lock[k]
        /\ sched_lock'[llock[n]]
    BY <2>1, <2>2, <2>3
  <2>5. ASSUME NEW k \in Kthreads, place'[k] = "reading" PROVE sched_lock'[k]
    BY <2>4, <2>5 DEF LockIInv, HolderInv
  <2>6. ASSUME NEW k \in Kthreads, sched_lock'[k], place'[k] \notin {"reading", "left", "gone"}
        PROVE  place'[k] \in Registered /\ \E w \in Kthreads : HoldsCell(w, id[k])'
    <3>1. CASE k = llock[n]
      <4>1. HoldsCell(n, id[k])'
        BY <2>1, <2>2, <2>3, <2>4, <3>1 DEF HoldsCell
      <4>2. place'[k] \in Registered
        BY <2>2, <2>4, <2>6, <3>1
      <4>. QED BY <4>1, <4>2
    <3>2. CASE k # llock[n]
      <4>1. sched_lock[k] /\ place[k] \notin {"reading", "left", "gone"}
        BY <2>1, <2>4, <2>6, <3>2
      <4>2. place[k] \in Registered /\ \E w \in Kthreads : HoldsCell(w, id[k])
        BY <4>1 DEF LockIInv, HolderInv
      <4>3. PICK w \in Kthreads : HoldsCell(w, id[k])
        BY <4>2
      <4>4. HoldsCell(w, id[k])'
        BY <2>1, <2>3, <2>4, <4>3 DEF HoldsCell
      <4>5. place'[k] \in Registered
        BY <2>4, <4>2
      <4>. QED BY <4>4, <4>5
    <3>. QED BY <3>1, <3>2
  <2>. QED BY <2>1, <2>5, <2>6 DEF HolderInv
<1>7. CoverInv'
  <2>1. /\ place[n] = "take" /\ place' = [place EXCEPT ![n] = "load"] /\ ~sched_lock[llock[n]]
        /\ sched_lock' = [sched_lock EXCEPT ![llock[n]] = TRUE]
        /\ idx' = [idx EXCEPT ![n] = @ + 1] /\ id' = id /\ last' = last
    BY DEF MutateTake
  <2>2. llock[n] \in Kthreads /\ id[llock[n]] = idx[n]
    BY <2>1 DEF LockIInv, LoadedInv
  <2>3. ASSUME NEW w \in Kthreads, NEW k \in Kthreads, place'[w] \in Writer, place'[k] \in Reader
        PROVE  w = n /\ place'[k] = place[k] /\ k # n
    BY <2>1, <2>3 DEF LockIInv, LockTypeOK, OneWriter
  <2>4. ASSUME NEW k \in Kthreads, place[k] \in Reader, k # n
        PROVE  id[k] < last[n]
    BY <2>1, <2>4 DEF LockIInv, CoverInv
  <2>5. ASSUME NEW k \in Kthreads, place[k] \in Reader, k # n, HoldsCell(n, id[k])'
        PROVE  place[k] = "enter" /\ sched_lock'[k]
    <3>1. id[k] \in Cells /\ id[k] < idx[n] + 1
      BY <2>1, <2>5 DEF LockIInv, LockTypeOK, CellInv, HoldsCell
    <3>2. CASE id[k] = idx[n]
      <4>1. llock[n] = k
        BY <2>1, <2>5, <3>2 DEF LockIInv, LoadedInv
      <4>2. sched_lock'[k]
        BY <2>1, <4>1 DEF LockIInv, LockTypeOK
      <4>3. place[k] # "reading"
        BY <2>1, <4>1 DEF LockIInv, HolderInv
      <4>. QED BY <2>5, <4>2, <4>3
    <3>3. CASE id[k] # idx[n]
      <4>1. HoldsCell(n, id[k])
        BY <2>1, <3>1, <3>3 DEF LockIInv, LockTypeOK, HoldsCell
      <4>2. place[k] = "enter" /\ sched_lock[k]
        BY <2>1, <2>5, <4>1 DEF LockIInv, CoverInv
      <4>. QED BY <2>1, <2>2, <4>2 DEF LockIInv, LockTypeOK
    <3>. QED BY <3>2, <3>3
  <2>. QED BY <2>1, <2>3, <2>4, <2>5 DEF CoverInv
<1>. QED BY <1>1, <1>2, <1>3, <1>4, <1>5, <1>6, <1>7 DEF LockIInv

LEMMA MutateUnlockStep ==
  ASSUME LockIInv, NEW n \in Kthreads, MutateUnlock(n)
  PROVE  LockIInv'
<1>1. LockTypeOK'
  BY DEF LockIInv, LockTypeOK, MutateUnlock
<1>2. CellInv'
  BY DEF LockIInv, CellInv, MutateUnlock
<1>3. LoopInv'
  BY DEF LockIInv, LockTypeOK, LoopInv, MutateUnlock
<1>4. OneWriter'
  BY DEF LockIInv, OneWriter, MutateUnlock
<1>5. LoadedInv'
  BY DEF LockIInv, LoadedInv, MutateUnlock
<1>6. HolderInv'
  BY DEF LockIInv, LockTypeOK, CellInv, LoopInv, HolderInv, MutateUnlock, HoldsCell
<1>7. CoverInv'
  BY DEF LockIInv, LockTypeOK, CellInv, LoopInv, CoverInv, MutateUnlock, HoldsCell
<1>. QED BY <1>1, <1>2, <1>3, <1>4, <1>5, <1>6, <1>7 DEF LockIInv

LEMMA UnlockLoadStep ==
  ASSUME LockIInv, NEW n \in Kthreads, UnlockLoad(n)
  PROVE  LockIInv'
<1>1. CASE LoadLock(n, "uload", "ustore")
  <2>1. LockTypeOK'
    BY <1>1 DEF LockIInv, LockTypeOK, LoadLock
  <2>2. CellInv'
    BY <1>1 DEF LockIInv, CellInv, LoadLock
  <2>3. LoopInv'
    BY <1>1 DEF LockIInv, LoopInv, LoadLock
  <2>4. OneWriter'
    BY <1>1 DEF LockIInv, OneWriter, LoadLock
  <2>5. LoadedInv'
    BY <1>1 DEF LockIInv, LockTypeOK, CellInv, LoopInv, LoadedInv, LoadLock
  <2>6. HolderInv'
    BY <1>1 DEF LockIInv, HolderInv, LoadLock, HoldsCell
  <2>7. CoverInv'
    BY <1>1 DEF LockIInv, CoverInv, LoadLock, HoldsCell
  <2>. QED BY <2>1, <2>2, <2>3, <2>4, <2>5, <2>6, <2>7 DEF LockIInv
<1>2. CASE SkipEmpty(n, "uload")
  <2>1. LockTypeOK'
    BY <1>2 DEF LockIInv, LockTypeOK, SkipEmpty
  <2>2. CellInv'
    BY <1>2 DEF LockIInv, CellInv, SkipEmpty
  <2>3. LoopInv'
    BY <1>2 DEF LockIInv, LockTypeOK, LoopInv, SkipEmpty
  <2>4. OneWriter'
    BY <1>2 DEF LockIInv, OneWriter, SkipEmpty
  <2>5. LoadedInv'
    BY <1>2 DEF LockIInv, LoadedInv, SkipEmpty
  <2>6. HolderInv'
    BY <1>2 DEF LockIInv, LockTypeOK, CellInv, HolderInv, SkipEmpty, HoldsCell
  <2>7. CoverInv'
    BY <1>2 DEF LockIInv, LockTypeOK, CoverInv, SkipEmpty, HoldsCell
  <2>. QED BY <2>1, <2>2, <2>3, <2>4, <2>5, <2>6, <2>7 DEF LockIInv
<1>3. CASE EndLoop(n, "uload", "release")
  <2>1. LockTypeOK'
    BY <1>3 DEF LockIInv, LockTypeOK, EndLoop
  <2>2. CellInv'
    BY <1>3 DEF LockIInv, CellInv, EndLoop
  <2>3. LoopInv'
    BY <1>3 DEF LockIInv, LoopInv, EndLoop
  <2>4. OneWriter'
    BY <1>3 DEF LockIInv, OneWriter, EndLoop
  <2>5. LoadedInv'
    BY <1>3 DEF LockIInv, LoadedInv, EndLoop
  <2>6. HolderInv'
    BY <1>3 DEF LockIInv, HolderInv, EndLoop, HoldsCell
  <2>7. CoverInv'
    BY <1>3 DEF LockIInv, CoverInv, EndLoop, HoldsCell
  <2>. QED BY <2>1, <2>2, <2>3, <2>4, <2>5, <2>6, <2>7 DEF LockIInv
<1>. QED BY <1>1, <1>2, <1>3 DEF UnlockLoad

LEMMA UnlockStoreStep ==
  ASSUME LockIInv, NEW n \in Kthreads, UnlockStore(n)
  PROVE  LockIInv'
<1>1. LockTypeOK'
  BY DEF LockIInv, LockTypeOK, CellInv, LoopInv, LoadedInv, HolderInv, UnlockStore
<1>2. CellInv'
  BY DEF LockIInv, CellInv, UnlockStore
<1>3. LoopInv'
  BY DEF LockIInv, LockTypeOK, LoopInv, UnlockStore
<1>4. OneWriter'
  BY DEF LockIInv, OneWriter, UnlockStore
<1>5. LoadedInv'
  BY DEF LockIInv, LockTypeOK, LoadedInv, UnlockStore
<1>6. HolderInv'
  <2>1. place[llock[n]] # "reading"
    BY WriterUnlocksNoReader DEF UnlockStore
  <2>2. ASSUME NEW k \in Kthreads, sched_lock'[k], place'[k] \notin {"reading", "left", "gone"}
        PROVE  place'[k] \in Registered /\ HoldsCell(n, id[k])'
    <3>1. sched_lock[k] /\ k # llock[n]
      BY <2>2 DEF LockIInv, LockTypeOK, LoadedInv, UnlockStore
    <3>2. place[k] \notin {"reading", "left", "gone"}
      BY <2>2 DEF LockIInv, LockTypeOK, UnlockStore
    <3>3. place[k] \in Registered /\ place'[k] \in Registered
      BY <3>1, <3>2 DEF LockIInv, LockTypeOK, HolderInv, UnlockStore
    <3>4. PICK w \in Kthreads : HoldsCell(w, id[k])
      BY <3>1, <3>2 DEF LockIInv, HolderInv
    <3>5. w = n
      BY <3>3, <3>4, HolderIsWriter DEF LockIInv, CellInv, OneWriter, UnlockStore
    <3>6. id[k] # idx[n]
      BY <3>1, <3>3 DEF LockIInv, LoadedInv, UnlockStore
    <3>. QED BY <3>3, <3>4, <3>5, <3>6 DEF LockIInv, LockTypeOK, CellInv, HoldsCell, UnlockStore
  <2>. QED BY <2>1, <2>2 DEF LockIInv, LockTypeOK, HolderInv, UnlockStore
<1>7. CoverInv'
  BY DEF LockIInv, LockTypeOK, CellInv, LoopInv, OneWriter, LoadedInv, HolderInv, CoverInv, UnlockStore, HoldsCell
<1>. QED BY <1>1, <1>2, <1>3, <1>4, <1>5, <1>6, <1>7 DEF LockIInv

LEMMA MutateReleaseStep ==
  ASSUME LockIInv, NEW n \in Kthreads, MutateRelease(n)
  PROVE  LockIInv'
<1>1. LockTypeOK'
  BY DEF LockIInv, LockTypeOK, MutateRelease
<1>2. CellInv'
  BY DEF LockIInv, CellInv, MutateRelease
<1>3. LoopInv'
  BY DEF LockIInv, LoopInv, MutateRelease
<1>4. OneWriter'
  BY DEF LockIInv, LockTypeOK, OneWriter, MutateRelease
<1>5. LoadedInv'
  BY DEF LockIInv, LoadedInv, MutateRelease
<1>6. HolderInv'
  <2>1. ASSUME NEW w \in Kthreads, NEW c \in Cells
        PROVE  ~HoldsCell(w, c)
    <3>1. HoldsCell(w, c) => w = n
      BY HolderIsWriter DEF LockIInv, OneWriter, MutateRelease
    <3>. QED BY <3>1 DEF LockIInv, LockTypeOK, LoopInv, HoldsCell, MutateRelease
  <2>. QED BY <2>1 DEF LockIInv, LockTypeOK, CellInv, HolderInv, MutateRelease
<1>7. CoverInv'
  BY DEF LockIInv, CoverInv, MutateRelease, HoldsCell
<1>. QED BY <1>1, <1>2, <1>3, <1>4, <1>5, <1>6, <1>7 DEF LockIInv

LEMMA LockStutter == LockIInv /\ UNCHANGED lockVars => LockIInv'
<1>. SUFFICES ASSUME LockIInv, UNCHANGED lockVars PROVE LockIInv'
  OBVIOUS
<1>. USE DEF lockVars
<1>1. LockTypeOK' /\ CellInv' /\ LoopInv' /\ OneWriter'
  BY DEF LockIInv, LockTypeOK, CellInv, LoopInv, OneWriter
<1>2. LoadedInv' /\ HolderInv' /\ CoverInv'
  BY DEF LockIInv, LoadedInv, HolderInv, CoverInv, HoldsCell
<1>. QED BY <1>1, <1>2 DEF LockIInv

LEMMA LockInitial == LockInit => LockIInv
<1>. SUFFICES ASSUME LockInit PROVE LockIInv
  OBVIOUS
<1>1. LockTypeOK
  <2>1. 0 \in 0 .. MaxCells
    OBVIOUS
  <2>2. alloc \in 0 .. MaxCells /\ ready \in 0 .. MaxCells /\ write_lock \in BOOLEAN
    BY <2>1 DEF LockInit
  <2>. QED BY <2>1, <2>2 DEF LockInit, LockTypeOK
<1>2. CellInv /\ LoopInv /\ OneWriter
  BY DEF LockInit, CellInv, LoopInv, OneWriter
<1>3. LoadedInv /\ HolderInv /\ CoverInv
  BY DEF LockInit, LoadedInv, HolderInv, CoverInv
<1>. QED BY <1>1, <1>2, <1>3 DEF LockIInv

-----------------------------------------------------------------------------
(***************************************************************************)
(* Theorems.                                                               *)
(***************************************************************************)
\* The invariant holds in every reachable state, whatever the number of
\* kernel threads that register, read, write and leave.
THEOREM LockInvariance == LockSpec => []LockIInv
<1>1. LockIInv /\ [LockNext]_lockVars => LockIInv'
  <2>. SUFFICES ASSUME LockIInv, LockNext PROVE LockIInv'
    BY LockStutter
  <2>1. PICK n \in Kthreads :
          \/ Register(n) \/ Unregister(n) \/ Exit(n)
          \/ ReadWait(n) \/ ReadStep(n)
          \/ MutateAcquire(n) \/ MutateStep(n)
    BY DEF LockNext
  <2>2. CASE Register(n)
    BY <2>2, RegisterStartStep, TakeFreeStep, SkipTakenStep, AllocCellStep, WriteCellStep,
       PublishCellStep, ZenonT(30) DEF Register
  <2>3. CASE Unregister(n) \/ Exit(n)
    BY <2>3, UnregisterStep, ExitStep
  <2>4. CASE ReadWait(n) \/ ReadStep(n)
    BY <2>4, ReadWaitStep, ReadAcquireStep, ReadUnlockStep DEF ReadStep
  <2>5. CASE MutateAcquire(n) \/ MutateStep(n)
    BY <2>5, MutateAcquireStep, MutateSizeStep, MutateLoadStep, MutateTakeStep, MutateUnlockStep,
       UnlockLoadStep, UnlockStoreStep, MutateReleaseStep, ZenonT(30) DEF MutateStep
  <2>. QED BY <2>1, <2>2, <2>3, <2>4, <2>5
<1>. QED BY LockInitial, <1>1, PTL DEF LockSpec

\* Mutual exclusion between a writer and everyone else: lanes are never added
\* or removed while a processor pushes or pops.
THEOREM WriterExcludesAll == LockSpec => []Exclusion
<1>1. LockIInv => Exclusion
  BY DEF LockIInv, LockTypeOK, CellInv, LoopInv, OneWriter, HolderInv, CoverInv, HoldsCell, Exclusion
<1>. QED BY LockInvariance, <1>1, PTL

\* A registered thread finds its own lock in its cell, although registration
\* takes no lock: the checks of data[sched_id] never fail.
THEOREM CellsAlwaysMatch == LockSpec => []CellsMatch
<1>1. LockIInv => CellsMatch
  BY DEF LockIInv, CellInv, CellsMatch
<1>. QED BY LockInvariance, <1>1, PTL

\* Whoever becomes the writer finds its own lock free, the check in
\* ready_mutate_lock: it does not deadlock with itself.
THEOREM NoSelfDeadlock == LockSpec => []WriterOwnLockFree
<1>1. ASSUME LockIInv, NEW k \in Kthreads, place[k] = "size"
      PROVE  ~sched_lock[k]
  <2>1. \A w \in Kthreads : ~HoldsCell(w, id[k])
    BY <1>1, HolderIsWriter DEF LockIInv, CellInv, OneWriter, HoldsCell
  <2>. QED BY <1>1, <2>1 DEF LockIInv, HolderInv
<1>2. LockIInv => WriterOwnLockFree
  BY <1>1 DEF WriterOwnLockFree
<1>. QED BY LockInvariance, <1>2, PTL

\* A writer never releases the lock of a thread that reads.
THEOREM ReadersKeepTheirLock == LockSpec => []UnlocksNoReader
<1>1. LockIInv => UnlocksNoReader
  BY WriterUnlocksNoReader DEF UnlocksNoReader
<1>. QED BY LockInvariance, <1>1, PTL

\* No lock is left behind: without readers and writers all of them are free.
THEOREM NoLockLeftBehind == LockSpec => []LocksReleased
<1>1. ASSUME LockIInv, \A k \in Kthreads : place[k] \notin {"reading"} \cup Writer
      PROVE  ~write_lock /\ \A k \in Kthreads : place[k] \in Registered => ~sched_lock[k]
  <2>1. ~write_lock
    BY <1>1 DEF LockIInv, OneWriter
  <2>2. \A w \in Kthreads, c \in Cells : ~HoldsCell(w, c)
    BY <1>1, HolderIsWriter
  <2>. QED BY <1>1, <2>1, <2>2 DEF LockIInv, CellInv, HolderInv
<1>2. LockIInv => LocksReleased
  BY <1>1 DEF LocksReleased
<1>. QED BY LockInvariance, <1>2, PTL

\* The state has its type: no cell outside the array is ever used.
THEOREM LockTypeCorrect == LockSpec => []LockTypeOK
<1>1. LockIInv => LockTypeOK
  BY DEF LockIInv
<1>. QED BY LockInvariance, <1>1, PTL
=============================================================================
