---------------------------- MODULE ChannelProofs ----------------------------
(***************************************************************************)
(* Proofs about Channel for any numbers of threads and channels, any sizes *)
(* and any calls.                                                          *)
(*                                                                         *)
(* The inductive invariant IInv says of each call how its place in the     *)
(* code, the clauses left to register, its waiting state, what it reports, *)
(* what has moved for it and the queues that list it belong together       *)
(* (CallInv); that a queue lists a thread once, for its clause (QueueInv); *)
(* who has a lock (LockInv); that nobody waits for what is there           *)
(* (MatchInv); and in which order the elements of a thread come            *)
(* (OrderInv).                                                             *)
(***************************************************************************)
EXTENDS Channel, FiniteSetTheorems, SequenceTheorems, WellFoundedInduction, TLAPS

-----------------------------------------------------------------------------
(* The inductive invariant.                                                *)

Element == Threads \X Nat
Waiting == [status : Status, sat : SUBSET Chans, park_counter : Int, shut : SUBSET Chans, permit : BOOLEAN]

\* Where a call stands, by its kind.
PlainPcs == {"block", "try", "close", "parked", "closed", "flush", "end"}
OrPcs == {"register", "pending", "yielded", "race", "parked", "closed", "unregister", "thrown", "end"}
AndPcs == {"register", "parked", "bodies", "closed", "unregister", "thrown", "end"}
Locking == {"flush", "pending", "yielded", "race"}
Pcs == {"run"} \cup PlainPcs \cup OrPcs \cup AndPcs

ChannelTypeOK ==
  /\ lock \in [Chans -> Threads \cup {None}] /\ closed \in [Chans -> BOOLEAN]
  /\ buffer \in [Chans -> Seq(Element)]
  /\ prods \in [Chans -> Seq(Threads)] /\ cons \in [Chans -> Seq(Threads)]
  /\ last \in [Chans -> [Threads -> Nat]] /\ overtaken \in SUBSET Chans
  /\ \A c \in Chans : Len(buffer[c]) <= Size[c]

CallTypeOK ==
  /\ pc \in [Threads -> Pcs] /\ call \in [Threads -> Call \cup {NoCall}] /\ number \in [Threads -> Nat]
  /\ todo \in [Threads -> SUBSET (Chans \cup {"timeout"})] /\ at \in [Threads -> Chans \cup {None}]
  /\ wait \in [Threads -> Waiting] /\ armed \in [Threads -> BOOLEAN]
  /\ ran \in [Threads -> SUBSET Chans] /\ moved \in [Threads -> [Chans -> Nat]]

TypeOK == ChannelTypeOK /\ CallTypeOK

\* An all-or waituntil that has been won.
Settled(w) == w.status \notin {"plain", "and", "UNSAT", "PENDING"}

\* What has moved for a call: an element for each clause in S.
MovedFor(v, S) == \A c \in Chans : v[c] = IF c \in S THEN 1 ELSE 0

(* A call at p of kind k, of which d is to be registered, that is at a, with *)
(* waiting state w and timeout m, that reports r done, for which v has     *)
(* moved and that is listed at the channels L.                             *)
PlainOK(p, k, d, a, w, m, r, v, L) ==
  /\ p \in PlainPcs /\ ClausesOf(k) = {a} /\ a \in Chans /\ k.other = "none"
  /\ p \in {"block", "try", "close"} => p = k.how
  /\ p \in {"parked", "closed"} => k.how = "block"
  /\ p = "flush" => k.how = "close"
  /\ d = {} /\ ~m /\ w.status = "plain" /\ w.sat = {}
  /\ p = "parked" /\ ~w.permit => L = {a} /\ w.shut = {} /\ MovedFor(v, {})
  /\ p = "parked" /\ w.permit => L = {} /\ w.shut \subseteq {a} /\ MovedFor(v, {a} \ w.shut)
  /\ p # "parked" => L = {} /\ ~w.permit /\ MovedFor(v, r)
  /\ p # "end" => r = {}
  /\ p = "block" => w.shut = {}

OrOK(p, k, d, a, w, m, r, v, L) ==
  /\ p \in OrPcs /\ w.status \notin {"plain", "and"} /\ w.sat = {}
  /\ ClausesOf(k) # {} /\ d \subseteq ClausesOf(k) \cup {"timeout"}
  /\ L \subseteq ClausesOf(k) \ d
  /\ p = "pending" <=> w.status = "PENDING"
  /\ p \in {"pending", "yielded", "race"} => a \in ClausesOf(k) \cap d
  /\ p = "parked" => d = {}
  /\ ~Settled(w) => /\ p \in {"register", "pending", "yielded", "race", "parked"}
                    /\ L = ClausesOf(k) \ d /\ w.shut = {} /\ ~w.permit
                    /\ r = {} /\ MovedFor(v, {})
                    /\ k.other = "timeout" => m \/ "timeout" \in d
  /\ Settled(w) /\ p \in {"register", "yielded", "race", "parked"} =>
       /\ w.permit /\ r = {} /\ w.status \in ClausesOf(k) \cup {"timeout"}
       /\ MovedFor(v, IF w.shut = {} THEN {w.status} ELSE {})
       /\ w.status = "timeout" => w.shut = {}
  /\ p = "closed" => w.status = a /\ a \in ClausesOf(k) /\ r = {}
  /\ p \in {"closed", "unregister", "thrown", "end"} => ~w.permit /\ MovedFor(v, r)
  /\ p = "end" => d = {} /\ L = {} /\ ~m

AndOK(p, k, d, a, w, m, r, v, L) ==
  /\ p \in AndPcs /\ w.status = "and" /\ ~m /\ k.other = "none"
  /\ d \cup w.sat \subseteq ClausesOf(k) /\ d \cap w.sat = {}
  /\ L \subseteq ClausesOf(k) \ (d \cup w.sat)
  /\ p \notin {"thrown", "end"} => L = ClausesOf(k) \ (d \cup w.sat)
  /\ r \cup w.shut \subseteq w.sat
  /\ MovedFor(v, IF p = "end" THEN r ELSE (w.sat \ w.shut) \cup r)
  /\ w.permit => p = "parked"
  /\ p # "parked" \/ w.permit => w.park_counter >= 0
  /\ p = "parked" /\ ~w.permit => w.park_counter = -1 /\ w.sat # ClausesOf(k)
  /\ p = "register" => r # ClausesOf(k) /\ Cardinality(w.sat) - w.park_counter <= Cardinality(r)
  /\ d # {} => p \in {"register", "closed", "thrown"} /\ r = {} /\ w.park_counter = Cardinality(w.sat)
  /\ p = "closed" => a \in ClausesOf(k) /\ (a \in d \/ (d = {} /\ a \in (w.sat \cap w.shut) \ r))
  /\ p = "unregister" => r = ClausesOf(k)
  /\ p = "end" => L = {}

CallOK(p, k, d, a, w, m, r, v, L) ==
  \/ /\ p = "run" /\ k = NoCall /\ d = {} /\ w = Idle /\ ~m /\ r = {} /\ MovedFor(v, {}) /\ L = {}
  \/ k \in Call /\ k.how \in {"block", "try", "close"} /\ PlainOK(p, k, d, a, w, m, r, v, L)
  \/ k \in Call /\ k.how = "or" /\ OrOK(p, k, d, a, w, m, r, v, L)
  \/ k \in Call /\ k.how = "and" /\ AndOK(p, k, d, a, w, m, r, v, L)

\* The channels that a thread is listed at.
Listed(t) == {c \in Chans : t \in ToSet(prods[c]) \cup ToSet(cons[c])}

CallInv ==
  \A t \in Threads : CallOK(pc[t], call[t], todo[t], at[t], wait[t], armed[t], ran[t], moved[t], Listed(t))

QueueInv ==
  \A c \in Chans :
    /\ IsInjective(prods[c]) /\ \A t \in ToSet(prods[c]) : Clause(t, c) = "insert"
    /\ IsInjective(cons[c]) /\ \A t \in ToSet(cons[c]) : Clause(t, c) = "remove"

LockOK(t) ==
  /\ pc[t] \in Locking => lock[at[t]] = t
  /\ pc[t] = "race" => Settled(wait[t]) \/ Others(t, at[t]) = <<>>

LockInv == \A t \in Threads : LockOK(t)

\* Somebody on a queue still waits.
SomeWait(q) == \E t \in ToSet(q) : ~Settled(wait[t])

MatchInv ==
  \A c \in Chans :
    /\ SomeWait(prods[c]) => Len(buffer[c]) = Size[c]
    /\ SomeWait(cons[c]) => buffer[c] = <<>> /\ ~SomeWait(prods[c])
    /\ closed[c] => \/ ~SomeWait(prods[c]) /\ ~SomeWait(cons[c])
                    \/ \E t \in Threads : pc[t] = "flush" /\ at[t] = c

\* The k-th call of t is that of an element of channel c: t may have gone on.
Given(t, c, k) == k <= number[t] /\ (k = number[t] => pc[t] = "run" \/ moved[t][c] # 0)

OrderInv ==
  \A c \in Chans :
    /\ \A t \in Threads : Given(t, c, last[c][t])
    /\ \A e \in ToSet(buffer[c]) : Given(e[1], c, e[2])

IInv == TypeOK /\ CallInv /\ QueueInv /\ LockInv /\ MatchInv /\ OrderInv /\ InOrderUnlessOvertaken
-----------------------------------------------------------------------------
(* Queues as sets without duplicates.                                      *)

\* A non-empty set of numbers has a least one.
LEMMA Least == ASSUME NEW T \in SUBSET Nat, T # {} PROVE \E n \in T : \A k \in T : n <= k
<1> DEFINE R == {p \in Nat \X Nat : p[1] < p[2]}
<1>1. IsWellFoundedOn(R, Nat) BY NatLessThanWellFounded DEF OpToRel
<1>2. PICK n \in T : \A k \in T : <<k, n>> \notin R
  <2> HIDE DEF R
  <2> QED BY <1>1, WFMin
<1>3. ASSUME NEW k \in T PROVE n <= k
  <2>1. <<k, n>> \in Nat \X Nat OBVIOUS
  <2> QED BY <1>2, <2>1
<1> QED BY <1>3

LEMMA MinIs == ASSUME NEW T \in SUBSET Nat, T # {} PROVE Min(T) \in T /\ \A k \in T : Min(T) <= k
BY Least, Zenon DEF Min

\* The elements of a sequence by their positions.
LEMMA SeqFacts ==
  ASSUME NEW S, NEW q \in Seq(S)
  PROVE  /\ Len(q) \in Nat /\ DOMAIN q = 1 .. Len(q)
         /\ \A i \in 1 .. Len(q) : q[i] \in S
         /\ \A x : x \in ToSet(q) <=> \E i \in 1 .. Len(q) : x = q[i]
         /\ ToSet(q) \subseteq S
         /\ q = <<>> <=> Len(q) = 0
         /\ q = <<>> <=> ToSet(q) = {}
         /\ IsInjective(q) <=> \A i, j \in 1 .. Len(q) : q[i] = q[j] => i = j
<1>1. /\ Len(q) \in Nat /\ DOMAIN q = 1 .. Len(q)
      /\ \A i \in 1 .. Len(q) : q[i] \in S
  BY LenProperties, ElementOfSeq
<1>2. q = <<>> <=> Len(q) = 0
  BY EmptySeq
<1>3. \A x : x \in ToSet(q) <=> \E i \in 1 .. Len(q) : x = q[i]
  BY <1>1 DEF ToSet
<1>4. ToSet(q) \subseteq S
  BY <1>1, <1>3
<1>5. q = <<>> <=> ToSet(q) = {}
  <2>1. Len(q) = 0 => ToSet(q) = {}
    <3> SUFFICES ASSUME Len(q) = 0, NEW x \in ToSet(q) PROVE FALSE
      OBVIOUS
    <3>1. PICK i \in 1 .. Len(q) : x = q[i]
      BY <1>3
    <3> QED BY <3>1
  <2>2. ASSUME Len(q) # 0 PROVE ToSet(q) # {}
    <3>1. 1 \in 1 .. Len(q)
      BY <1>1, <2>2
    <3>2. q[1] \in ToSet(q)
      BY <3>1, <1>3
    <3> QED BY <3>2
  <2> QED BY <2>1, <2>2, <1>2
<1>6. IsInjective(q) <=> \A i, j \in 1 .. Len(q) : q[i] = q[j] => i = j
  BY <1>1 DEF IsInjective
<1> QED BY <1>1, <1>2, <1>3, <1>4, <1>5, <1>6

LEMMA EmptyFacts ==
  ASSUME NEW S PROVE <<>> \in Seq(S) /\ ToSet(<<>>) = {} /\ IsInjective(<<>>) /\ Len(<<>>) = 0
<1>1. <<>> \in Seq(S)
  BY EmptySeq
<1>2. PICK e \in Seq(S) : e = <<>>
  BY <1>1
<1>3. Len(e) = 0
  BY <1>2, EmptySeq
<1>4. ToSet(e) = {}
  BY <1>2, SeqFacts
<1>5. IsInjective(e)
  <2>1. \A i, j \in 1 .. Len(e) : e[i] = e[j] => i = j
    BY <1>3
  <2> QED BY <2>1, SeqFacts
<1> QED BY <1>2, <1>3, <1>4, <1>5

LEMMA AppendSet ==
  ASSUME NEW S, NEW q \in Seq(S), NEW e \in S
  PROVE  /\ Append(q, e) \in Seq(S)
         /\ Len(Append(q, e)) = Len(q) + 1
         /\ \A i \in 1 .. Len(q) : Append(q, e)[i] = q[i]
         /\ Append(q, e)[Len(q) + 1] = e
         /\ ToSet(Append(q, e)) = ToSet(q) \cup {e}
         /\ IsInjective(q) /\ e \notin ToSet(q) => IsInjective(Append(q, e))
<1>1. /\ Append(q, e) \in Seq(S) /\ Len(Append(q, e)) = Len(q) + 1
      /\ \A i \in 1 .. Len(q) : Append(q, e)[i] = q[i]
      /\ Append(q, e)[Len(q) + 1] = e
  BY AppendProperties
<1>2. /\ Len(q) \in Nat /\ DOMAIN q = 1 .. Len(q)
      /\ DOMAIN Append(q, e) = 1 .. (Len(q) + 1)
  BY <1>1, LenProperties
<1>3. ToSet(Append(q, e)) = ToSet(q) \cup {e}
  BY <1>1, <1>2 DEF ToSet
<1>4. ASSUME IsInjective(q), e \notin ToSet(q)
      PROVE  IsInjective(Append(q, e))
  BY <1>1, <1>2, <1>4 DEF IsInjective, ToSet
<1> QED BY <1>1, <1>3, <1>4

\* Tail removes the head, which is there once if the sequence has no duplicates.
LEMMA TailSet ==
  ASSUME NEW S, NEW q \in Seq(S), q # <<>>
  PROVE  /\ Head(q) \in S /\ Head(q) = q[1] /\ Head(q) \in ToSet(q)
         /\ Tail(q) \in Seq(S)
         /\ Len(Tail(q)) = Len(q) - 1 /\ Len(q) \in Nat \ {0}
         /\ \A i \in 1 .. Len(q) - 1 : Tail(q)[i] = q[i + 1]
         /\ ToSet(Tail(q)) \subseteq ToSet(q)
         /\ IsInjective(q) => IsInjective(Tail(q)) /\ ToSet(Tail(q)) = ToSet(q) \ {q[1]}
<1>1. /\ Head(q) \in S /\ Head(q) = q[1] /\ Tail(q) \in Seq(S)
      /\ Len(Tail(q)) = Len(q) - 1
      /\ \A i \in 1 .. Len(Tail(q)) : Tail(q)[i] = q[i + 1]
  BY HeadTailProperties
<1>2. /\ Len(q) \in Nat \ {0} /\ DOMAIN q = 1 .. Len(q)
      /\ DOMAIN Tail(q) = 1 .. (Len(q) - 1)
  BY <1>1, LenProperties, EmptySeq
<1>3. Head(q) \in ToSet(q)
  BY <1>1, <1>2 DEF ToSet
<1>4. ToSet(Tail(q)) \subseteq ToSet(q)
  BY <1>1, <1>2 DEF ToSet
<1>5. ASSUME IsInjective(q)
      PROVE  IsInjective(Tail(q)) /\ ToSet(Tail(q)) = ToSet(q) \ {q[1]}
  <2>1. IsInjective(Tail(q))
    BY <1>1, <1>2, <1>5 DEF IsInjective
  <2>2. ToSet(Tail(q)) \subseteq ToSet(q) \ {q[1]}
    BY <1>1, <1>2, <1>5 DEF IsInjective, ToSet
  <2>3. ASSUME NEW x \in ToSet(q), x # q[1]
        PROVE  x \in ToSet(Tail(q))
    <3>1. PICK i \in 1 .. Len(q) : x = q[i]
      BY <1>2 DEF ToSet
    <3>2. i - 1 \in 1 .. (Len(q) - 1) /\ Tail(q)[i - 1] = x
      BY <1>1, <1>2, <2>3, <3>1
    <3> QED BY <1>2, <3>2 DEF ToSet
  <2> QED BY <2>1, <2>2, <2>3
<1> QED BY <1>1, <1>2, <1>3, <1>4, <1>5

\* A sequence from position i on.
LEMMA FromSet ==
  ASSUME NEW S, NEW q \in Seq(S), NEW i \in 1 .. Len(q)
  PROVE  \E r \in Seq(S) :
           /\ r = SubSeq(q, i, Len(q))
           /\ r # <<>> /\ r[1] = q[i]
           /\ \A x : x \in ToSet(r) <=> \E j \in i .. Len(q) : x = q[j]
           /\ IsInjective(q) => IsInjective(r)
<1> DEFINE r == SubSeq(q, i, Len(q))
<1>1. Len(q) \in Nat /\ \A j \in 1 .. Len(q) : q[j] \in S
  BY SeqFacts
<1>2. /\ r \in Seq(S)
      /\ Len(r) = Len(q) - i + 1
      /\ \A j \in 1 .. (Len(q) - i + 1) : r[j] = q[i + j - 1]
  <2>1. \A j \in i .. Len(q) : q[j] \in S
    BY <1>1
  <2>2. i \in Int /\ Len(q) \in Int
    BY <1>1
  <2>3. /\ r \in Seq(S)
        /\ Len(r) = IF i <= Len(q) THEN Len(q) - i + 1 ELSE 0
        /\ \A j \in 1 .. (Len(q) - i + 1) : r[j] = q[i + j - 1]
    BY <2>1, <2>2, SubSeqProperties
  <2> QED BY <2>3
<1> HIDE DEF r
<1>3. \A x : x \in ToSet(r) <=> \E j \in 1 .. Len(r) : x = r[j]
  <2>1. \A s \in Seq(S) : \A x : x \in ToSet(s) <=> \E j \in 1 .. Len(s) : x = s[j]
    BY SeqFacts
  <2> QED BY <1>2, <2>1
<1>4. ASSUME NEW x \in ToSet(r) PROVE \E j \in i .. Len(q) : x = q[j]
  <2>1. PICK j \in 1 .. Len(r) : x = r[j]
    BY <1>3
  <2>2. i + j - 1 \in i .. Len(q) /\ x = q[i + j - 1]
    BY <2>1, <1>1, <1>2
  <2> QED BY <2>2
<1>5. ASSUME NEW j \in i .. Len(q) PROVE q[j] \in ToSet(r)
  <2>1. j - i + 1 \in 1 .. Len(r) /\ i + (j - i + 1) - 1 = j
    BY <1>1, <1>2
  <2>2. r[j - i + 1] = q[j]
    BY <2>1, <1>2
  <2> QED BY <2>1, <2>2, <1>3
<1>6. ASSUME IsInjective(q) PROVE IsInjective(r)
  <2>1. \A j, n \in 1 .. Len(q) : q[j] = q[n] => j = n
    BY <1>6, SeqFacts
  <2>2. ASSUME NEW j \in 1 .. Len(r), NEW n \in 1 .. Len(r), r[j] = r[n] PROVE j = n
    <3>1. i + j - 1 \in 1 .. Len(q) /\ i + n - 1 \in 1 .. Len(q) /\ q[i + j - 1] = q[i + n - 1]
      BY <2>2, <1>1, <1>2
    <3> QED BY <3>1, <2>1
  <2> QED BY <2>2, <1>2, SeqFacts
<1>7. r # <<>> /\ r[1] = q[i]
  <2>1. Len(r) # 0 /\ 1 \in 1 .. (Len(q) - i + 1) /\ i + 1 - 1 = i
    BY <1>1, <1>2
  <2> QED BY <2>1, <1>2, SeqFacts
<1> QED BY <1>2, <1>4, <1>5, <1>6, <1>7 DEF r

\* RemoveFirst removes an element that is there once.
LEMMA RemoveSet ==
  ASSUME NEW S, NEW q \in Seq(S), NEW e, IsInjective(q)
  PROVE  /\ RemoveFirst(q, e) \in Seq(S) /\ IsInjective(RemoveFirst(q, e))
         /\ ToSet(RemoveFirst(q, e)) = ToSet(q) \ {e}
<1>1. /\ Len(q) \in Nat /\ \A j \in 1 .. Len(q) : q[j] \in S
      /\ \A x : x \in ToSet(q) <=> \E j \in 1 .. Len(q) : x = q[j]
      /\ \A j, n \in 1 .. Len(q) : q[j] = q[n] => j = n
  BY SeqFacts
<1>2. CASE e \notin ToSet(q)
  BY <1>1, <1>2 DEF RemoveFirst
<1>3. CASE e \in ToSet(q)
  <2> DEFINE T == {j \in 1 .. Len(q) : q[j] = e}
  <2>1. T \in SUBSET Nat /\ T # {}
    BY <1>1, <1>3
  <2>2. SelectInSeq(q, LAMBDA x : x = e) = Min(T)
    BY <2>1 DEF SelectInSeq
  <2>3. RemoveFirst(q, e) = RemoveAt(q, Min(T))
    BY <1>1, <1>3, <2>2 DEF RemoveFirst
  <2>4. Min(T) \in T
    BY <2>1, MinIs
  <2>5. PICK i \in 1 .. Len(q) : q[i] = e /\ RemoveFirst(q, e) = RemoveAt(q, i)
    BY <2>3, <2>4
  <2> DEFINE l == SubSeq(q, 1, i - 1)
             f == SubSeq(q, i + 1, Len(q))
  <2>6. /\ l \in Seq(S) /\ Len(l) = i - 1
        /\ \A j \in 1 .. (i - 1) : l[j] = q[j]
    <3>1. \A j \in 1 .. (i - 1) : q[j] \in S
      BY <1>1
    <3>2. 1 \in Int /\ i - 1 \in Int
      BY <1>1
    <3> QED BY <1>1, <3>1, <3>2, SubSeqProperties
  <2>7. /\ f \in Seq(S) /\ Len(f) = Len(q) - i
        /\ \A j \in 1 .. (Len(q) - i) : f[j] = q[i + j]
    <3>1. \A j \in (i + 1) .. Len(q) : q[j] \in S
      BY <1>1
    <3>2. i + 1 \in Int /\ Len(q) \in Int
      BY <1>1
    <3>3. /\ f \in Seq(S)
          /\ Len(f) = IF i + 1 <= Len(q) THEN Len(q) - (i + 1) + 1 ELSE 0
          /\ \A j \in 1 .. (Len(q) - (i + 1) + 1) : f[j] = q[i + 1 + j - 1]
      BY <3>1, <3>2, SubSeqProperties
    <3>4. Len(q) - (i + 1) + 1 = Len(q) - i /\ (i + 1 > Len(q) => Len(q) - i = 0)
      BY <1>1
    <3>5. \A j \in 1 .. (Len(q) - i) : f[j] = q[i + j]
      <4> SUFFICES ASSUME NEW j \in 1 .. (Len(q) - i) PROVE f[j] = q[i + j]
        OBVIOUS
      <4>1. j \in 1 .. (Len(q) - (i + 1) + 1)
        BY <3>4
      <4>2. f[j] = q[i + 1 + j - 1]
        BY <4>1, <3>3
      <4>3. i + 1 + j - 1 = i + j
        OBVIOUS
      <4> QED BY <4>2, <4>3
    <3>6. Len(f) = Len(q) - i
      <4>1. CASE i + 1 <= Len(q)
        BY <4>1, <3>3, <3>4
      <4>2. CASE ~(i + 1 <= Len(q))
        <5>1. Len(f) = 0
          BY <4>2, <3>3
        <5>2. Len(q) - i = 0
          BY <4>2, <1>1
        <5> QED BY <5>1, <5>2
      <4> QED BY <4>1, <4>2
    <3> QED BY <3>3, <3>5, <3>6
  <2> HIDE DEF l, f
  <2> DEFINE r == l \o f
  <2>8. /\ r \in Seq(S) /\ Len(r) = Len(q) - 1
        /\ \A j \in 1 .. Len(q) - 1 : r[j] = IF j < i THEN q[j] ELSE q[j + 1]
    <3>1. /\ r \in Seq(S) /\ Len(r) = Len(l) + Len(f)
          /\ \A j \in 1 .. Len(l) : r[j] = l[j]
          /\ \A j \in 1 .. Len(f) : r[Len(l) + j] = f[j]
      <4>1. l \in Seq(S) /\ f \in Seq(S)
        BY <2>6, <2>7
      <4> QED BY <4>1, ConcatProperties
    <3>2. Len(r) = Len(q) - 1
      BY <3>1, <2>6, <2>7, <1>1
    <3>3. ASSUME NEW j \in 1 .. Len(q) - 1 PROVE r[j] = IF j < i THEN q[j] ELSE q[j + 1]
      <4>1. CASE j < i
        <5>1. j \in 1 .. Len(l) /\ j \in 1 .. (i - 1)
          BY <4>1, <2>6, <1>1
        <5> QED BY <5>1, <3>1, <2>6, <4>1
      <4>2. CASE ~(j < i)
        <5>1. j - i + 1 \in 1 .. Len(f) /\ Len(l) + (j - i + 1) = j /\ i + (j - i + 1) = j + 1
              /\ j - i + 1 \in 1 .. (Len(q) - i)
          BY <4>2, <2>6, <2>7, <1>1
        <5>2. r[Len(l) + (j - i + 1)] = f[j - i + 1]
          BY <5>1, <3>1
        <5>3. f[j - i + 1] = q[i + (j - i + 1)]
          BY <5>1, <2>7
        <5> QED BY <5>1, <5>2, <5>3, <4>2
      <4> QED BY <4>1, <4>2
    <3> QED BY <3>1, <3>2, <3>3
  <2>9. RemoveFirst(q, e) = r
    BY <2>5 DEF RemoveAt, l, f
  <2> HIDE DEF r
  <2>10. /\ \A x : x \in ToSet(r) <=> \E j \in 1 .. Len(r) : x = r[j]
         /\ IsInjective(r) <=> \A j, n \in 1 .. Len(r) : r[j] = r[n] => j = n
    BY <2>8, SeqFacts
  <2>11. IsInjective(r)
    <3>1. ASSUME NEW j \in 1 .. Len(r), NEW n \in 1 .. Len(r), r[j] = r[n] PROVE j = n
      <4>1. /\ j \in 1 .. Len(q) - 1 /\ n \in 1 .. Len(q) - 1
            /\ j \in 1 .. Len(q) /\ n \in 1 .. Len(q) /\ j + 1 \in 1 .. Len(q) /\ n + 1 \in 1 .. Len(q)
        BY <2>8, <1>1
      <4> QED BY <3>1, <4>1, <2>8, <1>1
    <3> QED BY <3>1, <2>10
  <2>12. ASSUME NEW x \in ToSet(r) PROVE x \in ToSet(q) \ {e}
    <3>1. PICK j \in 1 .. Len(r) : x = r[j]
      BY <2>10
    <3>2. /\ j \in 1 .. Len(q) - 1 /\ j \in 1 .. Len(q) /\ j + 1 \in 1 .. Len(q)
      BY <2>8, <1>1
    <3>3. PICK n \in 1 .. Len(q) : x = q[n] /\ n # i
      BY <3>1, <3>2, <2>8, <1>1
    <3> QED BY <3>3, <2>5, <1>1
  <2>13. ASSUME NEW x \in ToSet(q), x # e PROVE x \in ToSet(r)
    <3>1. PICK n \in 1 .. Len(q) : x = q[n]
      BY <1>1
    <3>2. n # i
      BY <3>1, <2>13, <2>5
    <3>3. CASE n < i
      <4>1. n \in 1 .. Len(r) /\ n \in 1 .. Len(q) - 1 /\ r[n] = q[n]
        BY <3>3, <2>8, <1>1
      <4> QED BY <4>1, <3>1, <2>10
    <3>4. CASE n > i
      <4>1. n - 1 \in 1 .. Len(r) /\ n - 1 \in 1 .. Len(q) - 1 /\ ~(n - 1 < i) /\ (n - 1) + 1 = n
        BY <3>4, <2>8, <1>1
      <4>2. r[n - 1] = q[n]
        BY <4>1, <2>8
      <4> QED BY <4>1, <4>2, <3>1, <2>10
    <3> QED BY <3>2, <3>3, <3>4, <1>1
  <2> QED BY <2>8, <2>9, <2>11, <2>12, <2>13
<1> QED BY <1>2, <1>3
-----------------------------------------------------------------------------
(* What the operations leave of a queue.                                   *)

LEMMA DecidedIs == \A u : Decided(u) <=> Settled(wait[u])
BY DEF Decided, Special, Settled

\* r is left of queue q when those of out are taken off, and some that were
\* decided.
Kept(q, r, out) ==
  /\ r \in Seq(Threads) /\ IsInjective(r)
  /\ ToSet(r) \subseteq ToSet(q) \ out
  /\ \A u \in ToSet(q) \ ToSet(r) : u \in out \/ Decided(u)

\* The nodes behind the decided ones in front.
LEMMA LiveKept ==
  ASSUME NEW q \in Seq(Threads), IsInjective(q)
  PROVE  /\ Live(q) \in Seq(Threads) /\ Kept(q, Live(q), {})
         /\ Live(q) = <<>> => \A u \in ToSet(q) : Decided(u)
         /\ Live(q) # <<>> => /\ Live(q)[1] \in ToSet(q) /\ Live(q)[1] \in Threads
                              /\ ~Decided(Live(q)[1])
                              /\ Kept(q, Tail(Live(q)), {Live(q)[1]})
<1> DEFINE T == {i \in 1 .. Len(q) : ~Decided(q[i])}
<1>1. /\ Len(q) \in Nat /\ \A j \in 1 .. Len(q) : q[j] \in Threads
      /\ \A x : x \in ToSet(q) <=> \E j \in 1 .. Len(q) : x = q[j]
      /\ ToSet(q) \subseteq Threads
  BY SeqFacts
<1>2. T \in SUBSET Nat
  BY <1>1
<1>3. Live(q) = IF T = {} THEN <<>> ELSE SubSeq(q, Min(T), Len(q))
  <2>1. 0 \notin T
    BY <1>1
  <2>2. T # {} => Min(T) # 0
    <3> HIDE DEF T
    <3> QED BY <1>2, <2>1, MinIs
  <2>3. T # {} => ~(Min(T) = 0)
    BY <2>2
  <2> QED BY <1>1, <2>3 DEF Live, SelectInSeq
<1>4. CASE T = {}
  <2>1. Live(q) = <<>>
    BY <1>3, <1>4
  <2>2. \A u \in ToSet(q) : Decided(u)
    BY <1>1, <1>4
  <2>3. <<>> \in Seq(Threads) /\ IsInjective(<<>>) /\ ToSet(<<>>) = {}
    BY EmptyFacts
  <2> QED BY <2>1, <2>2, <2>3 DEF Kept
<1>5. CASE T # {}
  <2>1. PICK i \in 1 .. Len(q) : i = Min(T) /\ ~Decided(q[i]) /\ \A j \in 1 .. Len(q) : j < i => Decided(q[j])
    <3>1. Min(T) \in T /\ \A k \in T : Min(T) <= k
      <4> HIDE DEF T
      <4> QED BY <1>2, <1>5, MinIs
    <3>2. PICK n : n = Min(T)
      OBVIOUS
    <3>3. n \in 1 .. Len(q) /\ ~Decided(q[n])
      BY <3>1, <3>2
    <3>4. ASSUME NEW j \in 1 .. Len(q), j < n PROVE Decided(q[j])
      <4>1. ~(n <= j)
        BY <3>3, <3>4, <1>1
      <4> QED BY <3>1, <3>2, <4>1
    <3> QED BY <3>2, <3>3, <3>4
  <2>2. PICK r \in Seq(Threads) :
           /\ r = SubSeq(q, i, Len(q))
           /\ r # <<>> /\ r[1] = q[i]
           /\ \A x : x \in ToSet(r) <=> \E j \in i .. Len(q) : x = q[j]
           /\ IsInjective(r)
    BY FromSet
  <2>3. Live(q) = r
    BY <1>3, <1>5, <2>1, <2>2
  <2>4. /\ r \in Seq(Threads) /\ r # <<>> /\ r[1] = q[i]
        /\ \A x : x \in ToSet(r) <=> \E j \in i .. Len(q) : x = q[j]
        /\ IsInjective(r)
    BY <2>2
  <2>5. ToSet(r) \subseteq ToSet(q) /\ \A u \in ToSet(q) \ ToSet(r) : Decided(u)
    <3>1. ASSUME NEW u \in ToSet(q), u \notin ToSet(r) PROVE Decided(u)
      <4>1. PICK j \in 1 .. Len(q) : u = q[j]
        BY <1>1
      <4>2. ~(j \in i .. Len(q))
        BY <4>1, <3>1, <2>4
      <4>3. j < i
        BY <4>2, <1>1
      <4> QED BY <4>1, <4>3, <2>1
    <3>2. ASSUME NEW u \in ToSet(r) PROVE u \in ToSet(q)
      <4>1. PICK j \in i .. Len(q) : u = q[j]
        BY <2>4
      <4>2. j \in 1 .. Len(q)
        BY <1>1
      <4> QED BY <4>1, <4>2, <1>1
    <3> QED BY <3>1, <3>2
  <2>6. /\ Tail(r) \in Seq(Threads) /\ IsInjective(Tail(r)) /\ ToSet(Tail(r)) = ToSet(r) \ {r[1]}
        /\ r[1] \in ToSet(r)
    BY <2>4, TailSet
  <2>7. r[1] \in Threads /\ ~Decided(r[1]) /\ r[1] \in ToSet(q)
    BY <2>1, <2>4, <2>5, <2>6, <1>1
  <2>8. Kept(q, r, {}) /\ Kept(q, Tail(r), {r[1]})
    BY <2>4, <2>5, <2>6, <2>7 DEF Kept
  <2> QED BY <2>3, <2>4, <2>7, <2>8
<1> QED BY <1>4, <1>5

LEMMA KeptSame == ASSUME NEW q \in Seq(Threads), IsInjective(q) PROVE Kept(q, q, {})
BY DEF Kept

-----------------------------------------------------------------------------
(* How a call stands after what others do to it.                           *)

LEMMA ChanNames ==
  \A c \in Chans : c \notin {"plain", "and", "UNSAT", "PENDING", "SAT", "timeout"}
BY ChannelAssumption

LEMMA ClausesAre == \A k : ClausesOf(k) \subseteq Chans
BY DEF ClausesOf

\* Decided nodes may be discarded.
LEMMA DropOK ==
  ASSUME NEW p, NEW k, NEW d, NEW a, NEW w, NEW m, NEW r, NEW v, NEW L, NEW L2 \in SUBSET L,
         CallOK(p, k, d, a, w, m, r, v, L), Settled(w)
  PROVE  CallOK(p, k, d, a, w, m, r, v, L2)
<1>1. k \in Call /\ k.how = "or" /\ OrOK(p, k, d, a, w, m, r, v, L)
  BY DEF CallOK, PlainOK, AndOK, Settled, Idle
<1>2. OrOK(p, k, d, a, w, m, r, v, L2)
  BY <1>1 DEF OrOK
<1> QED BY <1>1, <1>2 DEF CallOK

\* wake_one of a waiting state for channel c.
WakeOne(w, c) ==
  CASE w.status = "plain" -> [w EXCEPT !.permit = TRUE]
    [] w.status = "and" -> [w EXCEPT !.sat = @ \cup {c}, !.park_counter = @ + 1,
                                     !.permit = @ \/ w.park_counter = -1]
    [] OTHER -> [w EXCEPT !.status = c, !.permit = TRUE]

\* ... with the nodes for S set to null before, by close.
Reached(w, c, S) == WakeOne([w EXCEPT !.shut = @ \cup S], c)

\* What y says after that.
IsReached(y, w, c, S) ==
  /\ y \in Waiting /\ y.shut = w.shut \cup S
  /\ w.status = "plain" => y.status = "plain" /\ y.sat = w.sat /\ y.permit = TRUE
  /\ w.status = "and" =>
       /\ y.status = "and" /\ y.sat = w.sat \cup {c}
       /\ y.park_counter = w.park_counter + 1
       /\ y.permit = (w.permit \/ w.park_counter = -1)
  /\ w.status \notin {"plain", "and"} => y.status = c /\ y.sat = w.sat /\ y.permit = TRUE

LEMMA ReachedIs ==
  ASSUME NEW w \in Waiting, NEW c \in Chans, NEW S \in SUBSET Chans
  PROVE  IsReached(Reached(w, c, S), w, c, S)
<1>1. PICK x : x = [w EXCEPT !.shut = @ \cup S]
  OBVIOUS
<1>0. /\ x \in Waiting /\ x.shut = w.shut \cup S
      /\ x.status = w.status /\ x.sat = w.sat /\ x.park_counter = w.park_counter /\ x.permit = w.permit
  BY <1>1 DEF Waiting
<1> DEFINE y == WakeOne(x, c)
<1>2. y = Reached(w, c, S)
  BY <1>1 DEF Reached
<1> SUFFICES /\ y \in Waiting /\ y.shut = x.shut
             /\ x.status = "plain" => y.status = "plain" /\ y.sat = x.sat /\ y.permit = TRUE
             /\ x.status = "and" =>
                  /\ y.status = "and" /\ y.sat = x.sat \cup {c}
                  /\ y.park_counter = x.park_counter + 1
                  /\ y.permit = (x.permit \/ x.park_counter = -1)
             /\ x.status \notin {"plain", "and"} => y.status = c /\ y.sat = x.sat /\ y.permit = TRUE
  <2> HIDE DEF y
  <2> QED BY <1>0, <1>2 DEF IsReached
<1>3. CASE x.status = "plain"
  <2>1. y = [x EXCEPT !.permit = TRUE]
    BY <1>3 DEF WakeOne
  <2> HIDE DEF y
  <2> QED BY <2>1, <1>0, <1>3 DEF Waiting
<1>4. CASE x.status = "and"
  <2>1. y = [[[x EXCEPT !.sat = @ \cup {c}] EXCEPT !.park_counter = @ + 1] EXCEPT !.permit = @ \/ x.park_counter = -1]
    BY <1>4 DEF WakeOne
  <2> HIDE DEF y
  <2> DEFINE z1 == [x EXCEPT !.sat = @ \cup {c}]
             z2 == [z1 EXCEPT !.park_counter = @ + 1]
             b == x.permit \/ x.park_counter = -1
  <2>2. /\ z1 \in Waiting /\ z1.shut = x.shut /\ z1.status = x.status /\ z1.sat = x.sat \cup {c}
        /\ z1.park_counter = x.park_counter /\ z1.permit = x.permit
    BY <1>0 DEF Waiting
  <2>3. b \in BOOLEAN
    OBVIOUS
  <2> HIDE DEF z1, b
  <2>4. /\ z2 \in Waiting /\ z2.shut = x.shut /\ z2.status = x.status /\ z2.sat = x.sat \cup {c}
        /\ z2.park_counter = x.park_counter + 1 /\ z2.permit = x.permit
    BY <2>2 DEF Waiting
  <2> HIDE DEF z2
  <2>5. y = [z2 EXCEPT !.permit = b]
    BY <2>1, <2>4 DEF b, z2, z1
  <2>6. /\ y \in Waiting /\ y.shut = x.shut /\ y.status = x.status /\ y.sat = x.sat \cup {c}
        /\ y.park_counter = x.park_counter + 1 /\ y.permit = b
    BY <2>3, <2>4, <2>5 DEF Waiting
  <2>7. y.permit = (x.permit \/ x.park_counter = -1)
    BY <2>6, Zenon DEF b
  <2> QED BY <2>6, <2>7, <1>4
<1>5. CASE x.status \notin {"plain", "and"}
  <2>1. y = [x EXCEPT !.status = c, !.permit = TRUE]
    BY <1>5 DEF WakeOne
  <2>2. c \in Status
    BY DEF Status
  <2> HIDE DEF y
  <2> QED BY <2>1, <2>2, <1>0, <1>5 DEF Waiting
<1> QED BY <1>3, <1>4, <1>5

\* What moves for a thread that is reached.
Credit(v, c, S) == IF S = {} THEN Set(v, c, v[c] + 1) ELSE v

LEMMA CreditIs ==
  ASSUME NEW v \in [Chans -> Nat], NEW c \in Chans, NEW R, c \notin R, MovedFor(v, R)
  PROVE  MovedFor(Credit(v, c, {}), R \cup {c})
BY DEF MovedFor, Credit, Set

LEMMA ReachedPlain ==
  ASSUME NEW p, NEW k, NEW d, NEW a, NEW w \in Waiting, NEW m, NEW r, NEW v \in [Chans -> Nat], NEW L,
         NEW c \in L, NEW S \in SUBSET {c}, PlainOK(p, k, d, a, w, m, r, v, L)
  PROVE  PlainOK(p, k, d, a, Reached(w, c, S), m, r, Credit(v, c, S), L \ {c})
<1>1. /\ p = "parked" /\ ~w.permit /\ L = {a} /\ c = a /\ c \in Chans /\ w.shut = {} /\ MovedFor(v, {})
      /\ w.status = "plain"
  BY DEF PlainOK
<1> DEFINE y == Reached(w, c, S)
<1>2. /\ y.shut = S /\ y.status = "plain" /\ y.sat = w.sat /\ y.permit
  <2>1. S \in SUBSET Chans
    BY <1>1
  <2>2. IsReached(y, w, c, S)
    BY <1>1, <2>1, ReachedIs
  <2> HIDE DEF y
  <2> QED BY <1>1, <2>2 DEF IsReached
<1> HIDE DEF y
<1>3. MovedFor(Credit(v, c, S), {a} \ y.shut)
  <2>1. CASE S = {c}
    <3>1. {a} \ y.shut = {}
      BY <1>1, <1>2, <2>1
    <3> QED BY <3>1, <1>1, <2>1 DEF Credit
  <2>2. CASE S = {}
    <3>1. {a} \ y.shut = {} \cup {c} /\ c \notin {}
      BY <1>1, <1>2, <2>2
    <3>2. MovedFor(Credit(v, c, {}), {} \cup {c})
      BY <1>1, CreditIs
    <3> QED BY <3>1, <3>2, <2>2
  <2> QED BY <2>1, <2>2
<1>4. L \ {c} = {}
  BY <1>1
<1> QED BY <1>1, <1>2, <1>3, <1>4 DEF PlainOK, y

LEMMA ReachedOr ==
  ASSUME NEW p, NEW k, NEW d, NEW a, NEW w \in Waiting, NEW m, NEW r, NEW v \in [Chans -> Nat], NEW L,
         NEW c \in L, NEW S \in SUBSET {c}, OrOK(p, k, d, a, w, m, r, v, L),
         ~Settled(w), w.status # "PENDING"
  PROVE  OrOK(p, k, d, a, Reached(w, c, S), m, r, Credit(v, c, S), L \ {c})
<1>1. /\ p \in {"register", "yielded", "race", "parked"}
      /\ L = ClausesOf(k) \ d /\ w.shut = {} /\ ~w.permit /\ r = {} /\ MovedFor(v, {})
      /\ w.status \notin {"plain", "and"}
  BY DEF OrOK
<1>2. c \in Chans /\ c \notin {"plain", "and", "UNSAT", "PENDING", "SAT", "timeout"} /\ c \in ClausesOf(k)
  BY <1>1, ChanNames, ClausesAre
<1> DEFINE y == Reached(w, c, S)
<1>3. /\ y.shut = S /\ y.status = c /\ y.sat = w.sat /\ y.permit
  <2>1. S \in SUBSET Chans
    BY <1>1, <1>2
  <2>2. IsReached(y, w, c, S)
    BY <1>1, <1>2, <2>1, ReachedIs
  <2> HIDE DEF y
  <2> QED BY <1>1, <1>2, <2>2 DEF IsReached
<1> HIDE DEF y
<1>4. MovedFor(Credit(v, c, S), IF y.shut = {} THEN {y.status} ELSE {})
  <2>1. CASE S = {c}
    BY <2>1, <1>1, <1>3 DEF Credit
  <2>2. CASE S = {}
    <3>1. {y.status} = {} \cup {c} /\ c \notin {} /\ y.shut = {}
      BY <1>1, <1>3, <2>2
    <3>2. MovedFor(Credit(v, c, {}), {} \cup {c})
      BY <1>1, <1>2, CreditIs
    <3> QED BY <3>1, <3>2, <2>2
  <2> QED BY <2>1, <2>2
<1>5. Settled(y)
  BY <1>2, <1>3 DEF Settled
<1> QED BY <1>1, <1>2, <1>3, <1>4, <1>5 DEF OrOK, y

LEMMA ReachedAnd ==
  ASSUME NEW p, NEW k, NEW d, NEW a, NEW w \in Waiting, NEW m, NEW r, NEW v \in [Chans -> Nat], NEW L,
         NEW c \in L, NEW S \in SUBSET {c}, AndOK(p, k, d, a, w, m, r, v, L)
  PROVE  AndOK(p, k, d, a, Reached(w, c, S), m, r, Credit(v, c, S), L \ {c})
<1>1. /\ c \in ClausesOf(k) \ (d \cup w.sat) /\ w.status = "and" /\ p # "end" /\ w.sat \subseteq Chans
      /\ w.park_counter \in Int /\ w.permit \in BOOLEAN /\ w.shut \subseteq w.sat /\ r \subseteq w.sat
  BY DEF AndOK, Waiting
<1>2. c \in Chans /\ c \notin w.sat
  BY <1>1, ClausesAre
<1> DEFINE y == Reached(w, c, S)
<1>3. /\ y.shut = w.shut \cup S /\ y.status = "and" /\ y.sat = w.sat \cup {c}
      /\ y.park_counter = w.park_counter + 1 /\ y.permit = (w.permit \/ w.park_counter = -1)
  <2>1. S \in SUBSET Chans
    BY <1>2
  <2>2. IsReached(y, w, c, S)
    BY <1>1, <1>2, <2>1, ReachedIs
  <2> HIDE DEF y
  <2> QED BY <1>1, <2>2 DEF IsReached
<1> HIDE DEF y
<1>4. Cardinality(y.sat) = Cardinality(w.sat) + 1 /\ Cardinality(w.sat) \in Nat
  <2>1. IsFiniteSet(w.sat)
    BY <1>1, ChannelAssumption, FS_Subset
  <2>2. Cardinality(w.sat \cup {c}) = Cardinality(w.sat) + 1
    BY <2>1, <1>2, FS_AddElement
  <2> QED BY <2>1, <2>2, <1>3, FS_CardinalityType
<1>5. Cardinality(r) \in Nat
  <2>1. IsFiniteSet(r)
    BY <1>1, ChannelAssumption, FS_Subset
  <2> QED BY <2>1, FS_CardinalityType
<1>6. MovedFor(Credit(v, c, S), (y.sat \ y.shut) \cup r)
  <2>1. MovedFor(v, (w.sat \ w.shut) \cup r)
    BY <1>1 DEF AndOK
  <2>2. CASE S = {c}
    <3>1. (y.sat \ y.shut) \cup r = (w.sat \ w.shut) \cup r
      BY <1>1, <1>2, <1>3, <2>2
    <3> QED BY <3>1, <2>1, <2>2 DEF Credit
  <2>3. CASE S = {}
    <3>1. (y.sat \ y.shut) \cup r = ((w.sat \ w.shut) \cup r) \cup {c} /\ c \notin (w.sat \ w.shut) \cup r
      BY <1>1, <1>2, <1>3, <2>3
    <3>2. MovedFor(Credit(v, c, {}), ((w.sat \ w.shut) \cup r) \cup {c})
      BY <3>1, <2>1, <1>2, CreditIs
    <3> QED BY <3>1, <3>2, <2>3
  <2> QED BY <2>2, <2>3
<1>7. L \ {c} \subseteq ClausesOf(k) \ (d \cup y.sat)
      /\ (p \notin {"thrown", "end"} => L \ {c} = ClausesOf(k) \ (d \cup y.sat))
  BY <1>3 DEF AndOK
<1>8. d \cup y.sat \subseteq ClausesOf(k) /\ d \cap y.sat = {} /\ r \cup y.shut \subseteq y.sat
  BY <1>1, <1>2, <1>3 DEF AndOK
<1>9. /\ y.permit => p = "parked"
      /\ p # "parked" \/ y.permit => y.park_counter >= 0
      /\ p = "parked" /\ ~y.permit => y.park_counter = -1 /\ y.sat # ClausesOf(k)
  <2>1. CASE p # "parked"
    <3>1. w.park_counter >= 0 /\ ~w.permit
      BY <2>1 DEF AndOK
    <3>2. w.park_counter # -1 /\ w.park_counter + 1 >= 0
      BY <3>1, <1>1
    <3> QED BY <2>1, <3>1, <3>2, <1>3
  <2>2. CASE p = "parked" /\ w.permit
    <3>1. w.park_counter >= 0
      BY <2>2 DEF AndOK
    <3>2. w.park_counter + 1 >= 0
      BY <3>1, <1>1
    <3> QED BY <2>2, <3>2, <1>3
  <2>3. CASE p = "parked" /\ ~w.permit
    <3>1. w.park_counter = -1
      BY <2>3 DEF AndOK
    <3>2. w.park_counter + 1 >= 0
      BY <3>1
    <3> QED BY <2>3, <3>1, <3>2, <1>3
  <2> QED BY <2>1, <2>2, <2>3
<1>10. /\ p = "register" => r # ClausesOf(k) /\ Cardinality(y.sat) - y.park_counter <= Cardinality(r)
       /\ d # {} => p \in {"register", "closed", "thrown"} /\ r = {} /\ y.park_counter = Cardinality(y.sat)
  <2>1. /\ p = "register" => r # ClausesOf(k) /\ Cardinality(w.sat) - w.park_counter <= Cardinality(r)
        /\ d # {} => p \in {"register", "closed", "thrown"} /\ r = {} /\ w.park_counter = Cardinality(w.sat)
    BY DEF AndOK
  <2>2. /\ Cardinality(y.sat) - y.park_counter = Cardinality(w.sat) - w.park_counter
        /\ w.park_counter = Cardinality(w.sat) => y.park_counter = Cardinality(y.sat)
    BY <1>1, <1>3, <1>4
  <2> QED BY <2>1, <2>2
<1>11. p = "closed" => a \in ClausesOf(k) /\ (a \in d \/ (d = {} /\ a \in (y.sat \cap y.shut) \ r))
  BY <1>1, <1>3 DEF AndOK
<1>12. p = "unregister" => r = ClausesOf(k)
  BY DEF AndOK
<1>13. p \in AndPcs /\ ~m /\ k.other = "none"
  BY DEF AndOK
<1> QED BY <1>1, <1>3, <1>6, <1>7, <1>8, <1>9, <1>10, <1>11, <1>12, <1>13 DEF AndOK, y

\* A thread that waits at channel c may be woken for it.
LEMMA ReachedOK ==
  ASSUME NEW p, NEW k, NEW d, NEW a, NEW w \in Waiting, NEW m, NEW r, NEW v \in [Chans -> Nat], NEW L,
         NEW c \in L, NEW S \in SUBSET {c}, CallOK(p, k, d, a, w, m, r, v, L),
         ~Settled(w), w.status # "PENDING"
  PROVE  CallOK(p, k, d, a, Reached(w, c, S), m, r, Credit(v, c, S), L \ {c})
<1>1. CASE k \in Call /\ k.how \in {"block", "try", "close"} /\ PlainOK(p, k, d, a, w, m, r, v, L)
  BY <1>1, ReachedPlain DEF CallOK
<1>2. CASE k \in Call /\ k.how = "or" /\ OrOK(p, k, d, a, w, m, r, v, L)
  BY <1>2, ReachedOr DEF CallOK
<1>3. CASE k \in Call /\ k.how = "and" /\ AndOK(p, k, d, a, w, m, r, v, L)
  BY <1>3, ReachedAnd DEF CallOK
<1> QED BY <1>1, <1>2, <1>3 DEF CallOK
-----------------------------------------------------------------------------
(* The order of elements.                                                  *)

\* The elements of b come in order, after those of l.
SeqInOrder(b, l) ==
  \A i \in 1 .. Len(b) :
    /\ b[i][2] > l[b[i][1]]
    /\ \A j \in 1 .. (i - 1) : b[j][1] = b[i][1] => b[j][2] < b[i][2]

LEMMA InOrderIs == InOrder <=> \A c \in Chans : SeqInOrder(buffer[c], last[c])
BY DEF InOrder, SeqInOrder

LEMMA AppendInOrder ==
  ASSUME NEW b \in Seq(Element), NEW l \in [Threads -> Nat], NEW t \in Threads, NEW n \in Nat,
         SeqInOrder(b, l), l[t] < n, \A e \in ToSet(b) : e[1] = t => e[2] < n
  PROVE  SeqInOrder(Append(b, <<t, n>>), l)
<1> DEFINE s == Append(b, <<t, n>>)
<1>1. <<t, n>> \in Element
  BY DEF Element
<1>2. /\ s \in Seq(Element) /\ Len(s) = Len(b) + 1
      /\ \A i \in 1 .. Len(b) : s[i] = b[i]
      /\ s[Len(b) + 1] = <<t, n>>
  BY <1>1, AppendSet
<1>3. Len(b) \in Nat /\ \A i \in 1 .. Len(b) : b[i] \in ToSet(b) /\ b[i] \in Element
  BY SeqFacts
<1> HIDE DEF s
<1>4. ASSUME NEW i \in 1 .. Len(s)
      PROVE  /\ s[i][2] > l[s[i][1]]
             /\ \A j \in 1 .. (i - 1) : s[j][1] = s[i][1] => s[j][2] < s[i][2]
  <2>1. CASE i \in 1 .. Len(b)
    <3>1. \A j \in 1 .. (i - 1) : j \in 1 .. Len(b)
      BY <2>1, <1>3
    <3>2. /\ b[i][2] > l[b[i][1]]
          /\ \A j \in 1 .. (i - 1) : b[j][1] = b[i][1] => b[j][2] < b[i][2]
      BY <2>1 DEF SeqInOrder
    <3> QED BY <2>1, <3>1, <3>2, <1>2
  <2>2. CASE i = Len(b) + 1
    <3>1. s[i][1] = t /\ s[i][2] = n
      BY <2>2, <1>2
    <3>2. ASSUME NEW j \in 1 .. (i - 1), s[j][1] = t PROVE s[j][2] < n
      <4>1. j \in 1 .. Len(b)
        BY <2>2, <1>3
      <4>2. s[j] = b[j] /\ b[j] \in ToSet(b)
        BY <4>1, <1>2, <1>3
      <4> QED BY <4>2, <3>2
    <3> QED BY <3>1, <3>2
  <2> QED BY <2>1, <2>2, <1>2, <1>3
<1> QED BY <1>4 DEF SeqInOrder, s

LEMMA TailInOrder ==
  ASSUME NEW b \in Seq(Element), NEW l \in [Threads -> Nat], b # <<>>, SeqInOrder(b, l)
  PROVE  /\ b[1] \in Element
         /\ SeqInOrder(Tail(b), [l EXCEPT ![b[1][1]] = b[1][2]])
         /\ \A e \in ToSet(Tail(b)) : e \in ToSet(b)
<1> DEFINE s == Tail(b)
           l2 == [l EXCEPT ![b[1][1]] = b[1][2]]
<1>1. /\ s \in Seq(Element) /\ Len(s) = Len(b) - 1 /\ Len(b) \in Nat \ {0}
      /\ \A i \in 1 .. Len(b) - 1 : s[i] = b[i + 1]
      /\ ToSet(s) \subseteq ToSet(b) /\ b[1] \in Element
  BY TailSet
<1>2. \A i \in 1 .. Len(b) : b[i] \in Element
  BY SeqFacts
<1> HIDE DEF s
<1>3. ASSUME NEW i \in 1 .. Len(s)
      PROVE  /\ s[i][2] > l2[s[i][1]]
             /\ \A j \in 1 .. (i - 1) : s[j][1] = s[i][1] => s[j][2] < s[i][2]
  <2>1. i + 1 \in 1 .. Len(b) /\ s[i] = b[i + 1] /\ i \in 1 .. Len(b) - 1
    BY <1>1
  <2>2. /\ b[i + 1][2] > l[b[i + 1][1]]
        /\ \A j \in 1 .. (i + 1 - 1) : b[j][1] = b[i + 1][1] => b[j][2] < b[i + 1][2]
    BY <2>1 DEF SeqInOrder
  <2>3. ASSUME NEW j \in 1 .. (i - 1), s[j][1] = s[i][1] PROVE s[j][2] < s[i][2]
    <3>1. j + 1 \in 1 .. (i + 1 - 1) /\ j \in 1 .. Len(b) - 1
      BY <2>1, <1>1
    <3> QED BY <3>1, <2>1, <2>2, <2>3, <1>1
  <2>4. s[i][2] > l2[s[i][1]]
    <3>1. b[i + 1] \in Element /\ b[1] \in Element /\ 1 \in 1 .. (i + 1 - 1)
      BY <2>1, <1>1, <1>2
    <3>2. PICK u \in Threads, n \in Nat : b[i + 1][1] = u /\ b[i + 1][2] = n
      BY <3>1 DEF Element
    <3>3. PICK h \in Threads, k \in Nat : b[1][1] = h /\ b[1][2] = k
      BY <3>1 DEF Element
    <3>4. CASE u = h
      <4>1. k < n
        BY <3>1, <3>2, <3>3, <3>4, <2>2
      <4>2. l2[u] = k
        BY <3>3, <3>4
      <4> QED BY <4>1, <4>2, <3>2, <2>1
    <3>5. CASE u # h
      <4>1. l2[u] = l[u] /\ l[u] \in Nat
        BY <3>3, <3>5
      <4> QED BY <4>1, <3>2, <2>1, <2>2
    <3> QED BY <3>4, <3>5
  <2> QED BY <2>3, <2>4
<1> QED BY <1>1, <1>3 DEF SeqInOrder, s
-----------------------------------------------------------------------------
(* What a transfer does.                                                   *)

LEMMA WokenIs ==
  ASSUME NEW w \in [Threads -> Waiting], NEW u \in Threads, NEW c \in Chans
  PROVE  /\ Woken(w, u, c) \in [Threads -> Waiting]
         /\ Woken(w, u, c)[u] = Reached(w[u], c, {})
         /\ \A v \in Threads \ {u} : Woken(w, u, c)[v] = w[v]
<1>1. Woken(w, u, c) = [w EXCEPT ![u] = WakeOne(w[u], c)]
  BY DEF Woken, WakeOne
<1>2. [w[u] EXCEPT !.shut = @ \cup {}] = w[u]
  BY DEF Waiting
<1>3. WakeOne(w[u], c) = Reached(w[u], c, {})
  BY <1>2 DEF Reached
<1>4. Reached(w[u], c, {}) \in Waiting
  <2>1. IsReached(Reached(w[u], c, {}), w[u], c, {})
    BY ReachedIs
  <2> QED BY <2>1 DEF IsReached
<1> QED BY <1>1, <1>3, <1>4

LEMMA ShutAndWakeIs ==
  ASSUME wait \in [Threads -> Waiting], NEW u \in Threads, NEW c \in Chans
  PROVE  /\ ShutAndWake(u, c) \in [Threads -> Waiting]
         /\ ShutAndWake(u, c)[u] = Reached(wait[u], c, {c})
         /\ \A v \in Threads \ {u} : ShutAndWake(u, c)[v] = wait[v]
<1> DEFINE x == [wait[u] EXCEPT !.shut = @ \cup {c}]
           w == [wait EXCEPT ![u].shut = @ \cup {c}]
<1>1. w = [wait EXCEPT ![u] = x] /\ x \in Waiting
  BY DEF Waiting
<1>2. w[u] = x /\ \A v \in Threads \ {u} : w[v] = wait[v]
  BY <1>1
<1>3. Woken(w, u, c) = [w EXCEPT ![u] = WakeOne(w[u], c)]
  BY DEF Woken, WakeOne
<1>4. WakeOne(x, c) = Reached(wait[u], c, {c})
  BY DEF Reached
<1>5. Reached(wait[u], c, {c}) \in Waiting
  <2>1. IsReached(Reached(wait[u], c, {c}), wait[u], c, {c})
    BY ReachedIs
  <2> QED BY <2>1 DEF IsReached
<1>6. w \in [Threads -> Waiting]
  BY <1>1
<1> HIDE DEF w, x
<1>7. /\ Woken(w, u, c) \in [Threads -> Waiting]
      /\ Woken(w, u, c)[u] = Reached(wait[u], c, {c})
      /\ \A v \in Threads \ {u} : Woken(w, u, c)[v] = wait[v]
  BY <1>2, <1>3, <1>4, <1>5, <1>6
<1> QED BY <1>7 DEF ShutAndWake, w

LEMMA MovesIs ==
  ASSUME moved \in [Threads -> [Chans -> Nat]], NEW c \in Chans, NEW ts, Moves(c, ts)
  PROVE  /\ moved' \in [Threads -> [Chans -> Nat]]
         /\ \A v \in Threads : moved'[v] = IF v \in ts THEN Credit(moved[v], c, {}) ELSE moved[v]
<1>1. \A v \in Threads : moved'[v] = IF v \in ts THEN Credit(moved[v], c, {}) ELSE moved[v]
  BY DEF Moves, Credit
<1>2. \A v \in Threads : Credit(moved[v], c, {}) \in [Chans -> Nat]
  BY DEF Credit, Set
<1>3. DOMAIN moved' = Threads /\ moved' = [v \in DOMAIN moved' |-> moved'[v]]
  BY DEF Moves
<1> QED BY <1>1, <1>2, <1>3

\* r is left of q when t acts and those of out are taken off.
KeptBut(q, r, t, out) ==
  /\ r \in Seq(Threads) /\ IsInjective(r)
  /\ ToSet(r) \ {t} \subseteq ToSet(q) \ out
  /\ \A u \in ToSet(q) \ ToSet(r) : u = t \/ u \in out \/ Decided(u)

QueuesStep(t, c, out) ==
  /\ prods' \in [Chans -> Seq(Threads)] /\ cons' \in [Chans -> Seq(Threads)]
  /\ \A x \in Chans \ {c} : prods'[x] = prods[x] /\ cons'[x] = cons[x]
  /\ KeptBut(prods[c], prods'[c], t, out) /\ KeptBut(cons[c], cons'[c], t, out)

\* t stays where it is listed, and is not taken off.
SelfListed(t, c) ==
  /\ t \in ToSet(prods'[c]) <=> t \in ToSet(prods[c])
  /\ t \in ToSet(cons'[c]) <=> t \in ToSet(cons[c])

\* Those of out wait at c for something to happen.
Wait(out, t, c) ==
  /\ out \in SUBSET (Threads \ {t})
  /\ \A u \in out : ~Settled(wait[u]) /\ wait[u].status # "PENDING" /\ c \in Listed(u)

(* A transfer of t at c, with waiting states w but for those of out, which *)
(* were waiting and have been reached.                                     *)
Transferred(t, c, w, out) ==
  /\ Wait(out, t, c) /\ QueuesStep(t, c, out) /\ SelfListed(t, c)
  /\ wait' \in [Threads -> Waiting]
  /\ \A v \in Threads : wait'[v] = IF v \in out THEN Reached(wait[v], c, {}) ELSE w[v]
  /\ moved' \in [Threads -> [Chans -> Nat]]
  /\ \A v \in Threads : moved'[v] = IF v \in out \cup {t} THEN Credit(moved[v], c, {}) ELSE moved[v]
  /\ buffer' \in [Chans -> Seq(Element)] /\ last' \in [Chans -> [Threads -> Nat]]
  /\ Len(buffer'[c]) <= Size[c]
  /\ \A x \in Chans \ {c} : buffer'[x] = buffer[x] /\ last'[x] = last[x]
  /\ overtaken' \in SUBSET Chans /\ overtaken \subseteq overtaken'
  /\ SomeWait(prods[c]) => Len(buffer'[c]) = Size[c]
  /\ SomeWait(cons[c]) => buffer'[c] = <<>>
  /\ overtaken' # {} \/ SeqInOrder(buffer'[c], last'[c])
  /\ \A v \in Threads : \/ last'[c][v] = last[c][v]
                        \/ v \in out \cup {t} /\ last'[c][v] = number[v]
                        \/ <<v, last'[c][v]>> \in ToSet(buffer[c])
  /\ \A e \in ToSet(buffer'[c]) : e \in ToSet(buffer[c]) \/ (e[1] \in out \cup {t} /\ e[2] = number[e[1]])

\* Nothing has moved yet for a thread that waits.
LEMMA WaiterFacts ==
  ASSUME CallInv, NEW u \in Threads, NEW c \in Listed(u), ~Settled(wait[u])
  PROVE  moved[u][c] = 0 /\ pc[u] \notin {"run", "end"} /\ c \in ClausesOf(call[u])
<1>1. CallOK(pc[u], call[u], todo[u], at[u], wait[u], armed[u], ran[u], moved[u], Listed(u)) /\ c \in Chans
  BY DEF CallInv, Listed
<1>2. CASE PlainOK(pc[u], call[u], todo[u], at[u], wait[u], armed[u], ran[u], moved[u], Listed(u))
  <2>1. pc[u] = "parked" /\ ~wait[u].permit /\ MovedFor(moved[u], {}) /\ c \in ClausesOf(call[u])
    BY <1>2 DEF PlainOK
  <2> QED BY <2>1, <1>1 DEF MovedFor
<1>3. CASE OrOK(pc[u], call[u], todo[u], at[u], wait[u], armed[u], ran[u], moved[u], Listed(u))
  <2>1. pc[u] \notin {"run", "end"} /\ MovedFor(moved[u], {}) /\ c \in ClausesOf(call[u])
    BY <1>3 DEF OrOK
  <2> QED BY <2>1, <1>1 DEF MovedFor
<1>4. CASE AndOK(pc[u], call[u], todo[u], at[u], wait[u], armed[u], ran[u], moved[u], Listed(u))
  <2>1. /\ pc[u] # "end" /\ pc[u] \in AndPcs /\ c \in ClausesOf(call[u]) /\ c \notin (wait[u].sat \ wait[u].shut) \cup ran[u]
        /\ MovedFor(moved[u], (wait[u].sat \ wait[u].shut) \cup ran[u])
    BY <1>4 DEF AndOK
  <2>2. moved[u][c] = 0
    BY <2>1, <1>1 DEF MovedFor
  <2> QED BY <2>1, <2>2 DEF AndPcs
<1> QED BY <1>1, <1>2, <1>3, <1>4 DEF CallOK

\* The first live node of a queue, and the others.
LEMMA FirstLive ==
  ASSUME TypeOK, QueueInv, NEW t \in Threads, NEW c \in Chans, NEW q \in {prods[c], cons[c]},
         Live(q) # <<>>, ~Pending(Live(q)[1]), t \notin ToSet(q)
  PROVE  /\ Live(q)[1] \in Threads \ {t} /\ Live(q)[1] \in ToSet(q)
         /\ ~Settled(wait[Live(q)[1]])
         /\ Wait({Live(q)[1]}, t, c)
         /\ Kept(q, Tail(Live(q)), {Live(q)[1]})
         /\ SomeWait(q)
<1>1. q \in Seq(Threads) /\ IsInjective(q)
  BY DEF TypeOK, ChannelTypeOK, QueueInv
<1>2. /\ Live(q)[1] \in ToSet(q) /\ Live(q)[1] \in Threads
      /\ ~Decided(Live(q)[1])
      /\ Kept(q, Tail(Live(q)), {Live(q)[1]})
  BY <1>1, LiveKept
<1>3. ~Settled(wait[Live(q)[1]]) /\ wait[Live(q)[1]].status # "PENDING"
  BY <1>2, DecidedIs DEF Pending
<1> QED BY <1>2, <1>3 DEF Wait, SomeWait, Listed

LEMMA KeptIsKeptBut ==
  ASSUME NEW q, NEW r, NEW t, NEW out, Kept(q, r, out) PROVE KeptBut(q, r, t, out)
BY DEF Kept, KeptBut

\* A thread on one of the queues of a channel is not on the other.
LEMMA OneSide ==
  ASSUME QueueInv, NEW c \in Chans, NEW u
  PROVE  /\ u \in ToSet(cons[c]) => u \notin ToSet(prods[c]) /\ Clause(u, c) = "remove"
         /\ u \in ToSet(prods[c]) => u \notin ToSet(cons[c]) /\ Clause(u, c) = "insert"
BY DEF QueueInv

\* One queue of c becomes shorter, by decided nodes and those of out.
LEMMA ShorterCons ==
  ASSUME TypeOK, QueueInv, NEW t \in Threads, NEW c \in Chans, NEW out \in SUBSET ToSet(cons[c]), NEW r,
         Kept(cons[c], r, out), cons' = Set(cons, c, r), prods' = prods, t \notin ToSet(cons[c])
  PROVE  QueuesStep(t, c, out) /\ SelfListed(t, c)
<1>1. /\ prods \in [Chans -> Seq(Threads)] /\ cons \in [Chans -> Seq(Threads)]
      /\ prods[c] \in Seq(Threads) /\ IsInjective(prods[c])
  BY DEF TypeOK, ChannelTypeOK, QueueInv
<1>2. r \in Seq(Threads) /\ ToSet(r) \subseteq ToSet(cons[c])
  BY DEF Kept
<1>3. /\ cons' \in [Chans -> Seq(Threads)] /\ cons'[c] = r /\ \A x \in Chans \ {c} : cons'[x] = cons[x]
  BY <1>1, <1>2 DEF Set
<1>4. KeptBut(cons[c], cons'[c], t, out)
  BY <1>3, KeptIsKeptBut
<1>5. KeptBut(prods[c], prods'[c], t, out)
  BY <1>1, OneSide DEF KeptBut
<1> QED BY <1>1, <1>2, <1>3, <1>4, <1>5 DEF QueuesStep, SelfListed

LEMMA ShorterProds ==
  ASSUME TypeOK, QueueInv, NEW t \in Threads, NEW c \in Chans, NEW out \in SUBSET ToSet(prods[c]), NEW r,
         Kept(prods[c], r, out), prods' = Set(prods, c, r), cons' = cons, t \notin ToSet(prods[c])
  PROVE  QueuesStep(t, c, out) /\ SelfListed(t, c)
<1>1. /\ prods \in [Chans -> Seq(Threads)] /\ cons \in [Chans -> Seq(Threads)]
      /\ cons[c] \in Seq(Threads) /\ IsInjective(cons[c])
  BY DEF TypeOK, ChannelTypeOK, QueueInv
<1>2. r \in Seq(Threads) /\ ToSet(r) \subseteq ToSet(prods[c])
  BY DEF Kept
<1>3. /\ prods' \in [Chans -> Seq(Threads)] /\ prods'[c] = r /\ \A x \in Chans \ {c} : prods'[x] = prods[x]
  BY <1>1, <1>2 DEF Set
<1>4. KeptBut(prods[c], prods'[c], t, out)
  BY <1>3, KeptIsKeptBut
<1>5. KeptBut(cons[c], cons'[c], t, out)
  BY <1>1, OneSide DEF KeptBut
<1> QED BY <1>1, <1>2, <1>3, <1>4, <1>5 DEF QueuesStep, SelfListed

LEMMA SameQueues ==
  ASSUME TypeOK, QueueInv, NEW t, NEW c \in Chans, prods' = prods, cons' = cons
  PROVE  QueuesStep(t, c, {}) /\ SelfListed(t, c)
BY DEF TypeOK, ChannelTypeOK, QueueInv, QueuesStep, SelfListed, KeptBut
-----------------------------------------------------------------------------
(* Each kind of transfer is one.                                           *)

\* A thread that may transfer at c for a clause of kind side.
Transfers(t, c, w, side) ==
  /\ w \in [Threads -> Waiting] /\ \A v \in Threads \ {t} : w[v] = wait[v]
  /\ moved[t][c] = 0 /\ pc[t] # "run" /\ Clause(t, c) = side

\* What a transfer without others does to waiting states and counts.
LEMMA AloneMoves ==
  ASSUME TypeOK, NEW t \in Threads, NEW c \in Chans, NEW w \in [Threads -> Waiting],
         wait' = w, Moves(c, {t})
  PROVE  /\ wait' \in [Threads -> Waiting]
         /\ \A v \in Threads : wait'[v] = IF v \in {} THEN Reached(wait[v], c, {}) ELSE w[v]
         /\ moved' \in [Threads -> [Chans -> Nat]]
         /\ \A v \in Threads : moved'[v] = IF v \in {} \cup {t} THEN Credit(moved[v], c, {}) ELSE moved[v]
BY MovesIs DEF TypeOK, CallTypeOK

\* ... and with another.
LEMMA PairMoves ==
  ASSUME TypeOK, NEW t \in Threads, NEW c \in Chans, NEW w, NEW u \in Threads \ {t}, NEW side,
         Transfers(t, c, w, side), wait' = Woken(w, u, c), Moves(c, {t, u})
  PROVE  /\ wait' \in [Threads -> Waiting]
         /\ \A v \in Threads : wait'[v] = IF v \in {u} THEN Reached(wait[v], c, {}) ELSE w[v]
         /\ moved' \in [Threads -> [Chans -> Nat]]
         /\ \A v \in Threads : moved'[v] = IF v \in {u} \cup {t} THEN Credit(moved[v], c, {}) ELSE moved[v]
<1>1. w \in [Threads -> Waiting] /\ w[u] = wait[u]
  BY DEF Transfers
<1>2. /\ wait' \in [Threads -> Waiting] /\ wait'[u] = Reached(w[u], c, {})
      /\ \A v \in Threads \ {u} : wait'[v] = w[v]
  BY <1>1, WokenIs
<1>3. moved \in [Threads -> [Chans -> Nat]]
  BY DEF TypeOK, CallTypeOK
<1>4. /\ moved' \in [Threads -> [Chans -> Nat]]
      /\ \A v \in Threads : moved'[v] = IF v \in {t, u} THEN Credit(moved[v], c, {}) ELSE moved[v]
  BY <1>3, MovesIs
<1> QED BY <1>1, <1>2, <1>4

\* The element of a thread for which nothing has moved is the latest of the
\* thread, so far.
LEMMA LatestElem ==
  ASSUME TypeOK, OrderInv, NEW u \in Threads, NEW c \in Chans, moved[u][c] = 0, pc[u] # "run"
  PROVE  /\ number[u] \in Nat /\ Elem(u) = <<u, number[u]>> /\ Elem(u) \in Element
         /\ last[c][u] < number[u]
         /\ \A e \in ToSet(buffer[c]) : e[1] = u => e[2] < number[u]
<1>1. number[u] \in Nat /\ last[c][u] \in Nat
  BY DEF TypeOK, CallTypeOK, ChannelTypeOK
<1>2. Given(u, c, last[c][u]) /\ \A e \in ToSet(buffer[c]) : Given(e[1], c, e[2])
  BY DEF OrderInv
<1>3. last[c][u] < number[u]
  BY <1>1, <1>2 DEF Given
<1>4. ASSUME NEW e \in ToSet(buffer[c]), e[1] = u PROVE e[2] < number[u]
  <2>1. e \in Element
    <3>1. buffer[c] \in Seq(Element)
      BY DEF TypeOK, ChannelTypeOK
    <3> QED BY <3>1, SeqFacts
  <2>2. e[2] \in Nat
    BY <2>1 DEF Element
  <2>3. Given(u, c, e[2])
    BY <1>2, <1>4
  <2> QED BY <2>2, <2>3, <1>1 DEF Given
<1> QED BY <1>1, <1>3, <1>4 DEF Elem, Element

LEMMA BufferFacts ==
  ASSUME TypeOK, InOrderUnlessOvertaken, NEW c \in Chans
  PROVE  /\ buffer \in [Chans -> Seq(Element)] /\ buffer[c] \in Seq(Element)
         /\ last \in [Chans -> [Threads -> Nat]] /\ last[c] \in [Threads -> Nat]
         /\ overtaken \in SUBSET Chans
         /\ Len(buffer[c]) \in Nat /\ Len(buffer[c]) <= Size[c] /\ Size[c] \in Nat
         /\ overtaken # {} \/ SeqInOrder(buffer[c], last[c])
<1>1. /\ buffer \in [Chans -> Seq(Element)] /\ last \in [Chans -> [Threads -> Nat]] /\ overtaken \in SUBSET Chans
      /\ Len(buffer[c]) <= Size[c]
  BY DEF TypeOK, ChannelTypeOK
<1>2. Size[c] \in Nat
  BY ChannelAssumption
<1>3. buffer[c] \in Seq(Element) /\ last[c] \in [Threads -> Nat]
  BY <1>1
<1>4. Len(buffer[c]) \in Nat
  BY <1>3, SeqFacts
<1>5. overtaken # {} \/ SeqInOrder(buffer[c], last[c])
  BY InOrderIs DEF InOrderUnlessOvertaken
<1> QED BY <1>1, <1>2, <1>3, <1>4, <1>5

\* Who is taken off a queue has had nothing moved.
LEMMA WaitersFresh ==
  ASSUME CallInv, NEW t, NEW c \in Chans, NEW out, Wait(out, t, c)
  PROVE  \A u \in out : u \in Threads /\ u # t /\ moved[u][c] = 0 /\ pc[u] # "run"
BY WaiterFacts DEF Wait

LEMMA ConsHandoffIs ==
  ASSUME IInv, NEW t \in Threads, NEW c \in Chans, NEW w, Transfers(t, c, w, "insert"), ConsHandoff(t, c, w)
  PROVE  \E out : Transferred(t, c, w, out)
<1>1. TypeOK /\ CallInv /\ QueueInv /\ MatchInv /\ OrderInv /\ InOrderUnlessOvertaken
  BY DEF IInv
<1> DEFINE q == Live(cons[c])
           u == q[1]
           e == <<t, number[t]>>
<1>2. /\ q # <<>> /\ ~Pending(u) /\ cons' = Set(cons, c, Tail(q)) /\ wait' = Woken(w, u, c)
      /\ Moves(c, {t, u}) /\ Taken(c, Elem(t))
      /\ buffer' = buffer /\ prods' = prods /\ overtaken' = overtaken
  BY DEF ConsHandoff
<1>3. t \notin ToSet(cons[c])
  BY <1>1, OneSide DEF Transfers
<1>4. /\ u \in Threads \ {t} /\ u \in ToSet(cons[c]) /\ Wait({u}, t, c)
      /\ Kept(cons[c], Tail(q), {u}) /\ SomeWait(cons[c])
  BY <1>1, <1>2, <1>3, FirstLive
<1> HIDE DEF q, u
<1>5. QueuesStep(t, c, {u}) /\ SelfListed(t, c)
  BY <1>1, <1>2, <1>3, <1>4, ShorterCons
<1>6. /\ wait' \in [Threads -> Waiting]
      /\ \A v \in Threads : wait'[v] = IF v \in {u} THEN Reached(wait[v], c, {}) ELSE w[v]
      /\ moved' \in [Threads -> [Chans -> Nat]]
      /\ \A v \in Threads : moved'[v] = IF v \in {u} \cup {t} THEN Credit(moved[v], c, {}) ELSE moved[v]
  BY <1>1, <1>2, <1>4, PairMoves
<1>7. /\ number[t] \in Nat /\ Elem(t) = <<t, number[t]>>
  BY <1>1, LatestElem DEF Transfers
<1>8. /\ buffer \in [Chans -> Seq(Element)] /\ last \in [Chans -> [Threads -> Nat]]
      /\ Len(buffer[c]) <= Size[c] /\ overtaken \in SUBSET Chans
  BY <1>1, BufferFacts
<1>9. last' = [last EXCEPT ![c][t] = number[t]]
  BY <1>2, <1>7 DEF Taken
<1>10. buffer[c] = <<>> /\ ~SomeWait(prods[c])
  BY <1>1, <1>4 DEF MatchInv
<1>11. /\ last' \in [Chans -> [Threads -> Nat]] /\ \A x \in Chans \ {c} : last'[x] = last[x]
       /\ \A v \in Threads : last'[c][v] = IF v = t THEN number[t] ELSE last[c][v]
  BY <1>7, <1>8, <1>9
<1>12. SeqInOrder(buffer'[c], last'[c])
  <2>1. Len(buffer[c]) = 0
    BY <1>10, EmptyFacts
  <2>2. \A i \in 1 .. Len(buffer[c]) : FALSE
    BY <2>1
  <2> QED BY <1>2, <2>2 DEF SeqInOrder
<1> QED BY <1>2, <1>4, <1>5, <1>6, <1>8, <1>10, <1>11, <1>12 DEF Transferred

LEMMA BufInsertIs ==
  ASSUME IInv, NEW t \in Threads, NEW c \in Chans, NEW w, Transfers(t, c, w, "insert"), BufInsert(t, c, w)
  PROVE  \E out : Transferred(t, c, w, out)
<1>1. TypeOK /\ CallInv /\ QueueInv /\ MatchInv /\ OrderInv /\ InOrderUnlessOvertaken
  BY DEF IInv
<1>2. /\ Live(cons[c]) = <<>> /\ Len(buffer[c]) < Size[c]
      /\ cons' = Set(cons, c, <<>>) /\ buffer' = Set(buffer, c, Append(buffer[c], Elem(t)))
      /\ wait' = w /\ Moves(c, {t})
      /\ prods' = prods /\ last' = last /\ overtaken' = overtaken
  BY DEF BufInsert
<1>3. t \notin ToSet(cons[c])
  BY <1>1, OneSide DEF Transfers
<1>4. Kept(cons[c], <<>>, {}) /\ ~SomeWait(cons[c])
  <2>1. cons[c] \in Seq(Threads) /\ IsInjective(cons[c])
    BY <1>1 DEF TypeOK, ChannelTypeOK, QueueInv
  <2> QED BY <2>1, <1>2, LiveKept, DecidedIs DEF SomeWait
<1>5. QueuesStep(t, c, {}) /\ SelfListed(t, c)
  BY <1>1, <1>2, <1>3, <1>4, ShorterCons
<1>6. /\ wait' \in [Threads -> Waiting]
      /\ \A v \in Threads : wait'[v] = IF v \in {} THEN Reached(wait[v], c, {}) ELSE w[v]
      /\ moved' \in [Threads -> [Chans -> Nat]]
      /\ \A v \in Threads : moved'[v] = IF v \in {} \cup {t} THEN Credit(moved[v], c, {}) ELSE moved[v]
  BY <1>1, <1>2, AloneMoves DEF Transfers
<1>7. /\ number[t] \in Nat /\ Elem(t) = <<t, number[t]>> /\ Elem(t) \in Element
      /\ last[c][t] < number[t]
      /\ \A e \in ToSet(buffer[c]) : e[1] = t => e[2] < number[t]
  BY <1>1, LatestElem DEF Transfers
<1>8. /\ buffer \in [Chans -> Seq(Element)] /\ last \in [Chans -> [Threads -> Nat]]
      /\ buffer[c] \in Seq(Element) /\ last[c] \in [Threads -> Nat]
      /\ Len(buffer[c]) \in Nat /\ Size[c] \in Nat /\ overtaken \in SUBSET Chans
      /\ overtaken # {} \/ SeqInOrder(buffer[c], last[c])
  BY <1>1, BufferFacts
<1> DEFINE b == Append(buffer[c], Elem(t))
<1>9. b \in Seq(Element) /\ Len(b) = Len(buffer[c]) + 1 /\ ToSet(b) = ToSet(buffer[c]) \cup {Elem(t)}
  <2>1. buffer[c] \in Seq(Element) /\ Elem(t) \in Element
    BY <1>7, <1>8
  <2> QED BY <2>1, AppendSet
<1>10. overtaken # {} \/ SeqInOrder(b, last[c])
  BY <1>7, <1>8, AppendInOrder
<1> HIDE DEF b
<1>11. buffer' \in [Chans -> Seq(Element)] /\ buffer'[c] = b /\ \A x \in Chans \ {c} : buffer'[x] = buffer[x]
  BY <1>2, <1>8, <1>9 DEF Set, b
<1>12. ~SomeWait(prods[c])
  BY <1>1, <1>2, <1>8 DEF MatchInv
<1>13. \A e \in ToSet(buffer'[c]) : e \in ToSet(buffer[c]) \/ (e[1] \in {} \cup {t} /\ e[2] = number[e[1]])
  BY <1>7, <1>9, <1>11
<1>14. Len(buffer'[c]) <= Size[c]
  BY <1>2, <1>8, <1>9, <1>11
<1>15. Wait({}, t, c)
  BY DEF Wait
<1> QED BY <1>2, <1>4, <1>5, <1>6, <1>8, <1>10, <1>11, <1>12, <1>13, <1>14, <1>15 DEF Transferred

LEMMA ProdsHandoffIs ==
  ASSUME IInv, NEW t \in Threads, NEW c \in Chans, NEW w, Transfers(t, c, w, "remove"), ProdsHandoff(t, c, w)
  PROVE  \E out : Transferred(t, c, w, out)
<1>1. TypeOK /\ CallInv /\ QueueInv /\ MatchInv /\ OrderInv /\ InOrderUnlessOvertaken
  BY DEF IInv
<1> DEFINE q == Live(prods[c])
           u == q[1]
<1>2. /\ q # <<>> /\ ~Pending(u) /\ prods' = Set(prods, c, Tail(q)) /\ wait' = Woken(w, u, c)
      /\ Moves(c, {t, u}) /\ Taken(c, Elem(u))
      /\ overtaken' = IF buffer[c] = <<>> THEN overtaken ELSE overtaken \cup {c}
      /\ buffer' = buffer /\ cons' = cons
  BY DEF ProdsHandoff
<1>3. t \notin ToSet(prods[c])
  BY <1>1, OneSide DEF Transfers
<1>4. /\ u \in Threads \ {t} /\ u \in ToSet(prods[c]) /\ Wait({u}, t, c)
      /\ Kept(prods[c], Tail(q), {u}) /\ SomeWait(prods[c])
  BY <1>1, <1>2, <1>3, FirstLive
<1> HIDE DEF q, u
<1>5. QueuesStep(t, c, {u}) /\ SelfListed(t, c)
  BY <1>1, <1>2, <1>3, <1>4, ShorterProds
<1>6. /\ wait' \in [Threads -> Waiting]
      /\ \A v \in Threads : wait'[v] = IF v \in {u} THEN Reached(wait[v], c, {}) ELSE w[v]
      /\ moved' \in [Threads -> [Chans -> Nat]]
      /\ \A v \in Threads : moved'[v] = IF v \in {u} \cup {t} THEN Credit(moved[v], c, {}) ELSE moved[v]
  BY <1>1, <1>2, <1>4, PairMoves
<1>7. /\ number[u] \in Nat /\ Elem(u) = <<u, number[u]>>
  <2>1. moved[u][c] = 0 /\ pc[u] # "run"
    BY <1>1, <1>4, WaitersFresh
  <2> QED BY <2>1, <1>1, <1>4, LatestElem
<1>8. /\ buffer \in [Chans -> Seq(Element)] /\ last \in [Chans -> [Threads -> Nat]]
      /\ Len(buffer[c]) <= Size[c] /\ overtaken \in SUBSET Chans
  BY <1>1, BufferFacts
<1>9. last' = [last EXCEPT ![c][u] = number[u]]
  BY <1>2, <1>7 DEF Taken
<1>10. Len(buffer[c]) = Size[c] /\ ~SomeWait(cons[c])
  BY <1>1, <1>4 DEF MatchInv
<1>11. /\ last' \in [Chans -> [Threads -> Nat]] /\ \A x \in Chans \ {c} : last'[x] = last[x]
       /\ \A v \in Threads : last'[c][v] = IF v = u THEN number[u] ELSE last[c][v]
  BY <1>4, <1>7, <1>8, <1>9
<1>12. overtaken' # {} \/ SeqInOrder(buffer'[c], last'[c])
  <2>1. CASE buffer[c] = <<>>
    <3>1. Len(buffer[c]) = 0
      BY <2>1, EmptyFacts
    <3>2. \A i \in 1 .. Len(buffer[c]) : FALSE
      BY <3>1
    <3> QED BY <1>2, <3>2 DEF SeqInOrder
  <2>2. CASE buffer[c] # <<>>
    BY <1>2, <2>2
  <2> QED BY <2>1, <2>2
<1>13. overtaken' \in SUBSET Chans /\ overtaken \subseteq overtaken'
  BY <1>2, <1>8
<1>14. \A v \in Threads : \/ last'[c][v] = last[c][v]
                          \/ v \in {u} \cup {t} /\ last'[c][v] = number[v]
  BY <1>11
<1>15. Transferred(t, c, w, {u})
  BY <1>2, <1>4, <1>5, <1>6, <1>8, <1>10, <1>11, <1>12, <1>13, <1>14 DEF Transferred
<1> QED BY <1>15
\* The oldest element of a buffer is taken out.
LEMMA HeadTaken ==
  ASSUME TypeOK, InOrderUnlessOvertaken, NEW c \in Chans, buffer[c] # <<>>, Taken(c, Head(buffer[c]))
  PROVE  /\ last' \in [Chans -> [Threads -> Nat]] /\ \A x \in Chans \ {c} : last'[x] = last[x]
         /\ Tail(buffer[c]) \in Seq(Element) /\ Len(Tail(buffer[c])) = Len(buffer[c]) - 1
         /\ Len(buffer[c]) \in Nat \ {0}
         /\ overtaken # {} \/ SeqInOrder(Tail(buffer[c]), last'[c])
         /\ \A v \in Threads : last'[c][v] = last[c][v] \/ <<v, last'[c][v]>> \in ToSet(buffer[c])
         /\ \A e \in ToSet(Tail(buffer[c])) : e \in ToSet(buffer[c])
<1> DEFINE h == buffer[c][1]
<1>1. /\ buffer[c] \in Seq(Element) /\ last \in [Chans -> [Threads -> Nat]] /\ last[c] \in [Threads -> Nat]
      /\ overtaken # {} \/ SeqInOrder(buffer[c], last[c])
  BY BufferFacts
<1>2. /\ Head(buffer[c]) = h /\ h \in Element /\ h \in ToSet(buffer[c])
      /\ Tail(buffer[c]) \in Seq(Element) /\ Len(Tail(buffer[c])) = Len(buffer[c]) - 1
      /\ Len(buffer[c]) \in Nat \ {0} /\ ToSet(Tail(buffer[c])) \subseteq ToSet(buffer[c])
  BY <1>1, TailSet
<1>3. PICK u \in Threads, n \in Nat : h = <<u, n>> /\ h[1] = u /\ h[2] = n
  BY <1>2 DEF Element
<1>4. last' = [last EXCEPT ![c][u] = n]
  BY <1>2, <1>3 DEF Taken
<1>5. last'[c] = [last[c] EXCEPT ![u] = n] /\ last' \in [Chans -> [Threads -> Nat]]
      /\ \A x \in Chans \ {c} : last'[x] = last[x]
  BY <1>1, <1>4
<1>6. SeqInOrder(buffer[c], last[c]) => SeqInOrder(Tail(buffer[c]), [last[c] EXCEPT ![h[1]] = h[2]])
  BY <1>1, TailInOrder
<1>7. \A v \in Threads : last'[c][v] = last[c][v] \/ <<v, last'[c][v]>> \in ToSet(buffer[c])
  <2> SUFFICES ASSUME NEW v \in Threads PROVE last'[c][v] = last[c][v] \/ <<v, last'[c][v]>> \in ToSet(buffer[c])
    OBVIOUS
  <2>1. CASE v = u
    <3>1. last'[c][v] = n
      BY <2>1, <1>1, <1>5
    <3> QED BY <3>1, <2>1, <1>2, <1>3
  <2>2. CASE v # u
    BY <2>2, <1>1, <1>5
  <2> QED BY <2>1, <2>2
<1> QED BY <1>1, <1>2, <1>3, <1>5, <1>6, <1>7

LEMMA BufRemoveIs ==
  ASSUME IInv, NEW t \in Threads, NEW c \in Chans, NEW w, Transfers(t, c, w, "remove"), BufRemove(t, c, w)
  PROVE  \E out : Transferred(t, c, w, out)
<1>1. TypeOK /\ CallInv /\ QueueInv /\ MatchInv /\ OrderInv /\ InOrderUnlessOvertaken
  BY DEF IInv
<1>2. /\ buffer[c] # <<>> /\ buffer' = Set(buffer, c, Tail(buffer[c]))
      /\ wait' = w /\ Moves(c, {t}) /\ Taken(c, Head(buffer[c]))
      /\ cons' = cons /\ overtaken' = overtaken
  BY DEF BufRemove
<1>3. t \notin ToSet(prods[c])
  BY <1>1, OneSide DEF Transfers
<1>4. /\ last' \in [Chans -> [Threads -> Nat]] /\ \A x \in Chans \ {c} : last'[x] = last[x]
      /\ Tail(buffer[c]) \in Seq(Element) /\ Len(Tail(buffer[c])) = Len(buffer[c]) - 1
      /\ Len(buffer[c]) \in Nat \ {0}
      /\ overtaken # {} \/ SeqInOrder(Tail(buffer[c]), last'[c])
      /\ \A v \in Threads : last'[c][v] = last[c][v] \/ <<v, last'[c][v]>> \in ToSet(buffer[c])
      /\ \A e \in ToSet(Tail(buffer[c])) : e \in ToSet(buffer[c])
  BY <1>1, <1>2, HeadTaken
<1>5. /\ buffer \in [Chans -> Seq(Element)] /\ Size[c] \in Nat /\ Len(buffer[c]) <= Size[c]
      /\ overtaken \in SUBSET Chans
  BY <1>1, BufferFacts
<1>6. QueuesStep(t, c, {}) /\ SelfListed(t, c) /\ ~SomeWait(prods[c])
  <2>1. CASE Len(buffer[c]) < Size[c] /\ prods' = prods
    <3>1. ~SomeWait(prods[c])
      BY <2>1, <1>1, <1>4, <1>5 DEF MatchInv
    <3> QED BY <3>1, <2>1, <1>1, <1>2, SameQueues
  <2>2. CASE Live(prods[c]) = <<>> /\ prods' = Set(prods, c, <<>>)
    <3>1. prods[c] \in Seq(Threads) /\ IsInjective(prods[c])
      BY <1>1 DEF TypeOK, ChannelTypeOK, QueueInv
    <3>2. Kept(prods[c], <<>>, {}) /\ ~SomeWait(prods[c])
      BY <3>1, <2>2, LiveKept, DecidedIs DEF SomeWait
    <3> QED BY <3>2, <2>2, <1>1, <1>2, <1>3, ShorterProds
  <2> QED BY <2>1, <2>2 DEF BufRemove
<1>7. ~SomeWait(cons[c])
  BY <1>1, <1>2 DEF MatchInv
<1>8. /\ wait' \in [Threads -> Waiting]
      /\ \A v \in Threads : wait'[v] = IF v \in {} THEN Reached(wait[v], c, {}) ELSE w[v]
      /\ moved' \in [Threads -> [Chans -> Nat]]
      /\ \A v \in Threads : moved'[v] = IF v \in {} \cup {t} THEN Credit(moved[v], c, {}) ELSE moved[v]
  BY <1>1, <1>2, AloneMoves DEF Transfers
<1> DEFINE b == Tail(buffer[c])
<1>9. b \in Seq(Element)
  BY <1>4
<1> HIDE DEF b
<1>10. buffer' \in [Chans -> Seq(Element)] /\ buffer'[c] = b /\ \A x \in Chans \ {c} : buffer'[x] = buffer[x]
  BY <1>2, <1>5, <1>9 DEF Set, b
<1>11. Len(buffer'[c]) <= Size[c]
  BY <1>4, <1>5, <1>10 DEF b
<1>12. /\ overtaken' # {} \/ SeqInOrder(buffer'[c], last'[c])
       /\ \A e \in ToSet(buffer'[c]) : e \in ToSet(buffer[c])
  BY <1>2, <1>4, <1>10 DEF b
<1>13. Wait({}, t, c)
  BY DEF Wait
<1>14. Transferred(t, c, w, {})
  BY <1>2, <1>4, <1>5, <1>6, <1>7, <1>8, <1>10, <1>11, <1>12, <1>13 DEF Transferred
<1> QED BY <1>14

LEMMA BufRefillIs ==
  ASSUME IInv, NEW t \in Threads, NEW c \in Chans, NEW w, Transfers(t, c, w, "remove"), BufRefill(t, c, w)
  PROVE  \E out : Transferred(t, c, w, out)
<1>1. TypeOK /\ CallInv /\ QueueInv /\ MatchInv /\ OrderInv /\ InOrderUnlessOvertaken
  BY DEF IInv
<1> DEFINE q == Live(prods[c])
           u == q[1]
<1>2. /\ buffer[c] # <<>> /\ Len(buffer[c]) = Size[c]
      /\ q # <<>> /\ ~Pending(u) /\ prods' = Set(prods, c, Tail(q)) /\ wait' = Woken(w, u, c)
      /\ buffer' = Set(buffer, c, Append(Tail(buffer[c]), Elem(u)))
      /\ Moves(c, {t, u}) /\ Taken(c, Head(buffer[c]))
      /\ overtaken' = overtaken /\ cons' = cons
  BY DEF BufRefill
<1>3. t \notin ToSet(prods[c])
  BY <1>1, OneSide DEF Transfers
<1>4. /\ u \in Threads \ {t} /\ u \in ToSet(prods[c]) /\ Wait({u}, t, c)
      /\ Kept(prods[c], Tail(q), {u}) /\ SomeWait(prods[c])
  BY <1>1, <1>2, <1>3, FirstLive
<1> HIDE DEF q, u
<1>5. QueuesStep(t, c, {u}) /\ SelfListed(t, c)
  BY <1>1, <1>2, <1>3, <1>4, ShorterProds
<1>6. /\ wait' \in [Threads -> Waiting]
      /\ \A v \in Threads : wait'[v] = IF v \in {u} THEN Reached(wait[v], c, {}) ELSE w[v]
      /\ moved' \in [Threads -> [Chans -> Nat]]
      /\ \A v \in Threads : moved'[v] = IF v \in {u} \cup {t} THEN Credit(moved[v], c, {}) ELSE moved[v]
  BY <1>1, <1>2, <1>4, PairMoves
<1>7. /\ number[u] \in Nat /\ Elem(u) = <<u, number[u]>> /\ Elem(u) \in Element
      /\ last[c][u] < number[u]
      /\ \A e \in ToSet(buffer[c]) : e[1] = u => e[2] < number[u]
  <2>1. moved[u][c] = 0 /\ pc[u] # "run"
    BY <1>1, <1>4, WaitersFresh
  <2> QED BY <2>1, <1>1, <1>4, LatestElem
<1>8. /\ buffer \in [Chans -> Seq(Element)] /\ Size[c] \in Nat
      /\ overtaken \in SUBSET Chans
  BY <1>1, BufferFacts
<1>9. /\ last' \in [Chans -> [Threads -> Nat]] /\ \A x \in Chans \ {c} : last'[x] = last[x]
      /\ Tail(buffer[c]) \in Seq(Element) /\ Len(Tail(buffer[c])) = Len(buffer[c]) - 1
      /\ Len(buffer[c]) \in Nat \ {0}
      /\ overtaken # {} \/ SeqInOrder(Tail(buffer[c]), last'[c])
      /\ \A v \in Threads : last'[c][v] = last[c][v] \/ <<v, last'[c][v]>> \in ToSet(buffer[c])
      /\ \A e \in ToSet(Tail(buffer[c])) : e \in ToSet(buffer[c])
  BY <1>1, <1>2, HeadTaken
<1>10. last'[c][u] < number[u]
  <2>1. CASE last'[c][u] = last[c][u]
    BY <2>1, <1>7
  <2>2. CASE <<u, last'[c][u]>> \in ToSet(buffer[c])
    <3>1. <<u, last'[c][u]>>[1] = u /\ <<u, last'[c][u]>>[2] = last'[c][u]
      OBVIOUS
    <3> QED BY <3>1, <2>2, <1>7
  <2> QED BY <2>1, <2>2, <1>4, <1>9
<1> DEFINE b == Append(Tail(buffer[c]), Elem(u))
<1>11. b \in Seq(Element) /\ Len(b) = Len(Tail(buffer[c])) + 1 /\ ToSet(b) = ToSet(Tail(buffer[c])) \cup {Elem(u)}
  <2>1. PICK s \in Seq(Element) : s = Tail(buffer[c])
    BY <1>9
  <2>2. Elem(u) \in Element
    BY <1>7
  <2>3. /\ Append(s, Elem(u)) \in Seq(Element) /\ Len(Append(s, Elem(u))) = Len(s) + 1
        /\ ToSet(Append(s, Elem(u))) = ToSet(s) \cup {Elem(u)}
    BY <2>2, AppendSet
  <2> QED BY <2>1, <2>3
<1>12. overtaken # {} \/ SeqInOrder(b, last'[c])
  <2>1. last'[c] \in [Threads -> Nat]
    BY <1>9
  <2>2. \A e \in ToSet(Tail(buffer[c])) : e[1] = u => e[2] < number[u]
    BY <1>7, <1>9
  <2>3. CASE SeqInOrder(Tail(buffer[c]), last'[c])
    BY <2>1, <2>2, <2>3, <1>4, <1>7, <1>9, <1>10, AppendInOrder
  <2> QED BY <2>3, <1>9
<1> HIDE DEF b
<1>13. buffer' \in [Chans -> Seq(Element)] /\ buffer'[c] = b /\ \A x \in Chans \ {c} : buffer'[x] = buffer[x]
  BY <1>2, <1>8, <1>11 DEF Set, b
<1>14. Len(buffer'[c]) = Size[c] /\ Len(buffer'[c]) <= Size[c]
  BY <1>2, <1>8, <1>9, <1>11, <1>13
<1>15. ~SomeWait(cons[c])
  BY <1>1, <1>4 DEF MatchInv
<1>16. \A e \in ToSet(buffer'[c]) : e \in ToSet(buffer[c]) \/ (e[1] \in {u} \cup {t} /\ e[2] = number[e[1]])
  BY <1>7, <1>9, <1>11, <1>13
<1>17. Transferred(t, c, w, {u})
  BY <1>2, <1>4, <1>5, <1>6, <1>8, <1>9, <1>12, <1>13, <1>14, <1>15, <1>16 DEF Transferred
<1> QED BY <1>17

\* All of them.
LEMMA TransferIs ==
  ASSUME IInv, NEW t \in Threads, NEW c \in Chans, NEW w, NEW side, Transfers(t, c, w, side), Transfer(t, c, w)
  PROVE  \E out : Transferred(t, c, w, out)
BY ConsHandoffIs, BufInsertIs, ProdsHandoffIs, BufRemoveIs, BufRefillIs DEF Transfer, Transfers

LEMMA HandoffIs ==
  ASSUME IInv, NEW t \in Threads, NEW c \in Chans, NEW w, NEW side \in {"insert", "remove"},
         Transfers(t, c, w, side), Handoff(t, c, w)
  PROVE  \E out : Transferred(t, c, w, out)
BY ConsHandoffIs, ProdsHandoffIs DEF Handoff, Transfers
-----------------------------------------------------------------------------
(* What a step of one thread leaves to show.                               *)

\* The call of t is in order.
OwnOK(t) == CallOK(pc[t], call[t], todo[t], at[t], wait[t], armed[t], ran[t], moved[t], Listed(t))

\* The calls of the others stand where they stood.
Still(t) ==
  \A v \in Threads \ {t} :
    /\ pc'[v] = pc[v] /\ call'[v] = call[v] /\ number'[v] = number[v] /\ todo'[v] = todo[v]
    /\ at'[v] = at[v] /\ armed'[v] = armed[v] /\ ran'[v] = ran[v]

\* t acts at c, and reaches those of out.
Acts(t, c, out, S) ==
  /\ Wait(out, t, c) /\ QueuesStep(t, c, out) /\ Still(t)
  /\ \A v \in Threads \ {t} :
       /\ wait'[v] = IF v \in out THEN Reached(wait[v], c, S) ELSE wait[v]
       /\ moved'[v] = IF v \in out THEN Credit(moved[v], c, S) ELSE moved[v]

LEMMA ListedThen ==
  ASSUME QueueInv, NEW t, NEW c \in Chans, NEW out, Wait(out, t, c), QueuesStep(t, c, out), NEW v \in Threads \ {t}
  PROVE  /\ Listed(v)' \subseteq Listed(v)
         /\ v \in out => Listed(v)' = Listed(v) \ {c} /\ c \in Listed(v)
         /\ v \notin out => Settled(wait[v]) \/ Listed(v)' = Listed(v)
<1>1. \A x \in Chans \ {c} : x \in Listed(v)' <=> x \in Listed(v)
  BY DEF Listed, QueuesStep
<1>2. /\ v \in ToSet(prods'[c]) => v \in ToSet(prods[c]) /\ v \notin out
      /\ v \in ToSet(cons'[c]) => v \in ToSet(cons[c]) /\ v \notin out
      /\ v \in ToSet(prods[c]) => v \in ToSet(prods'[c]) \/ v \in out \/ Settled(wait[v])
      /\ v \in ToSet(cons[c]) => v \in ToSet(cons'[c]) \/ v \in out \/ Settled(wait[v])
  BY DecidedIs DEF QueuesStep, KeptBut
<1>3. /\ c \in Listed(v)' <=> v \in ToSet(prods'[c]) \/ v \in ToSet(cons'[c])
      /\ c \in Listed(v) <=> v \in ToSet(prods[c]) \/ v \in ToSet(cons[c])
  BY DEF Listed
<1>4. Listed(v)' \subseteq Chans /\ Listed(v) \subseteq Chans
  BY DEF Listed
<1>5. v \in out => c \in Listed(v)
  BY DEF Wait
<1>6. Listed(v)' \subseteq Listed(v)
  BY <1>1, <1>2, <1>3, <1>4
<1>7. ASSUME v \in out PROVE Listed(v)' = Listed(v) \ {c}
  BY <1>1, <1>2, <1>3, <1>4, <1>7
<1>8. ASSUME v \notin out, ~Settled(wait[v]) PROVE Listed(v)' = Listed(v)
  BY <1>1, <1>2, <1>3, <1>4, <1>8
<1> QED BY <1>5, <1>6, <1>7, <1>8

\* The calls of the others remain in order.
LEMMA OthersOK ==
  ASSUME TypeOK, CallInv, QueueInv, NEW t, NEW c \in Chans, NEW out, NEW S \in SUBSET {c}, Acts(t, c, out, S),
         NEW v \in Threads \ {t}
  PROVE  OwnOK(v)'
<1>1. CallOK(pc[v], call[v], todo[v], at[v], wait[v], armed[v], ran[v], moved[v], Listed(v))
  BY DEF CallInv
<1>2. /\ pc'[v] = pc[v] /\ call'[v] = call[v] /\ todo'[v] = todo[v]
      /\ at'[v] = at[v] /\ armed'[v] = armed[v] /\ ran'[v] = ran[v]
      /\ wait'[v] = IF v \in out THEN Reached(wait[v], c, S) ELSE wait[v]
      /\ moved'[v] = IF v \in out THEN Credit(moved[v], c, S) ELSE moved[v]
  BY DEF Acts, Still
<1>3. PICK L, L2 : L = Listed(v) /\ L2 = Listed(v)'
  OBVIOUS
<1>4. /\ L2 \subseteq L
      /\ v \in out => L2 = L \ {c} /\ c \in L
      /\ v \notin out => Settled(wait[v]) \/ L2 = L
  BY <1>3, ListedThen DEF Acts
<1>5. CallOK(pc[v], call[v], todo[v], at[v], wait'[v], armed[v], ran[v], moved'[v], L2)
  <2>1. CASE v \in out
    <3>1. /\ wait[v] \in Waiting /\ moved[v] \in [Chans -> Nat]
          /\ ~Settled(wait[v]) /\ wait[v].status # "PENDING"
      BY <2>1 DEF TypeOK, CallTypeOK, Acts, Wait
    <3>2. CallOK(pc[v], call[v], todo[v], at[v], Reached(wait[v], c, S), armed[v], ran[v], Credit(moved[v], c, S), L \ {c})
      BY <3>1, <2>1, <1>1, <1>3, <1>4, ReachedOK
    <3> QED BY <3>2, <2>1, <1>2, <1>4
  <2>2. CASE v \notin out /\ L2 = L
    BY <2>2, <1>1, <1>2, <1>3
  <2>3. CASE v \notin out /\ Settled(wait[v])
    <3>1. CallOK(pc[v], call[v], todo[v], at[v], wait[v], armed[v], ran[v], moved[v], L2)
      BY <2>3, <1>1, <1>3, <1>4, DropOK
    <3> QED BY <3>1, <2>3, <1>2
  <2> QED BY <2>1, <2>2, <2>3, <1>4
<1> QED BY <1>2, <1>3, <1>5 DEF OwnOK

\* A waituntil that has been won stays so while it is listed.
StaysWon(t) == Settled(wait[t]) => Settled(wait[t])'

LEMMA OthersWon ==
  ASSUME NEW t, NEW c, NEW out, NEW S, Acts(t, c, out, S), StaysWon(t), NEW v \in Threads, Settled(wait[v])
  PROVE  Settled(wait[v])'
<1>1. CASE v = t
  BY <1>1 DEF StaysWon
<1>2. CASE v # t
  <2>1. wait'[v] = wait[v]
    BY <1>2 DEF Acts, Wait
  <2> QED BY <2>1
<1> QED BY <1>1, <1>2

LEMMA QueueInvThen ==
  ASSUME QueueInv, NEW t, NEW c \in Chans, NEW out, NEW S, Acts(t, c, out, S), prods \in [Chans -> Seq(Threads)],
         cons \in [Chans -> Seq(Threads)], call'[t] = call[t],
         t \in ToSet(prods'[c]) => Clause(t, c) = "insert",
         t \in ToSet(cons'[c]) => Clause(t, c) = "remove"
  PROVE  QueueInv'
<1>1. \A v \in Threads : call'[v] = call[v]
  BY DEF Acts, Still
<1>2. QueuesStep(t, c, out)
  BY DEF Acts
<1> SUFFICES ASSUME NEW x \in Chans
             PROVE  /\ IsInjective(prods'[x]) /\ \A u \in ToSet(prods'[x]) : Clause(u, x)' = "insert"
                    /\ IsInjective(cons'[x]) /\ \A u \in ToSet(cons'[x]) : Clause(u, x)' = "remove"
  BY DEF QueueInv
<1>3. /\ \A u \in ToSet(prods[x]) : u \in Threads /\ Clause(u, x) = "insert"
      /\ \A u \in ToSet(cons[x]) : u \in Threads /\ Clause(u, x) = "remove"
      /\ IsInjective(prods[x]) /\ IsInjective(cons[x])
  <2>1. prods[x] \in Seq(Threads) /\ cons[x] \in Seq(Threads)
    OBVIOUS
  <2>2. ToSet(prods[x]) \subseteq Threads /\ ToSet(cons[x]) \subseteq Threads
    BY <2>1, SeqFacts
  <2> QED BY <2>2 DEF QueueInv
<1>4. \A u \in Threads : Clause(u, x)' = Clause(u, x)
  BY <1>1 DEF Clause
<1>5. CASE x # c
  BY <1>2, <1>3, <1>4, <1>5 DEF QueuesStep
<1>6. CASE x = c
  <2>1. /\ prods'[c] \in Seq(Threads) /\ cons'[c] \in Seq(Threads)
        /\ IsInjective(prods'[c]) /\ IsInjective(cons'[c])
        /\ ToSet(prods'[c]) \ {t} \subseteq ToSet(prods[c]) /\ ToSet(cons'[c]) \ {t} \subseteq ToSet(cons[c])
    BY <1>2 DEF QueuesStep, KeptBut
  <2>2. ToSet(prods'[c]) \subseteq Threads /\ ToSet(cons'[c]) \subseteq Threads
    BY <2>1, SeqFacts
  <2> QED BY <2>1, <2>2, <1>3, <1>4, <1>6
<1> QED BY <1>5, <1>6

\* The lock is that of t, or free.
Holds(t, c) ==
  /\ lock[c] \in {None, t}
  /\ \A x \in Chans \ {c} : lock'[x] = lock[x]

LEMMA LockedAt ==
  ASSUME CallInv, NEW v \in Threads, pc[v] \in Locking
  PROVE  at[v] \in Chans
<1>1. CallOK(pc[v], call[v], todo[v], at[v], wait[v], armed[v], ran[v], moved[v], Listed(v))
  BY DEF CallInv
<1>2. CASE call[v] \in Call /\ PlainOK(pc[v], call[v], todo[v], at[v], wait[v], armed[v], ran[v], moved[v], Listed(v))
  BY <1>2 DEF PlainOK
<1>3. CASE OrOK(pc[v], call[v], todo[v], at[v], wait[v], armed[v], ran[v], moved[v], Listed(v))
  <2>1. pc[v] \in {"pending", "yielded", "race"}
    BY <1>3 DEF OrOK, OrPcs, Locking
  <2>2. at[v] \in ClausesOf(call[v])
    BY <1>3, <2>1 DEF OrOK
  <2> QED BY <2>2, ClausesAre
<1>4. CASE AndOK(pc[v], call[v], todo[v], at[v], wait[v], armed[v], ran[v], moved[v], Listed(v))
  BY <1>4 DEF AndOK, AndPcs, Locking
<1>5. pc[v] # "run"
  BY DEF Locking
<1> QED BY <1>1, <1>2, <1>3, <1>4, <1>5 DEF CallOK

LEMMA OthersLockOK ==
  ASSUME CallInv, LockInv, NEW t, NEW c \in Chans, NEW out, NEW S, Acts(t, c, out, S), Holds(t, c), StaysWon(t),
         NEW v \in Threads \ {t}
  PROVE  LockOK(v)'
<1>1. pc'[v] = pc[v] /\ at'[v] = at[v] /\ call'[v] = call[v]
  BY DEF Acts, Still
<1>2. CASE pc[v] \notin Locking
  BY <1>1, <1>2 DEF LockOK, Locking
<1>3. CASE pc[v] \in Locking
  <2>1. at[v] \in Chans /\ lock[at[v]] = v /\ (pc[v] = "race" => Settled(wait[v]) \/ Others(v, at[v]) = <<>>)
    BY <1>3, LockedAt DEF LockInv, LockOK
  <2>2. at[v] # c
    BY <2>1, ChannelAssumption DEF Holds
  <2>3. lock'[at[v]] = v /\ prods'[at[v]] = prods[at[v]] /\ cons'[at[v]] = cons[at[v]]
    BY <2>1, <2>2 DEF Holds, Acts, QueuesStep
  <2>4. Settled(wait[v]) => Settled(wait[v])'
    BY OthersWon
  <2>5. Others(v, at[v])' = Others(v, at[v])
    BY <2>3, <1>1 DEF Others, Clause
  <2> QED BY <1>1, <2>1, <2>3, <2>4, <2>5 DEF LockOK
<1> QED BY <1>2, <1>3

MatchAt(c) ==
  /\ SomeWait(prods[c]) => Len(buffer[c]) = Size[c]
  /\ SomeWait(cons[c]) => buffer[c] = <<>> /\ ~SomeWait(prods[c])
  /\ closed[c] => \/ ~SomeWait(prods[c]) /\ ~SomeWait(cons[c])
                  \/ \E t \in Threads : pc[t] = "flush" /\ at[t] = c

LEMMA MatchIs == MatchInv <=> \A c \in Chans : MatchAt(c)
BY DEF MatchInv, MatchAt

\* Nobody comes to wait who did not, but t, if it goes on a queue.
LEMMA SomeWaited ==
  ASSUME TypeOK, NEW t, NEW c \in Chans, NEW out, NEW S, Acts(t, c, out, S), StaysWon(t), NEW x \in Chans
  PROVE  /\ (t \in ToSet(prods'[x]) => t \in ToSet(prods[x])) => (SomeWait(prods[x])' => SomeWait(prods[x]))
         /\ (t \in ToSet(cons'[x]) => t \in ToSet(cons[x])) => (SomeWait(cons[x])' => SomeWait(cons[x]))
<1>1. QueuesStep(t, c, out)
  BY DEF Acts
<1>2. /\ ToSet(prods'[x]) \ {t} \subseteq ToSet(prods[x]) /\ ToSet(cons'[x]) \ {t} \subseteq ToSet(cons[x])
      /\ ToSet(prods'[x]) \subseteq Threads /\ ToSet(cons'[x]) \subseteq Threads
  <2>1. prods'[x] \in Seq(Threads) /\ cons'[x] \in Seq(Threads)
    BY <1>1 DEF QueuesStep
  <2>2. ToSet(prods'[x]) \subseteq Threads /\ ToSet(cons'[x]) \subseteq Threads
    BY <2>1, SeqFacts
  <2> QED BY <2>2, <1>1 DEF QueuesStep, KeptBut
<1>3. \A u \in Threads : ~Settled(wait[u])' => ~Settled(wait[u])
  BY OthersWon
<1>4. ASSUME t \in ToSet(prods'[x]) => t \in ToSet(prods[x]), SomeWait(prods[x])' PROVE SomeWait(prods[x])
  <2>1. PICK u \in ToSet(prods'[x]) : ~Settled(wait[u])'
    BY <1>4 DEF SomeWait
  <2> QED BY <2>1, <1>2, <1>3, <1>4 DEF SomeWait
<1>5. ASSUME t \in ToSet(cons'[x]) => t \in ToSet(cons[x]), SomeWait(cons[x])' PROVE SomeWait(cons[x])
  <2>1. PICK u \in ToSet(cons'[x]) : ~Settled(wait[u])'
    BY <1>5 DEF SomeWait
  <2> QED BY <2>1, <1>2, <1>3, <1>5 DEF SomeWait
<1> QED BY <1>4, <1>5

\* A close goes on.
LEMMA FlushGoesOn ==
  ASSUME NEW t \in Threads, NEW c, NEW out, NEW S, Acts(t, c, out, S), NEW x,
         pc[t] = "flush" /\ at[t] = x => pc'[t] = "flush" /\ at'[t] = x,
         \E u \in Threads : pc[u] = "flush" /\ at[u] = x
  PROVE  \E u \in Threads : pc'[u] = "flush" /\ at'[u] = x
BY DEF Acts, Still

\* What is true of the other channels.
LEMMA MatchOthers ==
  ASSUME TypeOK, MatchInv, NEW t \in Threads, NEW c \in Chans, NEW out, NEW S, Acts(t, c, out, S), StaysWon(t),
         pc[t] = "flush" => at[t] = c, NEW x \in Chans \ {c}, buffer'[x] = buffer[x], closed'[x] = closed[x]
  PROVE  MatchAt(x)'
<1>1. MatchAt(x)
  BY MatchIs
<1>2. (SomeWait(prods[x])' => SomeWait(prods[x])) /\ (SomeWait(cons[x])' => SomeWait(cons[x]))
  <2>1. prods'[x] = prods[x] /\ cons'[x] = cons[x]
    BY DEF Acts, QueuesStep
  <2> QED BY <2>1, SomeWaited
<1>3. (\E u \in Threads : pc[u] = "flush" /\ at[u] = x) => \E u \in Threads : pc'[u] = "flush" /\ at'[u] = x
  BY FlushGoesOn
<1> QED BY <1>1, <1>2, <1>3 DEF MatchAt

\* Calls that have begun or got an element moved have.
LEMMA GivenThen ==
  ASSUME NEW v \in Threads, NEW x, NEW k, Given(v, x, k), number'[v] = number[v],
         pc[v] = "run" => pc'[v] = "run", moved[v][x] # 0 => moved'[v][x] # 0
  PROVE  Given(v, x, k)'
BY DEF Given
\* Every call that an order speaks of is still one it may speak of.
GivenStays(t) == \A x \in Chans, k \in Nat : Given(t, x, k) => Given(t, x, k)'

LEMMA OthersGiven ==
  ASSUME TypeOK, NEW t, NEW c \in Chans, NEW out, NEW S, Acts(t, c, out, S), NEW v \in Threads \ {t}
  PROVE  GivenStays(v)
<1> SUFFICES ASSUME NEW x \in Chans, NEW k \in Nat, Given(v, x, k) PROVE Given(v, x, k)'
  BY DEF GivenStays
<1>1. /\ pc'[v] = pc[v] /\ number'[v] = number[v]
      /\ moved'[v] = moved[v] \/ moved'[v] = Credit(moved[v], c, S)
  BY DEF Acts, Still
<1>2. moved[v] \in [Chans -> Nat]
  BY DEF TypeOK, CallTypeOK
<1>3. moved[v][x] # 0 => Credit(moved[v], c, S)[x] # 0
  BY <1>2 DEF Credit, Set
<1> QED BY <1>1, <1>3, GivenThen

\* The elements and who took them, for those of T who got something moved.
OrderAt(x) ==
  /\ \A v \in Threads : Given(v, x, last[x][v])
  /\ \A e \in ToSet(buffer[x]) : Given(e[1], x, e[2])

LEMMA OrderIs == OrderInv <=> \A x \in Chans : OrderAt(x)
BY DEF OrderInv, OrderAt

LEMMA OrderThen ==
  ASSUME TypeOK, OrderInv, NEW x \in Chans, \A v \in Threads : GivenStays(v), NEW T \in SUBSET Threads,
         buffer'[x] \in Seq(Element),
         \A v \in T : number'[v] = number[v] /\ moved'[v][x] # 0,
         \A v \in Threads : \/ last'[x][v] = last[x][v]
                            \/ v \in T /\ last'[x][v] = number[v]
                            \/ <<v, last'[x][v]>> \in ToSet(buffer[x]),
         \A e \in ToSet(buffer'[x]) : e \in ToSet(buffer[x]) \/ (e[1] \in T /\ e[2] = number[e[1]])
  PROVE  OrderAt(x)'
<1>1. /\ last[x] \in [Threads -> Nat] /\ number \in [Threads -> Nat] /\ buffer[x] \in Seq(Element)
  BY DEF TypeOK, ChannelTypeOK, CallTypeOK
<1>2. /\ \A v \in Threads : Given(v, x, last[x][v])
      /\ \A e \in ToSet(buffer[x]) : Given(e[1], x, e[2])
  BY DEF OrderInv
<1>3. \A e \in ToSet(buffer[x]) \cup ToSet(buffer'[x]) : e[1] \in Threads /\ e[2] \in Nat
  <2>1. ToSet(buffer[x]) \subseteq Element /\ ToSet(buffer'[x]) \subseteq Element
    BY <1>1, SeqFacts
  <2> QED BY <2>1 DEF Element
<1>4. \A v \in T : Given(v, x, number[v])'
  BY <1>1 DEF Given
<1>5. \A v \in Threads, k \in Nat : Given(v, x, k) => Given(v, x, k)'
  BY DEF GivenStays
<1>6. ASSUME NEW v \in Threads PROVE Given(v, x, last[x][v])'
  <2> DEFINE n == last'[x][v]
  <2>1. CASE n = last[x][v]
    <3>1. PICK k \in Nat : k = last[x][v]
      BY <1>1
    <3>2. Given(v, x, k)'
      BY <3>1, <1>2, <1>5
    <3> QED BY <3>1, <3>2, <2>1 DEF Given
  <2>2. CASE v \in T /\ n = number[v]
    <3>1. n <= number'[v] /\ moved'[v][x] # 0
      BY <2>2, <1>1
    <3> QED BY <3>1 DEF Given
  <2>3. CASE <<v, n>> \in ToSet(buffer[x])
    <3>1. PICK k : k = n
      OBVIOUS
    <3>2. <<v, k>>[1] \in Threads /\ <<v, k>>[2] \in Nat /\ Given(<<v, k>>[1], x, <<v, k>>[2])
      BY <2>3, <3>1, <1>2, <1>3
    <3>3. Given(v, x, k)'
      BY <3>2, <1>5
    <3> QED BY <3>1, <3>3 DEF Given
  <2> QED BY <2>1, <2>2, <2>3
<1>7. ASSUME NEW e \in ToSet(buffer'[x]) PROVE Given(e[1], x, e[2])'
  <2>1. e[1] \in Threads /\ e[2] \in Nat
    BY <1>3
  <2>2. CASE e \in ToSet(buffer[x])
    BY <2>1, <2>2, <1>2, <1>5
  <2>3. CASE e[1] \in T /\ e[2] = number[e[1]]
    <3>1. e[2] <= number'[e[1]] /\ moved'[e[1]][x] # 0
      BY <2>3, <2>1
    <3> QED BY <3>1 DEF Given
  <2> QED BY <2>2, <2>3
<1>8. \A e \in ToSet(buffer[x])' : Given(e[1], x, e[2])'
  BY <1>7
<1> QED BY <1>6, <1>8 DEF OrderAt
\* What no transfer at c has to do with, for the whole invariant.
LEMMA CallInvThen ==
  ASSUME TypeOK, CallInv, QueueInv, NEW t, NEW c \in Chans, NEW out, NEW S \in SUBSET {c}, Acts(t, c, out, S),
         OwnOK(t)'
  PROVE  CallInv'
<1>1. \A v \in Threads \ {t} : OwnOK(v)'
  BY OthersOK
<1>2. \A v \in Threads : OwnOK(v)'
  BY <1>1
<1> QED BY <1>2 DEF CallInv, OwnOK

LEMMA LockInvThen ==
  ASSUME CallInv, LockInv, NEW t, NEW c \in Chans, NEW out, NEW S, Acts(t, c, out, S), Holds(t, c), StaysWon(t),
         LockOK(t)'
  PROVE  LockInv'
<1>1. \A v \in Threads \ {t} : LockOK(v)'
  BY OthersLockOK
<1> QED BY <1>1 DEF LockInv

\* The step of t at c moves nothing, and changes what it may.
Quiet(t, c, out, S) ==
  /\ Acts(t, c, out, S) /\ Holds(t, c) /\ StaysWon(t)
  /\ buffer' = buffer /\ last' = last /\ overtaken' = overtaken
  /\ lock' \in [Chans -> Threads \cup {None}] /\ closed' \in [Chans -> BOOLEAN]
  /\ \A x \in Chans \ {c} : closed'[x] = closed[x]
  /\ pc[t] # "run" /\ call'[t] = call[t] /\ number'[t] = number[t] /\ moved'[t] = moved[t]
  /\ pc[t] = "flush" => at[t] = c
  /\ t \in ToSet(prods'[c]) => Clause(t, c) = "insert"
  /\ t \in ToSet(cons'[c]) => Clause(t, c) = "remove"

LEMMA QuietInv ==
  ASSUME IInv, NEW t \in Threads, NEW c \in Chans, NEW out, NEW S \in SUBSET {c}, Quiet(t, c, out, S),
         MatchAt(c)', CallTypeOK', OwnOK(t)', LockOK(t)'
  PROVE  IInv'
<1>1. TypeOK /\ CallInv /\ QueueInv /\ LockInv /\ MatchInv /\ OrderInv /\ InOrderUnlessOvertaken
  BY DEF IInv
<1>2. Acts(t, c, out, S) /\ Holds(t, c) /\ StaysWon(t) /\ buffer' = buffer /\ last' = last /\ overtaken' = overtaken
  BY DEF Quiet
<1>3. TypeOK'
  BY <1>1, <1>2 DEF Quiet, Acts, QueuesStep, TypeOK, ChannelTypeOK
<1>4. CallInv' /\ LockInv'
  BY <1>1, <1>2, CallInvThen, LockInvThen
<1>5. QueueInv'
  <2>1. prods \in [Chans -> Seq(Threads)] /\ cons \in [Chans -> Seq(Threads)]
    BY <1>1 DEF TypeOK, ChannelTypeOK
  <2> QED BY <1>1, <1>2, <2>1, QueueInvThen DEF Quiet
<1>6. MatchInv'
  <2>1. ASSUME NEW x \in Chans \ {c} PROVE MatchAt(x)'
    BY <1>1, <1>2, MatchOthers DEF Quiet
  <2>2. \A x \in Chans : MatchAt(x)'
    BY <2>1
  <2> QED BY <2>2 DEF MatchInv, MatchAt
<1>7. OrderInv'
  <2>1. GivenStays(t)
    BY GivenThen DEF Quiet, GivenStays
  <2>2. \A v \in Threads : GivenStays(v)
    BY <1>1, <1>2, <2>1, OthersGiven
  <2>3. ASSUME NEW x \in Chans PROVE OrderAt(x)'
    <3>1. buffer'[x] \in Seq(Element)
      BY <1>1, <1>2 DEF TypeOK, ChannelTypeOK
    <3>2. /\ \A v \in {} : number'[v] = number[v] /\ moved'[v][x] # 0
          /\ \A v \in Threads : last'[x][v] = last[x][v]
          /\ \A e \in ToSet(buffer'[x]) : e \in ToSet(buffer[x])
          /\ {} \in SUBSET Threads
      BY <1>2
    <3> QED BY <1>1, <2>2, <3>1, <3>2, OrderThen
  <2> QED BY <2>3 DEF OrderInv, OrderAt
<1>8. InOrderUnlessOvertaken'
  BY <1>1, <1>2 DEF InOrderUnlessOvertaken, InOrder
<1> QED BY <1>3, <1>4, <1>5, <1>6, <1>7, <1>8 DEF IInv

LEMMA TransferInv ==
  ASSUME IInv, NEW t \in Threads, NEW c \in Chans, NEW w, NEW out, Transferred(t, c, w, out),
         \A v \in Threads \ {t} : w[v] = wait[v], Settled(wait[t]) => Settled(w[t]),
         Still(t), Holds(t, c), lock' \in [Chans -> Threads \cup {None}], closed' = closed,
         call'[t] = call[t], number'[t] = number[t], pc[t] \notin {"run", "flush"},
         CallTypeOK', OwnOK(t)', LockOK(t)'
  PROVE  IInv'
<1>1. TypeOK /\ CallInv /\ QueueInv /\ LockInv /\ MatchInv /\ OrderInv /\ InOrderUnlessOvertaken
  BY DEF IInv
<1>2. /\ Wait(out, t, c) /\ QueuesStep(t, c, out) /\ SelfListed(t, c)
      /\ \A v \in Threads : wait'[v] = IF v \in out THEN Reached(wait[v], c, {}) ELSE w[v]
      /\ \A v \in Threads : moved'[v] = IF v \in out \cup {t} THEN Credit(moved[v], c, {}) ELSE moved[v]
      /\ t \notin out
  BY DEF Transferred, Wait
<1>3. Acts(t, c, out, {})
  BY <1>2 DEF Acts
<1>4. StaysWon(t)
  BY <1>2 DEF StaysWon, Settled
<1>5. /\ buffer' \in [Chans -> Seq(Element)] /\ last' \in [Chans -> [Threads -> Nat]]
      /\ Len(buffer'[c]) <= Size[c]
      /\ \A x \in Chans \ {c} : buffer'[x] = buffer[x] /\ last'[x] = last[x]
      /\ overtaken' \in SUBSET Chans /\ overtaken \subseteq overtaken'
  BY DEF Transferred
<1>6. TypeOK'
  <2>1. prods' \in [Chans -> Seq(Threads)] /\ cons' \in [Chans -> Seq(Threads)]
    BY <1>2 DEF QueuesStep
  <2>2. \A x \in Chans : Len(buffer'[x]) <= Size[x]
    BY <1>1, <1>5 DEF TypeOK, ChannelTypeOK
  <2> QED BY <1>1, <1>5, <2>1, <2>2 DEF TypeOK, ChannelTypeOK
<1>7. CallInv' /\ LockInv'
  BY <1>1, <1>3, <1>4, CallInvThen, LockInvThen
<1>8. QueueInv'
  <2>1. prods \in [Chans -> Seq(Threads)] /\ cons \in [Chans -> Seq(Threads)]
    BY <1>1 DEF TypeOK, ChannelTypeOK
  <2>2. /\ t \in ToSet(prods'[c]) => Clause(t, c) = "insert"
        /\ t \in ToSet(cons'[c]) => Clause(t, c) = "remove"
    BY <1>1, <1>2 DEF SelfListed, QueueInv
  <2> QED BY <1>1, <1>3, <2>1, <2>2, QueueInvThen
<1>9. MatchInv'
  <2>1. ASSUME NEW x \in Chans \ {c} PROVE MatchAt(x)'
    BY <1>1, <1>3, <1>4, <1>5, MatchOthers
  <2>2. MatchAt(c)'
    <3>1. MatchAt(c)
      BY <1>1, MatchIs
    <3>2. (SomeWait(prods[c])' => SomeWait(prods[c])) /\ (SomeWait(cons[c])' => SomeWait(cons[c]))
      BY <1>1, <1>2, <1>3, <1>4, SomeWaited DEF SelfListed
    <3>3. /\ SomeWait(prods[c]) => Len(buffer'[c]) = Size[c]
          /\ SomeWait(cons[c]) => buffer'[c] = <<>>
      BY DEF Transferred
    <3>4. (\E u \in Threads : pc[u] = "flush" /\ at[u] = c) => \E u \in Threads : pc'[u] = "flush" /\ at'[u] = c
      BY <1>3, FlushGoesOn
    <3> QED BY <3>1, <3>2, <3>3, <3>4 DEF MatchAt
  <2>3. \A x \in Chans : MatchAt(x)'
    BY <2>1, <2>2
  <2> QED BY <2>3 DEF MatchInv, MatchAt
<1>10. OrderInv'
  <2> DEFINE T == out \cup {t}
  <2>1. \A v \in T : v \in Threads /\ number'[v] = number[v] /\ moved'[v][c] # 0 /\ moved'[v] = Credit(moved[v], c, {})
    <3>1. out \subseteq Threads
      BY <1>2 DEF Wait
    <3>2. \A v \in T : v \in Threads /\ number'[v] = number[v] /\ moved'[v] = Credit(moved[v], c, {})
      BY <3>1, <1>2 DEF Still
    <3>3. ASSUME NEW v \in T PROVE Credit(moved[v], c, {})[c] # 0
      <4>1. moved[v] \in [Chans -> Nat]
        BY <1>1, <3>2 DEF TypeOK, CallTypeOK
      <4>2. Credit(moved[v], c, {})[c] = moved[v][c] + 1
        BY <4>1 DEF Credit, Set
      <4> QED BY <4>1, <4>2
    <3> QED BY <3>2, <3>3
  <2>2. GivenStays(t)
    <3> SUFFICES ASSUME NEW x \in Chans, NEW k \in Nat, Given(t, x, k) PROVE Given(t, x, k)'
      BY DEF GivenStays
    <3>1. moved[t] \in [Chans -> Nat]
      BY <1>1 DEF TypeOK, CallTypeOK
    <3>2. moved[t][x] # 0 => Credit(moved[t], c, {})[x] # 0
      BY <3>1 DEF Credit, Set
    <3> QED BY <3>2, <2>1, GivenThen
  <2>3. \A v \in Threads : GivenStays(v)
    BY <1>1, <1>3, <2>2, OthersGiven
  <2>4. ASSUME NEW x \in Chans PROVE OrderAt(x)'
    <3>1. buffer'[x] \in Seq(Element)
      BY <1>5
    <3>2. CASE x = c
      <4>1. /\ \A v \in Threads : \/ last'[c][v] = last[c][v]
                                  \/ v \in T /\ last'[c][v] = number[v]
                                  \/ <<v, last'[c][v]>> \in ToSet(buffer[c])
            /\ \A e \in ToSet(buffer'[c]) : e \in ToSet(buffer[c]) \/ (e[1] \in T /\ e[2] = number[e[1]])
        BY DEF Transferred
      <4> HIDE DEF T
      <4> QED BY <1>1, <2>1, <2>3, <3>1, <3>2, <4>1, OrderThen
    <3>3. CASE x # c
      <4>1. buffer'[x] = buffer[x] /\ last'[x] = last[x]
        BY <1>5, <3>3
      <4>2. /\ \A v \in {} : number'[v] = number[v] /\ moved'[v][x] # 0
            /\ \A v \in Threads : last'[x][v] = last[x][v]
            /\ \A e \in ToSet(buffer'[x]) : e \in ToSet(buffer[x])
            /\ {} \in SUBSET Threads
        BY <4>1
      <4> QED BY <1>1, <2>3, <3>1, <4>2, OrderThen
    <3> QED BY <3>2, <3>3
  <2> QED BY <2>4 DEF OrderInv, OrderAt
<1>11. InOrderUnlessOvertaken'
  <2> SUFFICES ASSUME overtaken' = {} PROVE InOrder'
    BY DEF InOrderUnlessOvertaken
  <2>1. InOrder /\ SeqInOrder(buffer'[c], last'[c])
    BY <1>1, <1>5 DEF InOrderUnlessOvertaken, Transferred
  <2>2. \A x \in Chans : SeqInOrder(buffer[x], last[x])
    BY <2>1, InOrderIs
  <2>3. \A x \in Chans : SeqInOrder(buffer'[x], last'[x])
    BY <2>1, <2>2, <1>5
  <2> QED BY <2>3 DEF InOrder, SeqInOrder
<1> QED BY <1>6, <1>7, <1>8, <1>9, <1>10, <1>11 DEF IInv
\* The step of t is at no channel.
Alone(t) ==
  /\ UNCHANGED chanVars /\ last' = last /\ overtaken' = overtaken
  /\ Still(t) /\ \A v \in Threads \ {t} : wait'[v] = wait[v] /\ moved'[v] = moved[v]
  /\ pc[t] # "flush" /\ GivenStays(t)
  /\ Listed(t) = {} \/ (call'[t] = call[t] /\ StaysWon(t))

LEMMA AloneInv ==
  ASSUME IInv, NEW t \in Threads, Alone(t), CallTypeOK', OwnOK(t)', LockOK(t)'
  PROVE  IInv'
<1>1. TypeOK /\ CallInv /\ QueueInv /\ LockInv /\ MatchInv /\ OrderInv /\ InOrderUnlessOvertaken
  BY DEF IInv
<1>2. /\ lock' = lock /\ closed' = closed /\ buffer' = buffer /\ prods' = prods /\ cons' = cons
      /\ last' = last /\ overtaken' = overtaken
  BY DEF Alone, chanVars
<1>3. \A v \in Threads \ {t} : /\ pc'[v] = pc[v] /\ call'[v] = call[v] /\ number'[v] = number[v] /\ todo'[v] = todo[v]
                               /\ at'[v] = at[v] /\ armed'[v] = armed[v] /\ ran'[v] = ran[v]
                               /\ wait'[v] = wait[v] /\ moved'[v] = moved[v]
  BY DEF Alone, Still
<1>4. \A v \in Threads : Listed(v)' = Listed(v)
  BY <1>2 DEF Listed
<1>5. \A x \in Chans : t \in ToSet(prods[x]) \cup ToSet(cons[x]) => call'[t] = call[t] /\ StaysWon(t)
  BY DEF Alone, Listed
<1>6. TypeOK'
  BY <1>1, <1>2 DEF TypeOK, ChannelTypeOK
<1>7. CallInv'
  <2>1. \A v \in Threads : OwnOK(v)'
    BY <1>1, <1>3, <1>4 DEF CallInv, OwnOK
  <2> QED BY <2>1 DEF CallInv, OwnOK
<1>8. QueueInv'
  <2>1. \A x \in Chans : ToSet(prods[x]) \subseteq Threads /\ ToSet(cons[x]) \subseteq Threads
    BY <1>1, SeqFacts DEF TypeOK, ChannelTypeOK
  <2>2. \A x \in Chans : \A v \in ToSet(prods[x]) \cup ToSet(cons[x]) : Clause(v, x)' = Clause(v, x)
    BY <1>3, <1>5, <2>1 DEF Clause
  <2> QED BY <1>1, <1>2, <2>2 DEF QueueInv
<1>9. LockInv'
  <2>1. ASSUME NEW v \in Threads \ {t} PROVE LockOK(v)'
    BY <1>1, <1>2, <1>3 DEF LockInv, LockOK, Others, Clause
  <2> QED BY <2>1 DEF LockInv
<1>10. MatchInv'
  <2>1. \A x \in Chans : (SomeWait(prods[x])' => SomeWait(prods[x])) /\ (SomeWait(cons[x])' => SomeWait(cons[x]))
    <3> SUFFICES ASSUME NEW x \in Chans, NEW q \in {prods[x], cons[x]}, NEW u \in ToSet(q), ~Settled(wait'[u])
                 PROVE  ~Settled(wait[u])
      BY <1>2 DEF SomeWait, Settled
    <3>1. u \in Threads
      BY <1>1, SeqFacts DEF TypeOK, ChannelTypeOK
    <3>2. CASE u = t
      BY <3>2, <1>5 DEF StaysWon, Settled
    <3>3. CASE u # t
      BY <3>1, <3>3, <1>3
    <3> QED BY <3>2, <3>3
  <2>2. \A x \in Chans : (\E u \in Threads : pc[u] = "flush" /\ at[u] = x) => \E u \in Threads : pc'[u] = "flush" /\ at'[u] = x
    BY <1>3 DEF Alone
  <2> QED BY <1>1, <1>2, <2>1, <2>2 DEF MatchInv
<1>11. OrderInv'
  <2>1. \A v \in Threads \ {t} : GivenStays(v)
    BY <1>3, GivenThen DEF GivenStays
  <2>2. \A v \in Threads : GivenStays(v)
    BY <2>1 DEF Alone
  <2>3. ASSUME NEW x \in Chans PROVE OrderAt(x)'
    <3>1. buffer'[x] \in Seq(Element)
      BY <1>1, <1>2 DEF TypeOK, ChannelTypeOK
    <3>2. /\ \A v \in {} : number'[v] = number[v] /\ moved'[v][x] # 0
          /\ \A v \in Threads : last'[x][v] = last[x][v]
          /\ \A e \in ToSet(buffer'[x]) : e \in ToSet(buffer[x])
          /\ {} \in SUBSET Threads
      BY <1>2
    <3> QED BY <1>1, <2>2, <3>1, <3>2, OrderThen
  <2> QED BY <2>3 DEF OrderInv, OrderAt
<1>12. InOrderUnlessOvertaken'
  BY <1>1, <1>2 DEF InOrderUnlessOvertaken, InOrder
<1> QED BY <1>6, <1>7, <1>8, <1>9, <1>10, <1>11, <1>12 DEF IInv
-----------------------------------------------------------------------------
(* Steps of a thread by itself.                                            *)

OwnRun(t) ==
  /\ pc[t] = "run" /\ call[t] = NoCall /\ todo[t] = {} /\ wait[t] = Idle /\ ~armed[t] /\ ran[t] = {}
  /\ MovedFor(moved[t], {}) /\ Listed(t) = {}
OwnPlain(t) ==
  /\ call[t] \in Call /\ call[t].how \in {"block", "try", "close"}
  /\ PlainOK(pc[t], call[t], todo[t], at[t], wait[t], armed[t], ran[t], moved[t], Listed(t))
OwnOr(t) ==
  /\ call[t] \in Call /\ call[t].how = "or"
  /\ OrOK(pc[t], call[t], todo[t], at[t], wait[t], armed[t], ran[t], moved[t], Listed(t))
OwnAnd(t) ==
  /\ call[t] \in Call /\ call[t].how = "and"
  /\ AndOK(pc[t], call[t], todo[t], at[t], wait[t], armed[t], ran[t], moved[t], Listed(t))

\* What kind of call is where.
LEMMA KindAt ==
  ASSUME CallInv, NEW t \in Threads
  PROVE  /\ OwnRun(t) \/ OwnPlain(t) \/ OwnOr(t) \/ OwnAnd(t)
         /\ pc[t] = "run" => OwnRun(t)
         /\ pc[t] \in {"block", "try", "close", "flush"} => OwnPlain(t)
         /\ pc[t] \in {"pending", "yielded", "race"} => OwnOr(t)
         /\ pc[t] = "bodies" => OwnAnd(t)
         /\ pc[t] \in {"register", "unregister", "thrown"} => OwnOr(t) \/ OwnAnd(t)
         /\ pc[t] \in {"parked", "closed", "end"} => OwnPlain(t) \/ OwnOr(t) \/ OwnAnd(t)
<1>1. OwnRun(t) \/ OwnPlain(t) \/ OwnOr(t) \/ OwnAnd(t)
  BY DEF CallInv, CallOK, OwnRun, OwnPlain, OwnOr, OwnAnd
<1>2. OwnRun(t) => pc[t] = "run"
  BY DEF OwnRun
<1>3. OwnPlain(t) => pc[t] \in PlainPcs
  BY DEF OwnPlain, PlainOK
<1>4. OwnOr(t) => pc[t] \in OrPcs
  BY DEF OwnOr, OrOK
<1>5. OwnAnd(t) => pc[t] \in AndPcs
  BY DEF OwnAnd, AndOK
<1> QED BY <1>1, <1>2, <1>3, <1>4, <1>5 DEF PlainPcs, OrPcs, AndPcs

LEMMA KindThen == ASSUME NEW t, OwnRun(t)' \/ OwnPlain(t)' \/ OwnOr(t)' \/ OwnAnd(t)' PROVE OwnOK(t)'
BY DEF OwnOK, CallOK, OwnRun, OwnPlain, OwnOr, OwnAnd

LEMMA KindHow ==
  ASSUME CallInv, NEW t \in Threads
  PROVE  /\ OwnPlain(t) <=> call[t].how \in {"block", "try", "close"}
         /\ OwnOr(t) <=> call[t].how = "or"
         /\ OwnAnd(t) <=> call[t].how = "and"
<1>1. OwnRun(t) \/ OwnPlain(t) \/ OwnOr(t) \/ OwnAnd(t)
  BY KindAt
<1>2. OwnRun(t) => call[t].how = "none"
  BY DEF OwnRun, NoCall
<1> QED BY <1>1, <1>2 DEF OwnPlain, OwnOr, OwnAnd

\* Only what belongs to t changes.
OnlyOf(t) ==
  \A v \in Threads \ {t} :
    /\ pc'[v] = pc[v] /\ todo'[v] = todo[v] /\ at'[v] = at[v] /\ wait'[v] = wait[v]
    /\ armed'[v] = armed[v] /\ ran'[v] = ran[v]

LEMMA AloneStep ==
  ASSUME IInv, NEW t \in Threads, UNCHANGED <<chanVars, call, number, tallies>>, pc[t] \notin {"run", "flush"},
         CallTypeOK', OnlyOf(t), StaysWon(t), OwnOK(t)',
         pc'[t] \in Locking => pc[t] \in Locking /\ at'[t] = at[t],
         pc'[t] = "race" => Settled(wait[t])' \/ pc[t] = "race"
  PROVE  IInv'
<1>1. Still(t) /\ \A v \in Threads \ {t} : wait'[v] = wait[v] /\ moved'[v] = moved[v]
  BY DEF OnlyOf, Still, tallies
<1>2. GivenStays(t)
  BY GivenThen DEF GivenStays, tallies
<1>3. LockOK(t)'
  <2>1. /\ lock' = lock /\ prods' = prods /\ cons' = cons /\ call' = call
        /\ (pc[t] \in Locking => lock[at[t]] = t)
        /\ (pc[t] = "race" => Settled(wait[t]) \/ Others(t, at[t]) = <<>>)
    BY DEF IInv, LockInv, LockOK, chanVars
  <2>2. pc'[t] \in Locking => lock'[at'[t]] = t
    BY <2>1
  <2>3. pc'[t] = "race" => Settled(wait[t])' \/ Others(t, at[t])' = <<>>
    <3>1. SUFFICES ASSUME pc'[t] = "race", ~Settled(wait[t])' PROVE Others(t, at[t])' = <<>>
      OBVIOUS
    <3>2. at'[t] = at[t] /\ pc[t] = "race" /\ ~Settled(wait[t])
      BY <3>1 DEF Locking, StaysWon
    <3>3. Others(t, at[t])' = Others(t, at[t])
      BY <2>1, <3>2 DEF Others, Clause
    <3> QED BY <2>1, <3>2, <3>3
  <2> QED BY <2>2, <2>3 DEF LockOK
<1>4. Alone(t)
  BY <1>1, <1>2 DEF Alone, tallies, chanVars
<1> QED BY <1>3, <1>4, AloneInv

LEMMA SetIs ==
  ASSUME NEW S, NEW f \in [Threads -> S], NEW t \in Threads, NEW x \in S
  PROVE  /\ Set(f, t, x) \in [Threads -> S] /\ Set(f, t, x)[t] = x
         /\ \A v \in Threads \ {t} : Set(f, t, x)[v] = f[v]
BY DEF Set

LEMMA PcNames ==
  /\ {"block", "try", "close", "parked", "closed", "flush", "end", "register", "pending", "yielded", "race",
      "unregister", "thrown", "bodies", "run"} \subseteq Pcs
  /\ Locking \subseteq Pcs
BY DEF Pcs, PlainPcs, OrPcs, AndPcs, Locking

LEMMA GotoIs ==
  ASSUME TypeOK, NEW t \in Threads, NEW p \in Pcs, Goto(t, p)
  PROVE  pc' \in [Threads -> Pcs] /\ pc'[t] = p /\ \A v \in Threads \ {t} : pc'[v] = pc[v]
BY DEF TypeOK, CallTypeOK, Goto, Set

LEMMA BlockClosedInv == ASSUME IInv, NEW t \in Threads, BlockClosed(t) PROVE IInv'
<1>1. TypeOK /\ CallInv
  BY DEF IInv
<1>2. /\ pc[t] = "block" /\ pc' \in [Threads -> Pcs] /\ pc'[t] = "closed"
      /\ \A v \in Threads \ {t} : pc'[v] = pc[v]
      /\ UNCHANGED <<chanVars, call, number, todo, at, wait, armed, ran, tallies>>
  BY <1>1, GotoIs, PcNames DEF BlockClosed
<1>3. CallTypeOK' /\ OnlyOf(t) /\ StaysWon(t)
  BY <1>1, <1>2 DEF TypeOK, CallTypeOK, OnlyOf, StaysWon, Settled, tallies
<1>4. OwnOK(t)'
  <2>1. OwnPlain(t)
    BY <1>1, <1>2, KindAt
  <2>2. Listed(t)' = Listed(t)
    BY <1>2 DEF Listed, chanVars
  <2>3. OwnPlain(t)'
    BY <1>2, <2>1, <2>2 DEF OwnPlain, PlainOK, PlainPcs, tallies
  <2> QED BY <2>3, KindThen
<1> QED BY <1>2, <1>3, <1>4, AloneStep DEF Locking
LEMMA ThrowInv == ASSUME IInv, NEW t \in Threads, Throw(t) PROVE IInv'
<1>1. TypeOK /\ CallInv
  BY DEF IInv
<1>2. /\ pc[t] = "closed" /\ pc' \in [Threads -> Pcs]
      /\ pc'[t] = IF call[t].how \in {"or", "and"} THEN "thrown" ELSE "end"
      /\ \A v \in Threads \ {t} : pc'[v] = pc[v]
      /\ UNCHANGED <<chanVars, call, number, todo, at, wait, armed, ran, tallies>>
  BY <1>1, GotoIs, PcNames DEF Throw, Leave
<1>3. CallTypeOK' /\ OnlyOf(t) /\ StaysWon(t)
  BY <1>1, <1>2 DEF TypeOK, CallTypeOK, OnlyOf, StaysWon, Settled, tallies
<1>4. OwnOK(t)'
  <2>1. Listed(t)' = Listed(t)
    BY <1>2 DEF Listed, chanVars
  <2>2. CASE OwnPlain(t)
    <3>1. OwnPlain(t)'
      BY <1>2, <2>1, <2>2 DEF OwnPlain, PlainOK, PlainPcs, tallies
    <3> QED BY <3>1, KindThen
  <2>3. CASE OwnOr(t)
    <3>1. OwnOr(t)'
      BY <1>2, <2>1, <2>3 DEF OwnOr, OrOK, OrPcs, tallies
    <3> QED BY <3>1, KindThen
  <2>4. CASE OwnAnd(t)
    <3>1. OwnAnd(t)'
      BY <1>2, <2>1, <2>4 DEF OwnAnd, AndOK, AndPcs, tallies
    <3> QED BY <3>1, KindThen
  <2> QED BY <1>1, <1>2, <2>2, <2>3, <2>4, KindAt
<1> QED BY <1>2, <1>3, <1>4, AloneStep DEF Locking

LEMMA BlockReturnsInv == ASSUME IInv, NEW t \in Threads, BlockReturns(t) PROVE IInv'
<1>1. TypeOK /\ CallInv
  BY DEF IInv
<1> DEFINE y == [wait[t] EXCEPT !.permit = FALSE]
<1>2. OwnPlain(t) /\ pc[t] = "parked" /\ wait[t].permit /\ wait[t] \in Waiting /\ at[t] \in Chans
  <2>1. OwnPlain(t)
    BY <1>1, KindHow DEF BlockReturns
  <2> QED BY <1>1, <2>1 DEF BlockReturns, TypeOK, CallTypeOK, OwnPlain, PlainOK
<1>3. y \in Waiting /\ y.shut = wait[t].shut /\ y.status = wait[t].status /\ y.sat = wait[t].sat /\ ~y.permit
  BY <1>2 DEF Waiting
<1>4. /\ pc' \in [Threads -> Pcs] /\ pc'[t] = IF wait[t].shut # {} THEN "closed" ELSE "end"
      /\ \A v \in Threads \ {t} : pc'[v] = pc[v]
  BY <1>1, GotoIs, PcNames DEF BlockReturns, Done
<1>5. /\ ran' \in [Threads -> SUBSET Chans] /\ ran'[t] = IF wait[t].shut # {} THEN ran[t] ELSE ran[t] \cup {at[t]}
      /\ \A v \in Threads \ {t} : ran'[v] = ran[v]
  <2>1. ran \in [Threads -> SUBSET Chans] /\ ran[t] \cup {at[t]} \in SUBSET Chans
    BY <1>1, <1>2 DEF TypeOK, CallTypeOK
  <2>2. CASE wait[t].shut # {}
    BY <2>1, <2>2 DEF BlockReturns
  <2>3. CASE wait[t].shut = {}
    <3>1. ran' = Set(ran, t, ran[t] \cup {at[t]})
      BY <2>3 DEF BlockReturns, Done
    <3> QED BY <2>1, <2>3, <3>1 DEF Set
  <2> QED BY <2>2, <2>3
<1>6. wait' \in [Threads -> Waiting] /\ wait'[t] = y /\ \A v \in Threads \ {t} : wait'[v] = wait[v]
  BY <1>1, <1>3 DEF BlockReturns, TypeOK, CallTypeOK
<1> HIDE DEF y
<1>7. UNCHANGED <<chanVars, call, number, todo, at, armed, tallies>>
  BY DEF BlockReturns
<1>8. CallTypeOK' /\ OnlyOf(t) /\ StaysWon(t)
  BY <1>1, <1>3, <1>4, <1>5, <1>6, <1>7 DEF TypeOK, CallTypeOK, OnlyOf, StaysWon, Settled, tallies
<1>9. OwnOK(t)'
  <2>1. Listed(t)' = Listed(t)
    BY <1>7 DEF Listed, chanVars
  <2>2. /\ wait[t].shut # {} => wait[t].shut = {at[t]} /\ {at[t]} \ wait[t].shut = {}
        /\ wait[t].shut = {} => {at[t]} \ wait[t].shut = {at[t]} /\ ran[t] \cup {at[t]} = {at[t]}
    BY <1>2 DEF OwnPlain, PlainOK
  <2>3. OwnPlain(t)'
    BY <1>2, <1>3, <1>4, <1>5, <1>6, <1>7, <2>1, <2>2 DEF OwnPlain, PlainOK, PlainPcs, tallies
  <2> QED BY <2>3, KindThen
<1> QED BY <1>2, <1>4, <1>7, <1>8, <1>9, AloneStep DEF Locking

LEMMA EndInv == ASSUME IInv, NEW t \in Threads, End(t) PROVE IInv'
<1>1. TypeOK /\ CallInv
  BY DEF IInv
<1>2. /\ pc[t] = "end" /\ pc' \in [Threads -> Pcs] /\ pc'[t] = "run"
      /\ \A v \in Threads \ {t} : pc'[v] = pc[v]
  BY <1>1, GotoIs, PcNames DEF End
<1>3. Idle \in Waiting
  BY DEF Idle, Waiting, Status
<1>4. /\ UNCHANGED <<chanVars, number, todo, armed, last, overtaken>>
      /\ call' = Set(call, t, NoCall) /\ wait' = Set(wait, t, Idle) /\ at' = Set(at, t, None)
      /\ ran' = Set(ran, t, {}) /\ moved' = Set(moved, t, [c \in Chans |-> 0])
  BY DEF End
<1>5. CallTypeOK'
  BY <1>1, <1>2, <1>3, <1>4 DEF TypeOK, CallTypeOK, Set
<1>6. Still(t) /\ \A v \in Threads \ {t} : wait'[v] = wait[v] /\ moved'[v] = moved[v]
  BY <1>1, <1>2, <1>4 DEF TypeOK, CallTypeOK, Set, Still
<1>7. Listed(t) = {} /\ ~armed[t] /\ todo[t] = {}
  <2>1. OwnPlain(t) \/ OwnOr(t) \/ OwnAnd(t)
    BY <1>1, <1>2, KindAt
  <2> QED BY <1>2, <2>1 DEF OwnPlain, OwnOr, OwnAnd, PlainOK, OrOK, AndOK
<1>8. OwnRun(t)'
  <2>1. Listed(t)' = Listed(t)
    BY <1>4 DEF Listed, chanVars
  <2>2. /\ call'[t] = NoCall /\ wait'[t] = Idle /\ ran'[t] = {} /\ moved'[t] = [c \in Chans |-> 0]
        /\ armed'[t] = armed[t] /\ todo'[t] = todo[t]
    BY <1>1, <1>4 DEF TypeOK, CallTypeOK, Set
  <2> QED BY <1>2, <1>7, <2>1, <2>2 DEF OwnRun, MovedFor
<1>9. Alone(t)
  <2>1. GivenStays(t)
    BY <1>2, <1>4 DEF GivenStays, Given
  <2> QED BY <1>2, <1>4, <1>6, <1>7, <2>1 DEF Alone
<1>10. LockOK(t)'
  BY <1>2 DEF LockOK, Locking
<1> QED BY <1>5, <1>8, <1>9, <1>10, AloneInv, KindThen

LEMMA BeginInv == ASSUME IInv, NEW t \in Threads, NEW k \in Calls[t], Begin(t, k) PROVE IInv'
<1>1. TypeOK /\ CallInv
  BY DEF IInv
<1>2. OwnRun(t)
  BY <1>1, KindAt DEF Begin
<1>3. /\ k \in Call /\ ClausesOf(k) \subseteq Chans /\ ClausesOf(k) # {}
      /\ k.how \in {"block", "try", "close", "or", "and"}
      /\ k.how \notin {"or", "and"} => \E c \in Chans : ClausesOf(k) = {c}
      /\ k.how # "or" => k.other = "none"
  BY ChannelAssumption, ClausesAre DEF Call
<1> DEFINE b == k.how \in {"or", "and"}
           d == IF b THEN ClausesOf(k) \cup IF k.other = "timeout" THEN {"timeout"} ELSE {} ELSE {}
           a == IF b THEN None ELSE CHOOSE c \in Chans : ClausesOf(k) = {c}
<1>4. d \subseteq Chans \cup {"timeout"} /\ a \in Chans \cup {None} /\ (~b => ClausesOf(k) = {a} /\ a \in Chans)
  BY <1>3
<1>5. PICK y : y = Waits(k)
  OBVIOUS
<1>6. /\ y \in Waiting /\ y.sat = {} /\ y.shut = {} /\ y.park_counter = 0 /\ y.permit = FALSE
      /\ k.how = "or" => y.status = "UNSAT"
      /\ k.how = "and" => y.status = "and"
      /\ ~b => y.status = "plain"
  <2>1. PICK st \in {"plain", "and", "UNSAT"} :
               /\ y = [Idle EXCEPT !.status = st]
               /\ k.how = "or" => st = "UNSAT"
               /\ k.how = "and" => st = "and"
               /\ ~b => st = "plain"
    <3>1. CASE k.how = "or"
      BY <3>1, <1>5 DEF Waits
    <3>2. CASE k.how = "and"
      BY <3>2, <1>5 DEF Waits
    <3>3. CASE ~b
      BY <3>3, <1>5 DEF Waits
    <3> QED BY <3>1, <3>2, <3>3
  <2>2. y = [status |-> st, sat |-> {}, park_counter |-> 0, shut |-> {}, permit |-> FALSE]
    BY <2>1 DEF Idle
  <2>3. y.status = st /\ y.sat = {} /\ y.park_counter = 0 /\ y.shut = {} /\ y.permit = FALSE
    BY <2>2
  <2>4. st \in Status
    BY DEF Status
  <2>5. y \in Waiting
    BY <2>2, <2>4 DEF Waiting
  <2> QED BY <2>1, <2>3, <2>5
<1>7. /\ pc[t] = "run" /\ call' = Set(call, t, k) /\ number' = Set(number, t, number[t] + 1)
      /\ wait' = Set(wait, t, y) /\ todo' = Set(todo, t, d) /\ at' = Set(at, t, a)
      /\ Goto(t, IF b THEN "register" ELSE k.how)
      /\ UNCHANGED <<chanVars, armed, ran, tallies>>
  BY <1>3, <1>5 DEF Begin
<1>8. /\ pc' \in [Threads -> Pcs] /\ pc'[t] = IF b THEN "register" ELSE k.how
      /\ \A v \in Threads \ {t} : pc'[v] = pc[v]
  BY <1>1, <1>3, <1>7, GotoIs, PcNames
<1> HIDE DEF d, a
<1>9. CallTypeOK'
  <2>1. call' \in [Threads -> Call \cup {NoCall}] /\ number' \in [Threads -> Nat]
    BY <1>1, <1>3, <1>7 DEF TypeOK, CallTypeOK, Set
  <2>2. todo' \in [Threads -> SUBSET (Chans \cup {"timeout"})] /\ at' \in [Threads -> Chans \cup {None}]
    BY <1>1, <1>4, <1>7 DEF TypeOK, CallTypeOK, Set
  <2>3. wait' \in [Threads -> Waiting]
    BY <1>1, <1>6, <1>7 DEF TypeOK, CallTypeOK, Set
  <2> QED BY <1>1, <1>7, <1>8, <2>1, <2>2, <2>3 DEF TypeOK, CallTypeOK, tallies
<1>10. Still(t) /\ \A v \in Threads \ {t} : wait'[v] = wait[v] /\ moved'[v] = moved[v]
  BY <1>1, <1>7, <1>8 DEF TypeOK, CallTypeOK, Set, Still, tallies
<1>11. Alone(t)
  <2>1. number[t] \in Nat /\ number'[t] = number[t] + 1
    BY <1>1, <1>7 DEF TypeOK, CallTypeOK, Set
  <2>2. GivenStays(t)
    BY <2>1 DEF GivenStays, Given
  <2>3. Listed(t) = {}
    BY <1>2 DEF OwnRun
  <2> QED BY <1>7, <1>10, <2>2, <2>3 DEF Alone, tallies
<1>12. LockOK(t)'
  BY <1>3, <1>8 DEF LockOK, Locking
<1>13. OwnOK(t)'
  <2>1. /\ call'[t] = k /\ wait'[t] = y /\ todo'[t] = d /\ at'[t] = a
        /\ armed' = armed /\ ran' = ran /\ moved' = moved
    BY <1>1, <1>7 DEF TypeOK, CallTypeOK, Set, tallies
  <2>2. Listed(t)' = {}
    BY <1>2, <1>7 DEF OwnRun, Listed, chanVars
  <2>3. ~armed[t] /\ ran[t] = {} /\ MovedFor(moved[t], {})
    BY <1>2 DEF OwnRun
  <2>4. CASE ~b
    <3>1. d = {}
      BY <2>4 DEF d
    <3>2. OwnPlain(t)'
      BY <1>3, <1>4, <1>6, <1>8, <2>1, <2>2, <2>3, <2>4, <3>1 DEF OwnPlain, PlainOK, PlainPcs
    <3> QED BY <3>2, KindThen
  <2>5. CASE k.how = "or"
    <3>1. ClausesOf(k) \subseteq d /\ d \subseteq ClausesOf(k) \cup {"timeout"} /\ (k.other = "timeout" => "timeout" \in d)
      BY <2>5 DEF d
    <3>2. ~Settled(y)
      BY <2>5, <1>6 DEF Settled
    <3>3. OwnOr(t)'
      BY <1>3, <1>6, <1>8, <2>1, <2>2, <2>3, <2>5, <3>1, <3>2 DEF OwnOr, OrOK, OrPcs
    <3> QED BY <3>3, KindThen
  <2>6. CASE k.how = "and"
    <3>1. d = ClausesOf(k)
      BY <1>3, <2>6 DEF d
    <3>2. Cardinality({}) = 0
      BY FS_EmptySet
    <3>3. OwnAnd(t)'
      BY <1>3, <1>6, <1>8, <2>1, <2>2, <2>3, <2>6, <3>1, <3>2 DEF OwnAnd, AndOK, AndPcs
    <3> QED BY <3>3, KindThen
  <2> QED BY <1>3, <2>4, <2>5, <2>6
<1> QED BY <1>9, <1>11, <1>12, <1>13, AloneInv
LEMMA ContainsIs ==
  ASSUME NEW S, NEW p \in Seq(S), NEW q \in Seq(S), NEW e
  PROVE  Contains(p \o q, e) <=> e \in ToSet(p) \cup ToSet(q)
<1>1. /\ p \o q \in Seq(S) /\ Len(p \o q) = Len(p) + Len(q)
      /\ \A i \in 1 .. Len(p) : (p \o q)[i] = p[i]
      /\ \A i \in 1 .. Len(q) : (p \o q)[Len(p) + i] = q[i]
  BY ConcatProperties
<1>2. PICK s \in Seq(S) : s = p \o q
  BY <1>1
<1>3. /\ Len(p) \in Nat /\ Len(q) \in Nat
      /\ \A x : x \in ToSet(p) <=> \E i \in 1 .. Len(p) : x = p[i]
      /\ \A x : x \in ToSet(q) <=> \E i \in 1 .. Len(q) : x = q[i]
  BY SeqFacts
<1>4. Contains(s, e) <=> \E i \in 1 .. Len(s) : s[i] = e
  BY DEF Contains
<1>5. ASSUME NEW i \in 1 .. Len(s), s[i] = e PROVE e \in ToSet(p) \cup ToSet(q)
  <2>1. CASE i <= Len(p)
    BY <2>1, <1>1, <1>2, <1>3, <1>5
  <2>2. CASE i > Len(p)
    <3>1. i - Len(p) \in 1 .. Len(q) /\ Len(p) + (i - Len(p)) = i
      BY <2>2, <1>1, <1>2, <1>3
    <3>2. q[i - Len(p)] = e
      BY <3>1, <1>1, <1>2, <1>5
    <3> QED BY <3>1, <3>2, <1>3
  <2> QED BY <2>1, <2>2, <1>3
<1>6. ASSUME NEW i \in 1 .. Len(p), e = p[i] PROVE \E j \in 1 .. Len(s) : s[j] = e
  <2>1. i \in 1 .. Len(s) /\ s[i] = e
    BY <1>1, <1>2, <1>3, <1>6
  <2> QED BY <2>1
<1>7. ASSUME NEW i \in 1 .. Len(q), e = q[i] PROVE \E j \in 1 .. Len(s) : s[j] = e
  <2>1. Len(p) + i \in 1 .. Len(s) /\ s[Len(p) + i] = e
    BY <1>1, <1>2, <1>3, <1>7
  <2> QED BY <2>1
<1> QED BY <1>2, <1>3, <1>4, <1>5, <1>6, <1>7

\* A thread sets its own status.
LEMMA OwnIs ==
  ASSUME TypeOK, NEW t \in Threads, NEW s \in Status
  PROVE  \E y \in Waiting :
           /\ Own(t, s) = Set(wait, t, y) /\ Own(t, s) \in [Threads -> Waiting] /\ Own(t, s)[t] = y
           /\ \A v \in Threads \ {t} : Own(t, s)[v] = wait[v]
           /\ y.status = s /\ y.sat = wait[t].sat /\ y.park_counter = wait[t].park_counter
           /\ y.shut = wait[t].shut /\ y.permit = wait[t].permit
<1>1. wait \in [Threads -> Waiting] /\ wait[t] \in Waiting
  BY DEF TypeOK, CallTypeOK
<1>2. PICK y : y = [wait[t] EXCEPT !.status = s]
  OBVIOUS
<1>3. /\ y \in Waiting /\ y.status = s /\ y.sat = wait[t].sat /\ y.park_counter = wait[t].park_counter
      /\ y.shut = wait[t].shut /\ y.permit = wait[t].permit
  BY <1>1, <1>2 DEF Waiting
<1>4. Own(t, s) = Set(wait, t, y)
  BY <1>2 DEF Own, Set
<1>5. /\ Set(wait, t, y) \in [Threads -> Waiting] /\ Set(wait, t, y)[t] = y
      /\ \A v \in Threads \ {t} : Set(wait, t, y)[v] = wait[v]
  BY <1>1, <1>3 DEF Set
<1> QED BY <1>3, <1>4, <1>5

\* A thread takes its permit.
LEMMA PermitIs ==
  ASSUME TypeOK, NEW t \in Threads
  PROVE  \E y \in Waiting :
           /\ [wait EXCEPT ![t].permit = FALSE] = Set(wait, t, y)
           /\ y.status = wait[t].status /\ y.sat = wait[t].sat /\ y.park_counter = wait[t].park_counter
           /\ y.shut = wait[t].shut /\ y.permit = FALSE
<1>1. wait \in [Threads -> Waiting] /\ wait[t] \in Waiting
  BY DEF TypeOK, CallTypeOK
<1>2. PICK y : y = [wait[t] EXCEPT !.permit = FALSE]
  OBVIOUS
<1>3. /\ y \in Waiting /\ y.status = wait[t].status /\ y.sat = wait[t].sat /\ y.park_counter = wait[t].park_counter
      /\ y.shut = wait[t].shut /\ y.permit = FALSE
  BY <1>1, <1>2 DEF Waiting
<1> QED BY <1>2, <1>3 DEF Set

LEMMA StatusNames ==
  /\ {"plain", "and", "UNSAT", "PENDING", "SAT", "timeout"} \subseteq Status /\ Chans \subseteq Status
BY DEF Status

(* A step by which t comes to p with the rest of its state as given; the    *)
(* booleans are those of the action.                                       *)
Comes(t, p, d, a, w, r) ==
  /\ pc' = Set(pc, t, p) /\ todo' = Set(todo, t, d) /\ at' = Set(at, t, a)
  /\ wait' = Set(wait, t, w) /\ ran' = Set(ran, t, r)
  /\ armed' \in [Threads -> BOOLEAN] /\ \A v \in Threads \ {t} : armed'[v] = armed[v]
  /\ UNCHANGED <<chanVars, call, number, tallies>>

LEMMA ComesIs ==
  ASSUME IInv, NEW t \in Threads, NEW p \in Pcs, NEW d \in SUBSET (Chans \cup {"timeout"}), NEW a \in Chans \cup {None},
         NEW w \in Waiting, NEW r \in SUBSET Chans, Comes(t, p, d, a, w, r),
         pc[t] \notin {"run", "flush"}, Settled(wait[t]) => Settled(w),
         p \in Locking => pc[t] \in Locking /\ a = at[t],
         p = "race" => Settled(w) \/ pc[t] = "race",
         CallOK(p, call[t], d, a, w, armed'[t], r, moved[t], Listed(t))
  PROVE  IInv'
<1>1. TypeOK
  BY DEF IInv
<1>2. /\ pc' \in [Threads -> Pcs] /\ pc'[t] = p /\ \A v \in Threads \ {t} : pc'[v] = pc[v]
  BY <1>1 DEF Comes, TypeOK, CallTypeOK, Set
<1>3. /\ todo' \in [Threads -> SUBSET (Chans \cup {"timeout"})] /\ todo'[t] = d
      /\ \A v \in Threads \ {t} : todo'[v] = todo[v]
  BY <1>1 DEF Comes, TypeOK, CallTypeOK, Set
<1>4. /\ at' \in [Threads -> Chans \cup {None}] /\ at'[t] = a /\ \A v \in Threads \ {t} : at'[v] = at[v]
  BY <1>1 DEF Comes, TypeOK, CallTypeOK, Set
<1>5. /\ wait' \in [Threads -> Waiting] /\ wait'[t] = w /\ \A v \in Threads \ {t} : wait'[v] = wait[v]
  BY <1>1 DEF Comes, TypeOK, CallTypeOK, Set
<1>6. /\ ran' \in [Threads -> SUBSET Chans] /\ ran'[t] = r /\ \A v \in Threads \ {t} : ran'[v] = ran[v]
  BY <1>1 DEF Comes, TypeOK, CallTypeOK, Set
<1>7. CallTypeOK'
  BY <1>1, <1>2, <1>3, <1>4, <1>5, <1>6 DEF TypeOK, CallTypeOK, Comes, tallies
<1>8. OnlyOf(t) /\ StaysWon(t)
  BY <1>2, <1>3, <1>4, <1>5, <1>6 DEF OnlyOf, StaysWon, Comes, Settled
<1>9. OwnOK(t)'
  <2>1. Listed(t)' = Listed(t) /\ call' = call /\ moved' = moved
    BY DEF Listed, chanVars, Comes, tallies
  <2> QED BY <2>1, <1>2, <1>3, <1>4, <1>5, <1>6 DEF OwnOK
<1>10. pc'[t] = "race" => Settled(wait[t])' \/ pc[t] = "race"
  BY <1>2, <1>5 DEF Settled
<1>11. UNCHANGED <<chanVars, call, number, tallies>>
  BY DEF Comes
<1> QED BY <1>2, <1>4, <1>7, <1>8, <1>9, <1>10, <1>11, AloneStep
LEMMA SetSame == ASSUME NEW S, NEW f \in [Threads -> S], NEW t \in Threads PROVE Set(f, t, f[t]) = f
BY DEF Set

\* The state of t that a step leaves alone.
LEMMA Unset ==
  ASSUME TypeOK, NEW t \in Threads
  PROVE  /\ pc = Set(pc, t, pc[t]) /\ todo = Set(todo, t, todo[t]) /\ at = Set(at, t, at[t])
         /\ wait = Set(wait, t, wait[t]) /\ ran = Set(ran, t, ran[t])
         /\ pc[t] \in Pcs /\ todo[t] \in SUBSET (Chans \cup {"timeout"}) /\ at[t] \in Chans \cup {None}
         /\ wait[t] \in Waiting /\ ran[t] \in SUBSET Chans /\ armed \in [Threads -> BOOLEAN]
         /\ moved[t] \in [Chans -> Nat]
BY DEF TypeOK, CallTypeOK, Set

LEMMA RegisterTimeoutInv == ASSUME IInv, NEW t \in Threads, RegisterTimeout(t) PROVE IInv'
<1>1. TypeOK /\ CallInv
  BY DEF IInv
<1> DEFINE d == todo[t] \ {"timeout"}
<1>2. /\ pc[t] = "register" /\ "timeout" \in todo[t]
      /\ armed' = Set(armed, t, TRUE) /\ todo' = Set(todo, t, d)
      /\ UNCHANGED <<chanVars, pc, call, number, at, wait, ran, tallies>>
  BY DEF RegisterTimeout
<1>3. OwnOr(t)
  <2>1. "timeout" \notin ClausesOf(call[t])
    BY ChanNames, ClausesAre
  <2>2. ~OwnAnd(t)
    BY <1>2, <2>1 DEF OwnAnd, AndOK
  <2> QED BY <1>1, <1>2, <2>2, KindAt
<1>4. armed' \in [Threads -> BOOLEAN] /\ armed'[t] = TRUE /\ \A v \in Threads \ {t} : armed'[v] = armed[v]
  BY <1>1, <1>2 DEF Set, TypeOK, CallTypeOK
<1>5. Comes(t, pc[t], d, at[t], wait[t], ran[t])
  BY <1>1, <1>2, <1>4, Unset DEF Comes
<1>6. OrOK(pc[t], call[t], d, at[t], wait[t], armed'[t], ran[t], moved[t], Listed(t))
  <2>1. ClausesOf(call[t]) \ d = ClausesOf(call[t]) \ todo[t]
    BY ChanNames, ClausesAre
  <2> QED BY <1>2, <1>3, <1>4, <2>1 DEF OwnOr, OrOK
<1>7. CallOK(pc[t], call[t], d, at[t], wait[t], armed'[t], ran[t], moved[t], Listed(t))
  BY <1>3, <1>6 DEF CallOK, OwnOr
<1>8. d \in SUBSET (Chans \cup {"timeout"})
  BY <1>1, Unset
<1> HIDE DEF d
<1> QED BY <1>1, <1>2, <1>5, <1>7, <1>8, ComesIs, Unset DEF Locking

LEMMA TimeoutInv == ASSUME IInv, NEW t \in Threads, Timeout(t) PROVE IInv'
<1>1. TypeOK /\ CallInv
  BY DEF IInv
<1>2. /\ armed[t] /\ ~Pending(t) /\ armed' = Set(armed, t, FALSE)
      /\ UNCHANGED <<chanVars, pc, call, number, todo, at, ran, tallies>>
  BY DEF Timeout
<1>3. OwnOr(t)
  <2>1. ~OwnRun(t) /\ ~OwnPlain(t) /\ ~OwnAnd(t)
    BY <1>2 DEF OwnRun, OwnPlain, OwnAnd, PlainOK, AndOK
  <2> QED BY <1>1, <2>1, KindAt
<1>4. pc[t] \in OrPcs
  BY <1>3 DEF OwnOr, OrOK
<1>5. armed' \in [Threads -> BOOLEAN] /\ armed'[t] = FALSE /\ \A v \in Threads \ {t} : armed'[v] = armed[v]
  BY <1>1, <1>2 DEF Set, TypeOK, CallTypeOK
<1>6. CASE Decided(t)
  <2>1. wait' = wait
    BY <1>6 DEF Timeout
  <2>2. Comes(t, pc[t], todo[t], at[t], wait[t], ran[t])
    BY <1>1, <1>2, <1>5, <2>1, Unset DEF Comes
  <2>3. Settled(wait[t])
    BY <1>6, DecidedIs
  <2>4. OrOK(pc[t], call[t], todo[t], at[t], wait[t], armed'[t], ran[t], moved[t], Listed(t))
    BY <1>3, <1>5, <2>3 DEF OwnOr, OrOK
  <2>5. CallOK(pc[t], call[t], todo[t], at[t], wait[t], armed'[t], ran[t], moved[t], Listed(t))
    BY <1>3, <2>4 DEF CallOK, OwnOr
  <2> QED BY <1>1, <1>4, <2>2, <2>3, <2>5, ComesIs, Unset DEF OrPcs
<1>7. CASE ~Decided(t)
  <2>1. wait' = [wait EXCEPT ![t].status = "timeout", ![t].permit = TRUE]
    BY <1>7 DEF Timeout
  <2>2. PICK y : y = [wait[t] EXCEPT !.status = "timeout", !.permit = TRUE]
    OBVIOUS
  <2>3. wait' = Set(wait, t, y)
    BY <1>1, <2>1, <2>2 DEF Set, TypeOK, CallTypeOK
  <2>4. /\ y \in Waiting /\ y.status = "timeout" /\ y.sat = wait[t].sat /\ y.shut = wait[t].shut /\ y.permit = TRUE
    BY <1>1, <2>2, Unset, StatusNames DEF Waiting
  <2>5. Comes(t, pc[t], todo[t], at[t], y, ran[t])
    BY <1>1, <1>2, <1>5, <2>3, Unset DEF Comes
  <2>6. ~Settled(wait[t]) /\ wait[t].status # "PENDING" /\ Settled(y)
    BY <1>2, <1>7, <2>4, DecidedIs DEF Pending, Settled
  <2>7. OrOK(pc[t], call[t], todo[t], at[t], y, armed'[t], ran[t], moved[t], Listed(t))
    <3>1. /\ pc[t] \in {"register", "yielded", "race", "parked"} /\ ran[t] = {} /\ wait[t].shut = {} /\ MovedFor(moved[t], {})
      BY <1>3, <2>6 DEF OwnOr, OrOK
    <3>2. MovedFor(moved[t], {"timeout"})
      BY <3>1, ChanNames DEF MovedFor
    <3> QED BY <1>3, <1>5, <2>4, <2>6, <3>1, <3>2 DEF OwnOr, OrOK
  <2>8. CallOK(pc[t], call[t], todo[t], at[t], y, armed'[t], ran[t], moved[t], Listed(t))
    BY <1>3, <2>7 DEF CallOK, OwnOr
  <2>9. pc[t] \notin {"run", "flush"}
    BY <1>4 DEF OrPcs
  <2> QED BY <1>1, <2>4, <2>5, <2>6, <2>8, <2>9, ComesIs, Unset
<1> QED BY <1>6, <1>7

LEMMA RegisteredInv == ASSUME IInv, NEW t \in Threads, Registered(t) PROVE IInv'
<1>1. TypeOK /\ CallInv
  BY DEF IInv
<1>2. OwnOr(t) /\ pc[t] = "register" /\ todo[t] = {}
  BY <1>1, KindHow DEF Registered
<1>3. /\ UNCHANGED <<chanVars, call, number, todo, at, armed, ran, tallies>>
      /\ armed' \in [Threads -> BOOLEAN] /\ armed'[t] = armed[t] /\ \A v \in Threads \ {t} : armed'[v] = armed[v]
  BY <1>1, Unset DEF Registered
<1>4. CASE call[t].other = "else" /\ wait[t].status = "UNSAT"
  <2>1. PICK y \in Waiting :
          /\ Own(t, "SAT") = Set(wait, t, y)
          /\ y.status = "SAT" /\ y.sat = wait[t].sat /\ y.shut = wait[t].shut /\ y.permit = wait[t].permit
    BY <1>1, OwnIs, StatusNames
  <2>2. Comes(t, "unregister", todo[t], at[t], y, ran[t])
    BY <1>1, <1>3, <1>4, <2>1, Unset DEF Comes, Registered, Goto
  <2>3. ~Settled(wait[t]) /\ Settled(y)
    BY <1>4, <2>1 DEF Settled
  <2>4. OrOK("unregister", call[t], todo[t], at[t], y, armed'[t], ran[t], moved[t], Listed(t))
    BY <1>2, <1>3, <2>1, <2>3 DEF OwnOr, OrOK, OrPcs
  <2>5. CallOK("unregister", call[t], todo[t], at[t], y, armed'[t], ran[t], moved[t], Listed(t))
    BY <1>2, <2>4 DEF CallOK, OwnOr
  <2> QED BY <1>1, <1>2, <2>2, <2>3, <2>5, ComesIs, Unset, PcNames DEF Locking
<1>5. CASE ~(call[t].other = "else" /\ wait[t].status = "UNSAT")
  <2>1. Comes(t, "parked", todo[t], at[t], wait[t], ran[t])
    BY <1>1, <1>3, <1>5, Unset DEF Comes, Registered, Goto
  <2>2. OrOK("parked", call[t], todo[t], at[t], wait[t], armed'[t], ran[t], moved[t], Listed(t))
    BY <1>2, <1>3 DEF OwnOr, OrOK, OrPcs
  <2>3. CallOK("parked", call[t], todo[t], at[t], wait[t], armed'[t], ran[t], moved[t], Listed(t))
    BY <1>2, <2>2 DEF CallOK, OwnOr
  <2> QED BY <1>1, <1>2, <2>1, <2>3, ComesIs, Unset, PcNames DEF Locking
<1> QED BY <1>4, <1>5
LEMMA SelectedInv == ASSUME IInv, NEW t \in Threads, Selected(t) PROVE IInv'
<1>1. TypeOK /\ CallInv
  BY DEF IInv
<1> DEFINE c == wait[t].status
           a == IF c \in Chans THEN c ELSE None
           p == IF wait[t].shut # {} THEN "closed" ELSE "unregister"
           r == IF wait[t].shut # {} \/ c \notin Chans THEN ran[t] ELSE {c}
<1>2. OwnOr(t) /\ pc[t] = "parked" /\ wait[t].permit
  BY <1>1, KindHow DEF Selected
<1>3. /\ UNCHANGED <<chanVars, call, number, todo, armed, tallies>>
      /\ armed' \in [Threads -> BOOLEAN] /\ armed'[t] = armed[t] /\ \A v \in Threads \ {t} : armed'[v] = armed[v]
  BY <1>1, Unset DEF Selected
<1>4. PICK y \in Waiting :
        /\ [wait EXCEPT ![t].permit = FALSE] = Set(wait, t, y)
        /\ y.status = wait[t].status /\ y.sat = wait[t].sat /\ y.shut = wait[t].shut /\ y.permit = FALSE
  BY <1>1, PermitIs
<1>5. Comes(t, p, todo[t], a, y, r)
  BY <1>1, <1>3, <1>4, Unset DEF Comes, Selected, Goto
<1>6. /\ Settled(wait[t]) /\ Settled(y) /\ ran[t] = {} /\ c \in ClausesOf(call[t]) \cup {"timeout"}
      /\ MovedFor(moved[t], IF wait[t].shut = {} THEN {c} ELSE {})
      /\ c = "timeout" => wait[t].shut = {}
  BY <1>2, <1>4 DEF OwnOr, OrOK, Settled
<1>7. /\ a \in Chans \cup {None} /\ p \in Pcs /\ p \notin Locking /\ r \in SUBSET Chans
      /\ p = "closed" => c = a /\ a \in ClausesOf(call[t]) /\ r = {}
      /\ p \in {"closed", "unregister"}
  BY <1>6, ClausesAre, PcNames DEF Locking
<1>8. MovedFor(moved[t], r)
  BY <1>6, ChanNames DEF MovedFor
<1> HIDE DEF p, a, r
<1>9. OrOK(p, call[t], todo[t], a, y, armed'[t], r, moved[t], Listed(t))
  BY <1>2, <1>3, <1>4, <1>6, <1>7, <1>8 DEF OwnOr, OrOK, OrPcs
<1>10. CallOK(p, call[t], todo[t], a, y, armed'[t], r, moved[t], Listed(t))
  BY <1>2, <1>9 DEF CallOK, OwnOr
<1>11. pc[t] \notin {"run", "flush"} /\ p # "race"
  BY <1>2, <1>7
<1> QED BY <1>1, <1>5, <1>6, <1>7, <1>10, <1>11, ComesIs, Unset

\* The counts of an and-waituntil that has nobody's clause to run left.
LEMMA SatIs ==
  ASSUME NEW s \in SUBSET Chans, NEW r \in SUBSET s
  PROVE  /\ Cardinality(s) \in Nat /\ Cardinality(r) \in Nat
         /\ Cardinality(s) <= Cardinality(r) => r = s
<1>1. IsFiniteSet(s) /\ IsFiniteSet(r)
  BY ChannelAssumption, FS_Subset
<1>2. Cardinality(s) \in Nat /\ Cardinality(r) \in Nat
  BY <1>1, FS_CardinalityType
<1>3. Cardinality(r) <= Cardinality(s) /\ (Cardinality(s) = Cardinality(r) => s = r)
  BY <1>1, FS_Subset
<1> QED BY <1>2, <1>3

LEMMA MaybeParkInv == ASSUME IInv, NEW t \in Threads, MaybePark(t) PROVE IInv'
<1>1. TypeOK /\ CallInv
  BY DEF IInv
<1> DEFINE n == wait[t].park_counter
           p == IF n > 0 THEN "bodies" ELSE "parked"
<1>2. OwnAnd(t) /\ pc[t] = "register" /\ todo[t] = {}
  BY <1>1, KindHow DEF MaybePark
<1>3. /\ UNCHANGED <<chanVars, call, number, todo, at, armed, ran, tallies>>
      /\ armed' \in [Threads -> BOOLEAN] /\ armed'[t] = armed[t] /\ \A v \in Threads \ {t} : armed'[v] = armed[v]
  BY <1>1, Unset DEF MaybePark
<1>4. PICK y : y = [wait[t] EXCEPT !.park_counter = @ - 1]
  OBVIOUS
<1>5. /\ y \in Waiting /\ y.status = wait[t].status /\ y.sat = wait[t].sat /\ y.shut = wait[t].shut
      /\ y.permit = wait[t].permit /\ y.park_counter = n - 1
  BY <1>1, <1>4, Unset DEF Waiting
<1>6. wait' = Set(wait, t, y)
  BY <1>1, <1>4 DEF MaybePark, Set, TypeOK, CallTypeOK
<1>7. Comes(t, p, todo[t], at[t], y, ran[t])
  BY <1>1, <1>3, <1>6, Unset DEF Comes, MaybePark, Goto
<1>8. /\ n \in Int /\ n >= 0 /\ wait[t].permit = FALSE /\ ran[t] # ClausesOf(call[t]) /\ ran[t] \subseteq wait[t].sat
      /\ Cardinality(wait[t].sat) - n <= Cardinality(ran[t]) /\ wait[t].sat \in SUBSET Chans
  BY <1>1, <1>2, Unset DEF OwnAnd, AndOK, Waiting
<1>9. n = 0 => wait[t].sat # ClausesOf(call[t])
  BY <1>8, SatIs
<1>10. p \in Pcs /\ p \notin Locking /\ p \in {"bodies", "parked"} /\ (p = "bodies" => n - 1 >= 0) /\ (p = "parked" => n - 1 = -1)
  BY <1>8, PcNames DEF Locking
<1> HIDE DEF n, p
<1>11. AndOK(p, call[t], todo[t], at[t], y, armed'[t], ran[t], moved[t], Listed(t))
  BY <1>2, <1>3, <1>5, <1>8, <1>9, <1>10 DEF OwnAnd, AndOK, AndPcs
<1>12. CallOK(p, call[t], todo[t], at[t], y, armed'[t], ran[t], moved[t], Listed(t))
  BY <1>2, <1>11 DEF CallOK, OwnAnd
<1>13. pc[t] \notin {"run", "flush"} /\ p # "race" /\ (Settled(wait[t]) => Settled(y))
  BY <1>2, <1>5, <1>10 DEF Settled
<1> QED BY <1>1, <1>5, <1>7, <1>10, <1>12, <1>13, ComesIs, Unset

LEMMA AndReturnsInv == ASSUME IInv, NEW t \in Threads, AndReturns(t) PROVE IInv'
<1>1. TypeOK /\ CallInv
  BY DEF IInv
<1>2. OwnAnd(t) /\ pc[t] = "parked" /\ wait[t].permit
  BY <1>1, KindHow DEF AndReturns
<1>3. /\ UNCHANGED <<chanVars, call, number, todo, at, armed, ran, tallies>>
      /\ armed' \in [Threads -> BOOLEAN] /\ armed'[t] = armed[t] /\ \A v \in Threads \ {t} : armed'[v] = armed[v]
  BY <1>1, Unset DEF AndReturns
<1>4. PICK y \in Waiting :
        /\ [wait EXCEPT ![t].permit = FALSE] = Set(wait, t, y)
        /\ y.status = wait[t].status /\ y.sat = wait[t].sat /\ y.park_counter = wait[t].park_counter
        /\ y.shut = wait[t].shut /\ y.permit = FALSE
  BY <1>1, PermitIs
<1>5. Comes(t, "bodies", todo[t], at[t], y, ran[t])
  BY <1>1, <1>3, <1>4, Unset DEF Comes, AndReturns, Goto
<1>6. AndOK("bodies", call[t], todo[t], at[t], y, armed'[t], ran[t], moved[t], Listed(t))
  BY <1>2, <1>3, <1>4 DEF OwnAnd, AndOK, AndPcs
<1>7. CallOK("bodies", call[t], todo[t], at[t], y, armed'[t], ran[t], moved[t], Listed(t))
  BY <1>2, <1>6 DEF CallOK, OwnAnd
<1>8. Settled(wait[t]) => Settled(y)
  BY <1>4 DEF Settled
<1> QED BY <1>1, <1>2, <1>5, <1>7, <1>8, ComesIs, Unset, PcNames DEF Locking

LEMMA BodiesInv == ASSUME IInv, NEW t \in Threads, Bodies(t) PROVE IInv'
<1>1. TypeOK /\ CallInv
  BY DEF IInv
<1> DEFINE due == wait[t].sat \ ran[t]
           shut == due \cap wait[t].shut
<1>2. OwnAnd(t) /\ pc[t] = "bodies"
  BY <1>1, KindAt DEF Bodies
<1>3. /\ UNCHANGED <<chanVars, call, number, todo, wait, armed, tallies>>
      /\ armed' \in [Threads -> BOOLEAN] /\ armed'[t] = armed[t] /\ \A v \in Threads \ {t} : armed'[v] = armed[v]
  BY <1>1, Unset DEF Bodies
<1>4. /\ todo[t] = {} /\ wait[t].sat \subseteq ClausesOf(call[t]) /\ ran[t] \subseteq wait[t].sat
      /\ wait[t].park_counter >= 0 /\ wait[t].sat \in SUBSET Chans
      /\ MovedFor(moved[t], (wait[t].sat \ wait[t].shut) \cup ran[t])
  BY <1>1, <1>2, Unset DEF OwnAnd, AndOK, Waiting
<1>5. CASE shut # {}
  <2>1. PICK c \in shut : at' = Set(at, t, c)
    BY <1>5 DEF Bodies
  <2>2. c \in Chans /\ c \in ClausesOf(call[t]) /\ c \in (wait[t].sat \cap wait[t].shut) \ ran[t]
    BY <1>4
  <2>3. Comes(t, "closed", todo[t], c, wait[t], ran[t])
    BY <1>1, <1>3, <1>5, <2>1, Unset DEF Comes, Bodies, Goto
  <2>4. AndOK("closed", call[t], todo[t], c, wait[t], armed'[t], ran[t], moved[t], Listed(t))
    BY <1>2, <1>3, <1>4, <2>2 DEF OwnAnd, AndOK, AndPcs
  <2>5. CallOK("closed", call[t], todo[t], c, wait[t], armed'[t], ran[t], moved[t], Listed(t))
    BY <1>2, <2>4 DEF CallOK, OwnAnd
  <2> QED BY <1>1, <1>2, <2>2, <2>3, <2>5, ComesIs, Unset, PcNames DEF Locking
<1>6. CASE shut = {}
  <2> DEFINE r == ran[t] \cup due
             p == IF r = ClausesOf(call[t]) THEN "unregister" ELSE "register"
  <2>1. r = wait[t].sat /\ (wait[t].sat \ wait[t].shut) \cup ran[t] = r
    BY <1>4, <1>6
  <2>2. ran' = Set(ran, t, r) /\ ran'[t] = r /\ at' = at /\ Goto(t, IF ran'[t] = ClausesOf(call[t]) THEN "unregister" ELSE "register")
    BY <1>1, <1>6 DEF Bodies, Set, TypeOK, CallTypeOK
  <2>3. Comes(t, p, todo[t], at[t], wait[t], r)
    BY <1>1, <1>3, <2>2, Unset DEF Comes, Goto
  <2>4. /\ p \in {"unregister", "register"} /\ p \in Pcs /\ p \notin Locking
        /\ p = "unregister" => r = ClausesOf(call[t])
        /\ p = "register" => r # ClausesOf(call[t])
    BY PcNames DEF Locking
  <2>5. Cardinality(wait[t].sat) - wait[t].park_counter <= Cardinality(r)
    <3>1. Cardinality(wait[t].sat) \in Nat /\ wait[t].park_counter \in Int
      BY <1>1, <1>4, SatIs, Unset DEF Waiting
    <3>2. PICK k \in Nat : k = Cardinality(wait[t].sat)
      BY <3>1
    <3>3. k - wait[t].park_counter <= k
      BY <3>1, <1>4
    <3> QED BY <3>2, <3>3, <2>1
  <2> HIDE DEF r, p
  <2>6. AndOK(p, call[t], todo[t], at[t], wait[t], armed'[t], r, moved[t], Listed(t))
    BY <1>2, <1>3, <1>4, <2>1, <2>4, <2>5 DEF OwnAnd, AndOK, AndPcs
  <2>7. CallOK(p, call[t], todo[t], at[t], wait[t], armed'[t], r, moved[t], Listed(t))
    BY <1>2, <2>6 DEF CallOK, OwnAnd
  <2>8. r \in SUBSET Chans /\ pc[t] \notin {"run", "flush"} /\ p # "race"
    BY <1>2, <1>4, <2>1, <2>4
  <2> QED BY <1>1, <2>3, <2>4, <2>7, <2>8, ComesIs, Unset
<1> QED BY <1>5, <1>6

LEMMA UnregisteredInv == ASSUME IInv, NEW t \in Threads, Unregistered(t) PROVE IInv'
<1>1. TypeOK /\ CallInv
  BY DEF IInv
<1> DEFINE r == ran[t] \cup (wait[t].sat \ wait[t].shut)
<1>2. /\ pc[t] \in {"unregister", "thrown"} /\ \A c \in Chans : ~Contains(prods[c] \o cons[c], t)
      /\ ran' = Set(ran, t, r) /\ armed' = Set(armed, t, FALSE) /\ todo' = Set(todo, t, {}) /\ Goto(t, "end")
      /\ UNCHANGED <<chanVars, call, number, at, wait, tallies>>
  BY DEF Unregistered
<1>3. armed' \in [Threads -> BOOLEAN] /\ armed'[t] = FALSE /\ \A v \in Threads \ {t} : armed'[v] = armed[v]
  BY <1>1, <1>2 DEF Set, TypeOK, CallTypeOK
<1>4. Comes(t, "end", {}, at[t], wait[t], r)
  BY <1>1, <1>2, <1>3, Unset DEF Comes, Goto
<1>5. Listed(t) = {}
  <2>1. \A c \in Chans : prods[c] \in Seq(Threads) /\ cons[c] \in Seq(Threads)
    BY <1>1 DEF TypeOK, ChannelTypeOK
  <2>2. \A c \in Chans : t \notin ToSet(prods[c]) \cup ToSet(cons[c])
    BY <1>2, <2>1, ContainsIs
  <2> QED BY <2>2 DEF Listed
<1>6. r \in SUBSET Chans
  BY <1>1, Unset DEF Waiting
<1>7. CallOK("end", call[t], {}, at[t], wait[t], armed'[t], r, moved[t], Listed(t))
  <2>1. CASE OwnOr(t)
    <3>1. r = ran[t] /\ Settled(wait[t]) /\ wait[t].permit = FALSE /\ MovedFor(moved[t], r)
      BY <1>1, <1>2, <2>1, Unset DEF OwnOr, OrOK, Waiting
    <3>2. OrOK("end", call[t], {}, at[t], wait[t], armed'[t], r, moved[t], Listed(t))
      BY <1>2, <1>3, <1>5, <2>1, <3>1 DEF OwnOr, OrOK, OrPcs
    <3> QED BY <2>1, <3>2 DEF CallOK, OwnOr
  <2>2. CASE OwnAnd(t)
    <3>1. AndOK("end", call[t], {}, at[t], wait[t], armed'[t], r, moved[t], Listed(t))
      <4>1. r = (wait[t].sat \ wait[t].shut) \cup ran[t]
        OBVIOUS
      <4> HIDE DEF r
      <4>2. MovedFor(moved[t], r) /\ r \subseteq wait[t].sat
        BY <1>2, <2>2, <4>1 DEF OwnAnd, AndOK
      <4> QED BY <1>2, <1>3, <1>5, <2>2, <4>2 DEF OwnAnd, AndOK, AndPcs
    <3> QED BY <2>2, <3>1 DEF CallOK, OwnAnd
  <2> QED BY <1>1, <1>2, <2>1, <2>2, KindAt
<1> HIDE DEF r
<1> QED BY <1>1, <1>2, <1>4, <1>6, <1>7, ComesIs, Unset, PcNames DEF Locking

LEMMA PendingAgainInv == ASSUME IInv, NEW t \in Threads, PendingAgain(t) PROVE IInv'
<1>1. TypeOK /\ CallInv
  BY DEF IInv
<1>2. OwnOr(t) /\ pc[t] = "yielded"
  BY <1>1, KindAt DEF PendingAgain
<1>3. /\ UNCHANGED <<chanVars, call, number, todo, at, armed, ran, tallies>>
      /\ armed' \in [Threads -> BOOLEAN] /\ armed'[t] = armed[t] /\ \A v \in Threads \ {t} : armed'[v] = armed[v]
  BY <1>1, Unset DEF PendingAgain
<1>4. CASE Decided(t)
  <2>1. Comes(t, "race", todo[t], at[t], wait[t], ran[t])
    BY <1>1, <1>3, <1>4, Unset DEF Comes, PendingAgain, Goto
  <2>2. Settled(wait[t])
    BY <1>4, DecidedIs
  <2>3. OrOK("race", call[t], todo[t], at[t], wait[t], armed'[t], ran[t], moved[t], Listed(t))
    BY <1>2, <1>3, <2>2 DEF OwnOr, OrOK, OrPcs
  <2>4. CallOK("race", call[t], todo[t], at[t], wait[t], armed'[t], ran[t], moved[t], Listed(t))
    BY <1>2, <2>3 DEF CallOK, OwnOr
  <2> QED BY <1>1, <1>2, <2>1, <2>2, <2>4, ComesIs, Unset, PcNames DEF Locking
<1>5. CASE ~Decided(t)
  <2>1. PICK y \in Waiting :
          /\ Own(t, "PENDING") = Set(wait, t, y)
          /\ y.status = "PENDING" /\ y.sat = wait[t].sat /\ y.shut = wait[t].shut /\ y.permit = wait[t].permit
    BY <1>1, OwnIs, StatusNames
  <2>2. Comes(t, "pending", todo[t], at[t], y, ran[t])
    BY <1>1, <1>3, <1>5, <2>1, Unset DEF Comes, PendingAgain, Goto
  <2>3. ~Settled(wait[t]) /\ ~Settled(y)
    BY <1>5, <2>1, DecidedIs DEF Settled
  <2>4. OrOK("pending", call[t], todo[t], at[t], y, armed'[t], ran[t], moved[t], Listed(t))
    BY <1>2, <1>3, <2>1, <2>3 DEF OwnOr, OrOK, OrPcs
  <2>5. CallOK("pending", call[t], todo[t], at[t], y, armed'[t], ran[t], moved[t], Listed(t))
    BY <1>2, <2>4 DEF CallOK, OwnOr
  <2> QED BY <1>1, <1>2, <2>2, <2>3, <2>5, ComesIs, Unset, PcNames DEF Locking
<1> QED BY <1>4, <1>5
-----------------------------------------------------------------------------
(* Steps that transfer an element.                                         *)

(* t comes to p with the rest of its state as given, by a transfer at c for *)
(* which y is its waiting state.                                           *)
TransferComes(t, c, p, d, a, r) ==
  /\ pc' = Set(pc, t, p) /\ todo' = Set(todo, t, d) /\ at' = Set(at, t, a) /\ ran' = Set(ran, t, r)
  /\ armed' = armed /\ call' = call /\ number' = number /\ closed' = closed
  /\ lock' = lock \/ lock' = Set(lock, c, None)

LEMMA TransferComesIs ==
  ASSUME IInv, NEW t \in Threads, NEW c \in Chans, NEW p \in Pcs, NEW d \in SUBSET (Chans \cup {"timeout"}),
         NEW a \in Chans \cup {None}, NEW y \in Waiting, NEW r \in SUBSET Chans, TransferComes(t, c, p, d, a, r),
         NEW w, w = Set(wait, t, y), Settled(wait[t]) => Settled(y),
         \E out : Transferred(t, c, w, out), lock[c] \in {None, t},
         pc[t] \notin {"run", "flush"}, p \notin Locking,
         CallOK(p, call[t], d, a, y, armed[t], r, Credit(moved[t], c, {}), Listed(t))
  PROVE  IInv'
<1>1. TypeOK
  BY DEF IInv
<1>2. PICK out : Transferred(t, c, w, out)
  OBVIOUS
<1>3. w \in [Threads -> Waiting] /\ w[t] = y /\ \A v \in Threads \ {t} : w[v] = wait[v]
  BY <1>1 DEF TypeOK, CallTypeOK, Set
<1>4. /\ pc' \in [Threads -> Pcs] /\ pc'[t] = p /\ \A v \in Threads \ {t} : pc'[v] = pc[v]
  BY <1>1 DEF TransferComes, TypeOK, CallTypeOK, Set
<1>5. /\ todo' \in [Threads -> SUBSET (Chans \cup {"timeout"})] /\ todo'[t] = d
      /\ \A v \in Threads \ {t} : todo'[v] = todo[v]
  BY <1>1 DEF TransferComes, TypeOK, CallTypeOK, Set
<1>6. /\ at' \in [Threads -> Chans \cup {None}] /\ at'[t] = a /\ \A v \in Threads \ {t} : at'[v] = at[v]
  BY <1>1 DEF TransferComes, TypeOK, CallTypeOK, Set
<1>7. /\ ran' \in [Threads -> SUBSET Chans] /\ ran'[t] = r /\ \A v \in Threads \ {t} : ran'[v] = ran[v]
  BY <1>1 DEF TransferComes, TypeOK, CallTypeOK, Set
<1>8. /\ wait' \in [Threads -> Waiting] /\ moved' \in [Threads -> [Chans -> Nat]]
      /\ wait'[t] = y /\ moved'[t] = Credit(moved[t], c, {})
      /\ Listed(t)' = Listed(t)
  <2>1. Wait(out, t, c) /\ QueuesStep(t, c, out) /\ SelfListed(t, c)
    BY <1>2 DEF Transferred
  <2>2. t \notin out
    BY <2>1 DEF Wait
  <2>3. Listed(t)' = Listed(t)
    BY <2>1 DEF Listed, QueuesStep, SelfListed
  <2> QED BY <1>2, <1>3, <2>2, <2>3 DEF Transferred
<1>9. CallTypeOK'
  BY <1>1, <1>4, <1>5, <1>6, <1>7, <1>8 DEF TypeOK, CallTypeOK, TransferComes
<1>10. Still(t)
  BY <1>4, <1>5, <1>6, <1>7 DEF Still, TransferComes
<1>11. OwnOK(t)'
  <2>1. call' = call /\ armed' = armed
    BY DEF TransferComes
  <2> QED BY <2>1, <1>4, <1>5, <1>6, <1>7, <1>8 DEF OwnOK
<1>12. LockOK(t)'
  BY <1>4 DEF LockOK, Locking
<1>13. lock' \in [Chans -> Threads \cup {None}] /\ Holds(t, c)
  BY <1>1 DEF TransferComes, Set, Holds, TypeOK, ChannelTypeOK
<1>14. closed' = closed /\ call'[t] = call[t] /\ number'[t] = number[t]
  BY DEF TransferComes
<1> QED BY <1>2, <1>3, <1>9, <1>10, <1>11, <1>12, <1>13, <1>14, TransferInv

LEMMA ClauseIs == \A t, c : c \in ClausesOf(call[t]) => c \in Chans /\ Clause(t, c) # "none"
BY DEF ClausesOf, Clause

LEMMA SidesAre == ASSUME TypeOK, NEW t \in Threads, NEW c \in ClausesOf(call[t]) PROVE Clause(t, c) \in {"insert", "remove"}
<1>1. call[t] \in Call \cup {NoCall} /\ c \in Chans /\ Clause(t, c) # "none"
  BY ClauseIs DEF TypeOK, CallTypeOK
<1>2. call[t].clause[c] \in {"none", "insert", "remove"}
  BY <1>1 DEF Call, NoCall
<1> QED BY <1>1, <1>2 DEF Clause

LEMMA BlockTransferInv == ASSUME IInv, NEW t \in Threads, BlockTransfer(t) PROVE IInv'
<1>1. TypeOK /\ CallInv
  BY DEF IInv
<1> DEFINE c == at[t]
<1>2. OwnPlain(t) /\ pc[t] = "block"
  BY <1>1, KindAt DEF BlockTransfer
<1>3. /\ lock[c] = None /\ Transfer(t, c, wait) /\ Done(t, "end")
      /\ UNCHANGED <<lock, closed, call, number, todo, at, armed>>
  BY DEF BlockTransfer
<1>4. /\ c \in Chans /\ ClausesOf(call[t]) = {c} /\ ran[t] = {} /\ MovedFor(moved[t], {}) /\ Listed(t) = {}
  BY <1>2 DEF OwnPlain, PlainOK
<1>5. Transfers(t, c, wait, Clause(t, c))
  BY <1>1, <1>2, <1>4 DEF Transfers, MovedFor, TypeOK, CallTypeOK
<1>6. \E out : Transferred(t, c, wait, out)
  BY <1>3, <1>4, <1>5, TransferIs
<1>7. MovedFor(Credit(moved[t], c, {}), {c})
  <2>1. MovedFor(Credit(moved[t], c, {}), {} \cup {c})
    BY <1>1, <1>4, CreditIs, Unset
  <2> QED BY <2>1
<1>8. TransferComes(t, c, "end", todo[t], at[t], {c})
  BY <1>1, <1>3, <1>4, Unset DEF TransferComes, Done, Goto
<1>9. PlainOK("end", call[t], todo[t], at[t], wait[t], armed[t], {c}, Credit(moved[t], c, {}), Listed(t))
  BY <1>2, <1>7 DEF OwnPlain, PlainOK, PlainPcs
<1>10. CallOK("end", call[t], todo[t], at[t], wait[t], armed[t], {c}, Credit(moved[t], c, {}), Listed(t))
  BY <1>2, <1>9 DEF CallOK, OwnPlain
<1>11. wait = Set(wait, t, wait[t]) /\ {c} \in SUBSET Chans /\ wait[t] \in Waiting
       /\ todo[t] \in SUBSET (Chans \cup {"timeout"}) /\ at[t] \in Chans \cup {None}
  BY <1>1, <1>4, Unset
<1> QED BY <1>2, <1>3, <1>4, <1>6, <1>8, <1>10, <1>11, TransferComesIs, PcNames DEF Locking

\* The own clause of an and-waituntil is done.
LEMMA MadeIs ==
  ASSUME TypeOK, NEW t \in Threads, NEW c \in Chans, wait[t].status = "and"
  PROVE  \E y \in Waiting :
           /\ MadeAvailable(t, c) = Set(wait, t, y)
           /\ y.status = "and" /\ y.sat = wait[t].sat \cup {c} /\ y.park_counter = wait[t].park_counter + 1
           /\ y.shut = wait[t].shut /\ y.permit = wait[t].permit
<1>1. wait \in [Threads -> Waiting] /\ wait[t] \in Waiting
  BY DEF TypeOK, CallTypeOK
<1>2. PICK x : x = [wait[t] EXCEPT !.sat = @ \cup {c}]
  OBVIOUS
<1>3. /\ x \in Waiting /\ x.status = "and" /\ x.sat = wait[t].sat \cup {c}
      /\ x.park_counter = wait[t].park_counter /\ x.shut = wait[t].shut /\ x.permit = wait[t].permit
  BY <1>1, <1>2 DEF Waiting
<1>5. PICK y : y = [x EXCEPT !.park_counter = @ + 1]
  OBVIOUS
<1>6. /\ y \in Waiting /\ y.status = "and" /\ y.sat = wait[t].sat \cup {c}
      /\ y.park_counter = wait[t].park_counter + 1 /\ y.shut = wait[t].shut /\ y.permit = wait[t].permit
  BY <1>3, <1>5 DEF Waiting
<1>4. MadeAvailable(t, c) = Set(wait, t, y)
  BY <1>1, <1>2, <1>5 DEF MadeAvailable, Set
<1> QED BY <1>4, <1>6

LEMMA AndRegistered ==
  ASSUME TypeOK, NEW t \in Threads, OwnAnd(t), pc[t] \in {"register", "closed"}, NEW c \in todo[t], c \in Chans,
         NEW a, NEW y \in Waiting,
         y.status = "and", y.sat = wait[t].sat \cup {c}, y.park_counter = wait[t].park_counter + 1,
         y.shut = wait[t].shut, y.permit = wait[t].permit
  PROVE  CallOK("register", call[t], todo[t] \ {c}, a, y, armed[t], ran[t], Credit(moved[t], c, {}), Listed(t))
<1>1. /\ AndOK(pc[t], call[t], todo[t], at[t], wait[t], armed[t], ran[t], moved[t], Listed(t))
      /\ call[t] \in Call /\ call[t].how = "and"
  BY DEF OwnAnd
<1>2. /\ wait[t].sat \in SUBSET Chans /\ wait[t].park_counter \in Int /\ wait[t].shut \in SUBSET Chans
      /\ moved[t] \in [Chans -> Nat]
  BY Unset DEF Waiting
<1>3. /\ c \in ClausesOf(call[t]) /\ c \notin wait[t].sat /\ c \notin wait[t].shut /\ ran[t] = {}
      /\ wait[t].park_counter = Cardinality(wait[t].sat) /\ wait[t].permit = FALSE /\ wait[t].park_counter >= 0
      /\ todo[t] \cup wait[t].sat \subseteq ClausesOf(call[t]) /\ todo[t] \cap wait[t].sat = {}
      /\ wait[t].shut \subseteq wait[t].sat /\ ~armed[t] /\ call[t].other = "none"
      /\ Listed(t) = ClausesOf(call[t]) \ (todo[t] \cup wait[t].sat)
      /\ MovedFor(moved[t], (wait[t].sat \ wait[t].shut) \cup ran[t])
  <2>1. wait[t].permit = FALSE
    <3>1. ~wait[t].permit
      BY <1>1 DEF AndOK
    <3> QED BY <3>1, Unset DEF Waiting
  <2> QED BY <1>1, <2>1 DEF AndOK
<1>4. Cardinality(y.sat) = y.park_counter
  <2>1. IsFiniteSet(wait[t].sat)
    BY <1>2, ChannelAssumption, FS_Subset
  <2>2. Cardinality(wait[t].sat \cup {c}) = Cardinality(wait[t].sat) + 1
    BY <1>3, <2>1, FS_AddElement
  <2> QED BY <1>3, <2>2
<1>5. (todo[t] \ {c}) \cup y.sat = todo[t] \cup wait[t].sat /\ (todo[t] \ {c}) \cap y.sat = {}
  BY <1>3
<1>6. (y.sat \ y.shut) \cup ran[t] = ((wait[t].sat \ wait[t].shut) \cup ran[t]) \cup {c}
      /\ c \notin (wait[t].sat \ wait[t].shut) \cup ran[t]
  BY <1>3
<1>7. MovedFor(Credit(moved[t], c, {}), (y.sat \ y.shut) \cup ran[t])
  <2>1. PICK R : R = (wait[t].sat \ wait[t].shut) \cup ran[t]
    OBVIOUS
  <2>2. MovedFor(Credit(moved[t], c, {}), R \cup {c})
    BY <1>2, <1>3, <1>6, <2>1, CreditIs
  <2> QED BY <1>6, <2>1, <2>2
<1>8. Cardinality(ran[t]) = 0
  BY <1>3, FS_EmptySet
<1>9. PICK v : v = Credit(moved[t], c, {})
  OBVIOUS
<1>10. Cardinality(y.sat) - y.park_counter <= Cardinality(ran[t]) /\ y.park_counter >= 0
  BY <1>2, <1>3, <1>4, <1>8
<1>11. AndOK("register", call[t], todo[t] \ {c}, a, y, armed[t], ran[t], v, Listed(t))
  BY <1>3, <1>4, <1>5, <1>7, <1>9, <1>10 DEF AndOK, AndPcs
<1> QED BY <1>1, <1>9, <1>11 DEF CallOK
LEMMA TryTransferInv == ASSUME IInv, NEW t \in Threads, TryTransfer(t) PROVE IInv'
<1>1. TypeOK /\ CallInv
  BY DEF IInv
<1> DEFINE c == at[t]
           own == IF c \in todo[t] THEN MadeAvailable(t, c) ELSE wait
<1>2. /\ pc[t] \in {"try", "closed"} /\ lock[c] = None /\ Transfer(t, c, own)
      /\ UNCHANGED <<lock, closed, call, number, at, armed>>
  BY DEF TryTransfer
<1>3. CASE c \in todo[t] /\ call[t].how = "and"
  <2>1. OwnAnd(t)
    BY <1>1, <1>3, KindHow
  <2>2. /\ pc[t] = "closed" /\ c \in ClausesOf(call[t]) /\ c \in Chans /\ wait[t].status = "and"
        /\ MovedFor(moved[t], (wait[t].sat \ wait[t].shut) \cup ran[t])
        /\ c \notin (wait[t].sat \ wait[t].shut) \cup ran[t]
    <3>1. pc[t] = "closed"
      BY <1>2, <2>1 DEF OwnAnd, AndOK, AndPcs
    <3>2. c \in ClausesOf(call[t]) /\ c \in Chans
      BY <3>1, <2>1, ClausesAre DEF OwnAnd, AndOK
    <3> QED BY <1>3, <2>1, <3>1, <3>2 DEF OwnAnd, AndOK
  <2>3. PICK y \in Waiting :
          /\ MadeAvailable(t, c) = Set(wait, t, y)
          /\ y.status = "and" /\ y.sat = wait[t].sat \cup {c} /\ y.park_counter = wait[t].park_counter + 1
          /\ y.shut = wait[t].shut /\ y.permit = wait[t].permit
    BY <1>1, <2>2, MadeIs
  <2>4. own = Set(wait, t, y)
    BY <1>3, <2>3
  <2>5. Transfers(t, c, own, Clause(t, c))
    <3>1. own \in [Threads -> Waiting] /\ \A v \in Threads \ {t} : own[v] = wait[v]
      BY <1>1, <2>4 DEF TypeOK, CallTypeOK, Set
    <3>2. moved[t][c] = 0
      BY <2>2 DEF MovedFor
    <3> QED BY <2>2, <3>1, <3>2 DEF Transfers
  <2>6. \E out : Transferred(t, c, own, out)
    BY <1>2, <2>2, <2>5, TransferIs
  <2>7. TransferComes(t, c, "register", todo[t] \ {c}, at[t], ran[t])
    BY <1>1, <1>2, <1>3, Unset DEF TransferComes, TryTransfer, Goto
  <2>8. CallOK("register", call[t], todo[t] \ {c}, at[t], y, armed[t], ran[t], Credit(moved[t], c, {}), Listed(t))
    BY <1>1, <1>3, <2>1, <2>2, <2>3, AndRegistered
  <2>9. Settled(wait[t]) => Settled(y)
    BY <2>2, <2>3 DEF Settled
  <2>10. /\ todo[t] \ {c} \in SUBSET (Chans \cup {"timeout"}) /\ at[t] \in Chans \cup {None} /\ ran[t] \in SUBSET Chans
         /\ pc[t] \notin {"run", "flush"} /\ "register" \in Pcs /\ "register" \notin Locking /\ lock[c] \in {None, t}
    BY <1>1, <1>2, <2>2, Unset, PcNames DEF Locking
  <2> HIDE DEF own, c
  <2> QED BY <2>2, <2>4, <2>6, <2>7, <2>8, <2>9, <2>10, TransferComesIs
<1>4. CASE ~(c \in todo[t] /\ call[t].how = "and")
  <2> DEFINE p == CASE call[t].how = "or" -> "unregister" [] call[t].how = "and" -> "bodies" [] OTHER -> "end"
             r == ran[t] \cup {c}
  <2>1. c \in Chans /\ MovedFor(moved[t], IF call[t].how = "and" THEN (wait[t].sat \ wait[t].shut) \cup ran[t] ELSE ran[t])
        /\ c \notin (IF call[t].how = "and" THEN (wait[t].sat \ wait[t].shut) \cup ran[t] ELSE ran[t])
    <3>1. CASE OwnPlain(t)
      BY <1>2, <3>1 DEF OwnPlain, PlainOK
    <3>2. CASE OwnOr(t)
      <4>1. pc[t] = "closed"
        BY <1>2, <3>2 DEF OwnOr, OrOK, OrPcs
      <4> QED BY <4>1, <3>2, ClausesAre DEF OwnOr, OrOK
    <3>3. CASE OwnAnd(t)
      <4>1. pc[t] = "closed"
        BY <1>2, <3>3 DEF OwnAnd, AndOK, AndPcs
      <4>2. c \in ClausesOf(call[t]) /\ c \in (wait[t].sat \cap wait[t].shut) \ ran[t]
            /\ MovedFor(moved[t], (wait[t].sat \ wait[t].shut) \cup ran[t])
        BY <1>4, <4>1, <3>3 DEF OwnAnd, AndOK
      <4> QED BY <3>3, <4>2, ClausesAre DEF OwnAnd
    <3> QED BY <1>1, <1>2, <3>1, <3>2, <3>3, KindAt
  <2>2. own = wait
    <3>1. CASE c \in todo[t]
      <4>1. OwnPlain(t) \/ OwnOr(t)
        BY <1>1, <1>2, <1>4, <3>1, KindAt DEF OwnAnd
      <4>2. wait[t].status # "and"
        BY <4>1 DEF OwnPlain, OwnOr, PlainOK, OrOK
      <4> QED BY <4>2 DEF MadeAvailable
    <3> QED BY <3>1
  <2>3. Transfers(t, c, wait, Clause(t, c))
    BY <1>1, <1>2, <2>1 DEF Transfers, MovedFor, TypeOK, CallTypeOK
  <2>4. \E out : Transferred(t, c, wait, out)
    BY <1>2, <2>1, <2>2, <2>3, TransferIs
  <2>5. TransferComes(t, c, p, todo[t], at[t], r)
    BY <1>1, <1>2, <1>4, Unset DEF TransferComes, TryTransfer, Goto, Done
  <2>6. p \in Pcs /\ p \notin Locking
    BY PcNames DEF Locking
  <2>7. CallOK(p, call[t], todo[t], at[t], wait[t], armed[t], r, Credit(moved[t], c, {}), Listed(t))
    <3>1. PICK v : v = Credit(moved[t], c, {})
      OBVIOUS
    <3>2. call[t].how # "and" => MovedFor(v, r)
      BY <1>1, <2>1, <3>1, CreditIs, Unset
    <3>3. CASE OwnPlain(t)
      <4>1. ran[t] = {} /\ p = "end"
        BY <1>2, <3>3 DEF OwnPlain, PlainOK
      <4>2. PlainOK("end", call[t], todo[t], at[t], wait[t], armed[t], r, v, Listed(t))
        <5>1. MovedFor(v, r)
          BY <3>2, <3>3 DEF OwnPlain
        <5> HIDE DEF r
        <5> QED BY <1>2, <3>3, <5>1 DEF OwnPlain, PlainOK, PlainPcs
      <4> QED BY <3>1, <3>3, <4>1, <4>2 DEF CallOK, OwnPlain
    <3>4. CASE OwnOr(t)
      <4>1. pc[t] = "closed" /\ p = "unregister" /\ MovedFor(v, r)
        BY <1>2, <3>2, <3>4 DEF OwnOr, OrOK, OrPcs
      <4> HIDE DEF r, p
      <4>2. OrOK("unregister", call[t], todo[t], at[t], wait[t], armed[t], r, v, Listed(t))
        BY <3>4, <4>1 DEF OwnOr, OrOK, OrPcs
      <4> QED BY <3>1, <3>4, <4>1, <4>2 DEF CallOK, OwnOr
    <3>5. CASE OwnAnd(t)
      <4>1. pc[t] = "closed" /\ p = "bodies" /\ c \notin todo[t]
        BY <1>2, <1>4, <3>5 DEF OwnAnd, AndOK, AndPcs
      <4>2. todo[t] = {} /\ c \in (wait[t].sat \cap wait[t].shut) \ ran[t]
        BY <3>5, <4>1 DEF OwnAnd, AndOK
      <4>3. MovedFor(v, (wait[t].sat \ wait[t].shut) \cup r)
        <5>1. PICK R : R = (wait[t].sat \ wait[t].shut) \cup ran[t]
          OBVIOUS
        <5>2. MovedFor(v, R \cup {c})
          BY <1>1, <2>1, <3>1, <3>5, <5>1, CreditIs, Unset DEF OwnAnd
        <5>3. R \cup {c} = (wait[t].sat \ wait[t].shut) \cup r
          BY <5>1
        <5> QED BY <5>2, <5>3
      <4>4. r \cup wait[t].shut \subseteq wait[t].sat
        BY <3>5, <4>2 DEF OwnAnd, AndOK
      <4> HIDE DEF r, p
      <4>5. AndOK("bodies", call[t], todo[t], at[t], wait[t], armed[t], r, v, Listed(t))
        BY <3>5, <4>1, <4>2, <4>3, <4>4 DEF OwnAnd, AndOK, AndPcs
      <4> QED BY <3>1, <3>5, <4>1, <4>5 DEF CallOK, OwnAnd
    <3> QED BY <1>1, <1>2, <3>3, <3>4, <3>5, KindAt
  <2>8. /\ todo[t] \in SUBSET (Chans \cup {"timeout"}) /\ at[t] \in Chans \cup {None} /\ r \in SUBSET Chans
        /\ pc[t] \notin {"run", "flush"} /\ lock[c] \in {None, t} /\ wait[t] \in Waiting
        /\ wait = Set(wait, t, wait[t])
    BY <1>1, <1>2, <2>1, Unset
  <2> HIDE DEF r, p, c
  <2> QED BY <2>1, <2>4, <2>5, <2>6, <2>7, <2>8, TransferComesIs
<1> QED BY <1>3, <1>4

\* Whoever transfers can.
LEMMA CanIs ==
  ASSUME TypeOK, QueueInv, NEW t, NEW c \in Chans, NEW w, Transfer(t, c, w) PROVE CanComplete(t, c)
<1>1. /\ prods[c] \in Seq(Threads) /\ cons[c] \in Seq(Threads) /\ buffer[c] \in Seq(Element)
      /\ IsInjective(prods[c]) /\ IsInjective(cons[c])
  BY DEF TypeOK, ChannelTypeOK, QueueInv
<1>2. /\ Live(cons[c]) # <<>> => cons[c] # <<>>
      /\ Live(prods[c]) # <<>> => prods[c] # <<>>
      /\ buffer[c] # <<>> => Len(buffer[c]) # 0
  <2>1. /\ Live(cons[c]) # <<>> => Live(cons[c])[1] \in ToSet(cons[c])
        /\ Live(prods[c]) # <<>> => Live(prods[c])[1] \in ToSet(prods[c])
    BY <1>1, LiveKept
  <2>2. (cons[c] = <<>> => ToSet(cons[c]) = {}) /\ (prods[c] = <<>> => ToSet(prods[c]) = {})
    BY <1>1, SeqFacts
  <2>3. buffer[c] # <<>> => Len(buffer[c]) # 0
    BY <1>1, SeqFacts
  <2> QED BY <2>1, <2>2, <2>3
<1>3. Size[c] \in Nat /\ Len(buffer[c]) \in Nat
  BY <1>1, ChannelAssumption, LenProperties
<1>4. CASE Clause(t, c) = "insert"
  BY <1>2, <1>3, <1>4 DEF Transfer, ConsHandoff, BufInsert, CanComplete, Others
<1>5. CASE Clause(t, c) = "remove"
  BY <1>2, <1>5 DEF Transfer, ProdsHandoff, BufRemove, BufRefill, CanComplete, Others
<1> QED BY <1>4, <1>5 DEF Transfer
\* A waituntil that goes on has not lost.
LEMMA NotLost ==
  ASSUME NEW t, NEW c, call[t].how = "or", CanComplete(t, c), ~RaceLost(t, c)
  PROVE  ~Settled(wait[t]) /\ Raced(t, c) = Own(t, c)
BY DecidedIs DEF RaceLost, Raced

\* The status of an or-waituntil that goes to win channel c, or an else.
LEMMA OrWins ==
  ASSUME IInv, NEW t \in Threads, OwnOr(t), ~Settled(wait[t]), NEW c \in Chans, NEW s \in Status, s \in {c, "SAT"}
  PROVE  \E y \in Waiting :
           /\ Own(t, s) = Set(wait, t, y) /\ Settled(y)
           /\ Transfers(t, c, Own(t, s), Clause(t, c))
           /\ CallOK("unregister", call[t], todo[t], at[t], y, armed[t], {c}, Credit(moved[t], c, {}), Listed(t))
<1>1. TypeOK
  BY DEF IInv
<1>2. PICK y \in Waiting :
        /\ Own(t, s) = Set(wait, t, y) /\ Own(t, s) \in [Threads -> Waiting]
        /\ \A v \in Threads \ {t} : Own(t, s)[v] = wait[v]
        /\ y.status = s /\ y.sat = wait[t].sat /\ y.shut = wait[t].shut /\ y.permit = wait[t].permit
  BY <1>1, OwnIs
<1>3. Settled(y)
  BY <1>2, ChanNames DEF Settled
<1>4. /\ pc[t] \in {"register", "pending", "yielded", "race", "parked"} /\ ~wait[t].permit /\ ran[t] = {}
      /\ MovedFor(moved[t], {})
  BY DEF OwnOr, OrOK
<1>5. MovedFor(Credit(moved[t], c, {}), {c}) /\ moved[t][c] = 0
  <2>1. MovedFor(Credit(moved[t], c, {}), {} \cup {c})
    BY <1>1, <1>4, CreditIs, Unset
  <2> QED BY <2>1, <1>4 DEF MovedFor
<1>6. Transfers(t, c, Own(t, s), Clause(t, c))
  BY <1>2, <1>4, <1>5 DEF Transfers
<1>7. PICK v : v = Credit(moved[t], c, {})
  OBVIOUS
<1>8. OrOK("unregister", call[t], todo[t], at[t], y, armed[t], {c}, v, Listed(t))
  BY <1>2, <1>3, <1>4, <1>5, <1>7, ChanNames DEF OwnOr, OrOK, OrPcs, Settled
<1>9. CallOK("unregister", call[t], todo[t], at[t], y, armed[t], {c}, v, Listed(t))
  BY <1>8 DEF CallOK, OwnOr
<1> QED BY <1>2, <1>3, <1>6, <1>7, <1>9

\* The lock that register_select takes, or takes over from a pending waituntil.
Within(t, c) ==
  /\ \/ pc[t] = "register" /\ c \in todo[t] /\ lock[c] = None /\ ~BothSpecial(t, c) /\ lock' = lock
     \/ pc[t] = "race" /\ c = at[t] /\ lock' = Set(lock, c, None)

LEMMA WithinIs ==
  ASSUME IInv, NEW t \in Threads, NEW c \in Chans, Within(t, c)
  PROVE  /\ OwnOr(t) \/ (OwnAnd(t) /\ pc[t] = "register")
         /\ c \in ClausesOf(call[t]) \cap todo[t]
         /\ lock[c] \in {None, t} /\ (lock' = lock \/ lock' = Set(lock, c, None))
         /\ lock' \in [Chans -> Threads \cup {None}] /\ Holds(t, c) /\ pc[t] \in {"register", "race"}
         /\ t \notin ToSet(prods[c]) \cup ToSet(cons[c])
<1>1. TypeOK /\ CallInv /\ LockInv
  BY DEF IInv
<1>2. OwnOr(t) \/ (OwnAnd(t) /\ pc[t] = "register")
  BY <1>1, KindAt DEF Within
<1>3. c \in ClausesOf(call[t]) \cap todo[t] /\ c \notin Listed(t)
  <2>1. CASE pc[t] = "register"
    <3>1. c \in todo[t]
      BY <2>1 DEF Within
    <3>2. todo[t] \subseteq ClausesOf(call[t]) \cup {"timeout"} /\ Listed(t) \subseteq ClausesOf(call[t]) \ todo[t]
      BY <1>2 DEF OwnOr, OwnAnd, OrOK, AndOK
    <3> QED BY <3>1, <3>2, ChanNames
  <2>2. CASE pc[t] # "register"
    <3>1. pc[t] = "race" /\ c = at[t] /\ OwnOr(t)
      BY <1>2, <2>2 DEF Within
    <3> QED BY <3>1 DEF OwnOr, OrOK
  <2> QED BY <2>1, <2>2
<1>4. lock[c] \in {None, t} /\ (lock' = lock \/ lock' = Set(lock, c, None)) /\ pc[t] \in {"register", "race"}
  <2>1. pc[t] = "race" => lock[at[t]] = t
    BY <1>1 DEF LockInv, LockOK, Locking
  <2> QED BY <2>1 DEF Within
<1>5. lock' \in [Chans -> Threads \cup {None}] /\ Holds(t, c)
  BY <1>1, <1>4 DEF TypeOK, ChannelTypeOK, Set, Holds
<1> QED BY <1>2, <1>3, <1>4, <1>5 DEF Listed

LEMMA CompleteInv ==
  ASSUME IInv, NEW t \in Threads, NEW c \in Chans, Within(t, c), Complete(t, c)
  PROVE  IInv'
<1>1. TypeOK /\ CallInv /\ QueueInv
  BY DEF IInv
<1>2. /\ OwnOr(t) \/ (OwnAnd(t) /\ pc[t] = "register")
      /\ c \in ClausesOf(call[t]) \cap todo[t]
      /\ lock[c] \in {None, t} /\ (lock' = lock \/ lock' = Set(lock, c, None)) /\ pc[t] \in {"register", "race"}
  BY WithinIs
<1>3. ~RaceLost(t, c) /\ UNCHANGED <<closed, call, number, armed>>
  BY DEF Complete
<1>4. CASE call[t].how = "and"
  <2>1. /\ Transfer(t, c, MadeAvailable(t, c)) /\ NextClause(t, c) /\ ran' = ran
        /\ OwnAnd(t) /\ pc[t] = "register"
    BY <1>2, <1>4 DEF Complete, OwnOr
  <2>2. /\ wait[t].status = "and"
        /\ MovedFor(moved[t], (wait[t].sat \ wait[t].shut) \cup ran[t])
        /\ c \notin (wait[t].sat \ wait[t].shut) \cup ran[t]
    BY <1>2, <2>1 DEF OwnAnd, AndOK
  <2>3. PICK y \in Waiting :
          /\ MadeAvailable(t, c) = Set(wait, t, y)
          /\ y.status = "and" /\ y.sat = wait[t].sat \cup {c} /\ y.park_counter = wait[t].park_counter + 1
          /\ y.shut = wait[t].shut /\ y.permit = wait[t].permit
    BY <1>1, <2>2, MadeIs
  <2>4. PICK w : w = MadeAvailable(t, c)
    OBVIOUS
  <2>5. Transfers(t, c, w, Clause(t, c))
    <3>1. w \in [Threads -> Waiting] /\ \A v \in Threads \ {t} : w[v] = wait[v]
      BY <1>1, <2>3, <2>4 DEF TypeOK, CallTypeOK, Set
    <3>2. moved[t][c] = 0
      BY <2>2 DEF MovedFor
    <3> QED BY <2>1, <3>1, <3>2 DEF Transfers
  <2>6. \E out : Transferred(t, c, w, out)
    BY <2>1, <2>4, <2>5, TransferIs
  <2>7. TransferComes(t, c, "register", todo[t] \ {c}, None, ran[t])
    BY <1>1, <1>2, <1>3, <2>1, Unset DEF TransferComes, NextClause, Goto
  <2>8. CallOK("register", call[t], todo[t] \ {c}, None, y, armed[t], ran[t], Credit(moved[t], c, {}), Listed(t))
    BY <1>1, <1>2, <2>1, <2>3, AndRegistered
  <2>9. Settled(wait[t]) => Settled(y)
    BY <2>2, <2>3 DEF Settled
  <2>10. /\ todo[t] \ {c} \in SUBSET (Chans \cup {"timeout"}) /\ None \in Chans \cup {None} /\ ran[t] \in SUBSET Chans
         /\ pc[t] \notin {"run", "flush"} /\ "register" \in Pcs /\ "register" \notin Locking
    BY <1>1, <1>2, Unset, PcNames DEF Locking
  <2> QED BY <1>2, <2>3, <2>4, <2>6, <2>7, <2>8, <2>9, <2>10, TransferComesIs
<1>5. CASE call[t].how # "and"
  <2>1. OwnOr(t) /\ call[t].how = "or"
    BY <1>2, <1>5 DEF OwnAnd, OwnOr
  <2>2. /\ Transfer(t, c, Raced(t, c)) /\ Goto(t, "unregister") /\ ran' = Set(ran, t, {c})
        /\ UNCHANGED <<todo, at>>
    BY <1>5 DEF Complete
  <2>3. ~Settled(wait[t]) /\ Raced(t, c) = Own(t, c)
    BY <1>1, <1>3, <2>1, <2>2, CanIs, NotLost
  <2>4. PICK y \in Waiting :
          /\ Own(t, c) = Set(wait, t, y) /\ Settled(y)
          /\ Transfers(t, c, Own(t, c), Clause(t, c))
          /\ CallOK("unregister", call[t], todo[t], at[t], y, armed[t], {c}, Credit(moved[t], c, {}), Listed(t))
    BY <2>1, <2>3, OrWins, StatusNames
  <2>5. \E out : Transferred(t, c, Own(t, c), out)
    BY <2>2, <2>3, <2>4, TransferIs
  <2>6. TransferComes(t, c, "unregister", todo[t], at[t], {c})
    BY <1>1, <1>2, <1>3, <2>2, Unset DEF TransferComes, Goto
  <2>7. /\ todo[t] \in SUBSET (Chans \cup {"timeout"}) /\ at[t] \in Chans \cup {None} /\ {c} \in SUBSET Chans
        /\ pc[t] \notin {"run", "flush"} /\ "unregister" \in Pcs /\ "unregister" \notin Locking
    BY <1>1, <1>2, Unset, PcNames DEF Locking
  <2> QED BY <1>2, <2>3, <2>4, <2>5, <2>6, <2>7, TransferComesIs
<1> QED BY <1>4, <1>5

LEMMA PendingWinsInv == ASSUME IInv, NEW t \in Threads, PendingWins(t) PROVE IInv'
<1>1. TypeOK /\ CallInv /\ LockInv
  BY DEF IInv
<1> DEFINE c == at[t]
<1>2. OwnOr(t) /\ pc[t] = "pending"
  BY <1>1, KindAt DEF PendingWins
<1>3. /\ Handoff(t, c, Own(t, "SAT")) /\ lock' = Set(lock, c, None) /\ Goto(t, "unregister")
      /\ ran' = Set(ran, t, {c}) /\ UNCHANGED <<closed, call, number, todo, at, armed>>
  BY DEF PendingWins
<1>4. c \in Chans /\ c \in ClausesOf(call[t]) /\ ~Settled(wait[t])
  BY <1>2, ClausesAre DEF OwnOr, OrOK, Settled
<1>5. lock[c] = t
  BY <1>1, <1>2 DEF LockInv, LockOK, Locking
<1>6. PICK y \in Waiting :
        /\ Own(t, "SAT") = Set(wait, t, y) /\ Settled(y)
        /\ Transfers(t, c, Own(t, "SAT"), Clause(t, c))
        /\ CallOK("unregister", call[t], todo[t], at[t], y, armed[t], {c}, Credit(moved[t], c, {}), Listed(t))
  BY <1>2, <1>4, OrWins, StatusNames
<1>7. Clause(t, c) \in {"insert", "remove"}
  BY <1>1, <1>4, SidesAre
<1>8. \E out : Transferred(t, c, Own(t, "SAT"), out)
  BY <1>3, <1>4, <1>6, <1>7, HandoffIs
<1>9. TransferComes(t, c, "unregister", todo[t], at[t], {c})
  BY <1>1, <1>3, Unset DEF TransferComes, Goto
<1>10. /\ todo[t] \in SUBSET (Chans \cup {"timeout"}) /\ at[t] \in Chans \cup {None} /\ {c} \in SUBSET Chans
       /\ pc[t] \notin {"run", "flush"} /\ "unregister" \in Pcs /\ "unregister" \notin Locking
  BY <1>1, <1>2, <1>4, Unset, PcNames DEF Locking
<1> HIDE DEF c
<1> QED BY <1>4, <1>5, <1>6, <1>8, <1>9, <1>10, TransferComesIs
-----------------------------------------------------------------------------
(* Steps that change queues, and transfer nothing.                         *)

(* t comes to p with the rest of its state as given, by a step at c that    *)
(* may reach those of out by a close.                                      *)
QuietComes(t, c, out, p, d, a) ==
  /\ pc' = Set(pc, t, p) /\ todo' = Set(todo, t, d) /\ at' = Set(at, t, a)
  /\ ran' = ran /\ armed' = armed /\ call' = call /\ number' = number
  /\ buffer' = buffer /\ moved' = moved /\ last' = last /\ overtaken' = overtaken
  /\ Wait(out, t, c) /\ QueuesStep(t, c, out)
  /\ wait' \in [Threads -> Waiting]
  /\ \A v \in Threads \ {t} : wait'[v] = IF v \in out THEN Reached(wait[v], c, {c}) ELSE wait[v]

LEMMA QuietComesIs ==
  ASSUME IInv, NEW t \in Threads, NEW c \in Chans, NEW out, NEW p \in Pcs,
         NEW d \in SUBSET (Chans \cup {"timeout"}), NEW a \in Chans \cup {None}, QuietComes(t, c, out, p, d, a),
         Holds(t, c), lock' \in [Chans -> Threads \cup {None}], closed' \in [Chans -> BOOLEAN],
         \A x \in Chans \ {c} : closed'[x] = closed[x],
         pc[t] # "run", pc[t] = "flush" => at[t] = c, StaysWon(t),
         t \in ToSet(prods'[c]) => Clause(t, c) = "insert",
         t \in ToSet(cons'[c]) => Clause(t, c) = "remove",
         MatchAt(c)', p \in Locking => LockOK(t)',
         CallOK(p, call[t], d, a, wait'[t], armed[t], ran[t], moved[t], Listed(t)')
  PROVE  IInv'
<1>1. TypeOK
  BY DEF IInv
<1>2. /\ pc' \in [Threads -> Pcs] /\ pc'[t] = p /\ \A v \in Threads \ {t} : pc'[v] = pc[v]
  BY <1>1 DEF QuietComes, TypeOK, CallTypeOK, Set
<1>3. /\ todo' \in [Threads -> SUBSET (Chans \cup {"timeout"})] /\ todo'[t] = d
      /\ \A v \in Threads \ {t} : todo'[v] = todo[v]
  BY <1>1 DEF QuietComes, TypeOK, CallTypeOK, Set
<1>4. /\ at' \in [Threads -> Chans \cup {None}] /\ at'[t] = a /\ \A v \in Threads \ {t} : at'[v] = at[v]
  BY <1>1 DEF QuietComes, TypeOK, CallTypeOK, Set
<1>5. /\ ran' = ran /\ armed' = armed /\ call' = call /\ number' = number
      /\ buffer' = buffer /\ moved' = moved /\ last' = last /\ overtaken' = overtaken
  BY DEF QuietComes
<1>6. CallTypeOK'
  BY <1>1, <1>2, <1>3, <1>4, <1>5 DEF TypeOK, CallTypeOK, QuietComes
<1>7. Still(t)
  BY <1>2, <1>3, <1>4, <1>5 DEF Still
<1>8. Acts(t, c, out, {c})
  BY <1>5, <1>7 DEF QuietComes, Acts, Credit
<1>9. Quiet(t, c, out, {c})
  BY <1>5, <1>8 DEF Quiet
<1>10. OwnOK(t)'
  BY <1>2, <1>3, <1>4, <1>5 DEF OwnOK
<1>11. LockOK(t)'
  <2>1. CASE p \notin Locking
    BY <1>2, <2>1 DEF LockOK, Locking
  <2> QED BY <2>1
<1> QED BY <1>6, <1>9, <1>10, <1>11, QuietInv

\* Nobody is reached.
LEMMA NobodyWaits == ASSUME NEW t \in Threads, NEW c PROVE Wait({}, t, c)
BY DEF Wait

\* What holds at c while it is neither closed nor come to.
LEMMA MatchKept ==
  ASSUME TypeOK, MatchInv, NEW t \in Threads, NEW c \in Chans, NEW out, NEW p, NEW d, NEW a, p \in Pcs,
         a \in Chans \cup {None},
         QuietComes(t, c, out, p, d, a), StaysWon(t), SelfListed(t, c), closed' = closed,
         pc[t] = "flush" => p = "flush" /\ a = at[t]
  PROVE  MatchAt(c)'
<1>1. Acts(t, c, out, {c})
  BY DEF QuietComes, Acts, Still, Credit, TypeOK, CallTypeOK, Set
<1>2. (SomeWait(prods[c])' => SomeWait(prods[c])) /\ (SomeWait(cons[c])' => SomeWait(cons[c]))
  BY <1>1, SomeWaited DEF SelfListed
<1>3. (\E u \in Threads : pc[u] = "flush" /\ at[u] = c) => \E u \in Threads : pc'[u] = "flush" /\ at'[u] = c
  <2>1. pc'[t] = p /\ at'[t] = a
    BY DEF QuietComes, TypeOK, CallTypeOK, Set
  <2>2. pc[t] = "flush" /\ at[t] = c => pc'[t] = "flush" /\ at'[t] = c
    BY <2>1
  <2> QED BY <1>1, <2>2, FlushGoesOn
<1>4. MatchAt(c)
  BY MatchIs
<1>5. buffer' = buffer
  BY DEF QuietComes
<1> QED BY <1>2, <1>3, <1>4, <1>5 DEF MatchAt

\* Queues where all have been won may be emptied.
LEMMA EmptyKept ==
  ASSUME NEW q \in Seq(Threads), IsInjective(q), Live(q) = <<>>
  PROVE  Kept(q, <<>>, {}) /\ \A u \in ToSet(q) : Settled(wait[u])
<1>1. \A u \in ToSet(q) : Decided(u)
  BY LiveKept
<1>2. <<>> \in Seq(Threads) /\ IsInjective(<<>>) /\ ToSet(<<>>) = {}
  BY EmptyFacts
<1> QED BY <1>1, <1>2, DecidedIs DEF Kept

LEMMA QueueFacts ==
  ASSUME TypeOK, QueueInv, NEW c \in Chans
  PROVE  /\ prods \in [Chans -> Seq(Threads)] /\ cons \in [Chans -> Seq(Threads)]
         /\ prods[c] \in Seq(Threads) /\ IsInjective(prods[c])
         /\ cons[c] \in Seq(Threads) /\ IsInjective(cons[c])
         /\ buffer[c] \in Seq(Element) /\ Size[c] \in Nat
         /\ closed \in [Chans -> BOOLEAN] /\ lock \in [Chans -> Threads \cup {None}]
BY ChannelAssumption DEF TypeOK, ChannelTypeOK, QueueInv

LEMMA DrainIs ==
  ASSUME TypeOK, QueueInv, NEW t \in Threads, NEW c \in Chans, MustWait(t, c), Drain(t, c)
  PROVE  QueuesStep(t, c, {}) /\ SelfListed(t, c)
<1>1. {} \in SUBSET ToSet(cons[c]) /\ {} \in SUBSET ToSet(prods[c])
  OBVIOUS
<1>2. CASE Clause(t, c) = "insert"
  <2>1. cons' = Set(cons, c, <<>>) /\ prods' = prods /\ Live(cons[c]) = <<>>
    BY <1>2 DEF MustWait, Drain
  <2>2. Kept(cons[c], <<>>, {})
    BY <2>1, EmptyKept, QueueFacts
  <2>3. t \notin ToSet(cons[c])
    BY <1>2, OneSide
  <2> QED BY <1>1, <2>1, <2>2, <2>3, ShorterCons
<1>3. CASE Clause(t, c) = "remove" /\ Size[c] = 0
  <2>1. prods' = Set(prods, c, <<>>) /\ cons' = cons /\ Live(prods[c]) = <<>>
    BY <1>3 DEF MustWait, Drain
  <2>2. Kept(prods[c], <<>>, {})
    BY <2>1, EmptyKept, QueueFacts
  <2>3. t \notin ToSet(prods[c])
    BY <1>3, OneSide
  <2> QED BY <1>1, <2>1, <2>2, <2>3, ShorterProds
<1>4. CASE Clause(t, c) # "insert" /\ ~(Clause(t, c) = "remove" /\ Size[c] = 0)
  <2>1. cons' = cons /\ prods' = prods
    BY <1>4 DEF Drain
  <2> QED BY <2>1, SameQueues
<1> QED BY <1>2, <1>3, <1>4

\* t goes on the queue of its side.
LEMMA BlockIs ==
  ASSUME TypeOK, QueueInv, MatchInv, NEW t \in Threads, NEW c \in Chans, MustWait(t, c), Block(t, c),
         Clause(t, c) \in {"insert", "remove"}, t \notin ToSet(prods[c]) \cup ToSet(cons[c])
  PROVE  /\ QueuesStep(t, c, {})
         /\ t \in ToSet(prods'[c]) => Clause(t, c) = "insert"
         /\ t \in ToSet(cons'[c]) => Clause(t, c) = "remove"
         /\ Listed(t)' = Listed(t) \cup {c}
         /\ Clause(t, c) = "insert" => ToSet(cons'[c]) = {} /\ Len(buffer[c]) = Size[c]
         /\ Clause(t, c) = "remove" => /\ buffer[c] = <<>> /\ ~SomeWait(prods[c])
                                       /\ prods'[c] = prods[c] \/ ToSet(prods'[c]) = {}
<1>1. /\ prods[c] \in Seq(Threads) /\ IsInjective(prods[c]) /\ cons[c] \in Seq(Threads) /\ IsInjective(cons[c])
      /\ prods \in [Chans -> Seq(Threads)] /\ cons \in [Chans -> Seq(Threads)] /\ Size[c] \in Nat
      /\ buffer[c] \in Seq(Element)
  BY QueueFacts
<1>2. <<>> \in Seq(Threads) /\ ToSet(<<>>) = {} /\ IsInjective(<<>>)
  BY EmptyFacts
<1>3. CASE Clause(t, c) = "insert"
  <2>1. /\ cons' = Set(cons, c, <<>>) /\ prods' = Set(prods, c, Append(prods[c], t))
        /\ Live(cons[c]) = <<>> /\ Len(buffer[c]) = Size[c]
    BY <1>3 DEF MustWait, Block
  <2>2. PICK q \in Seq(Threads) : q = Append(prods[c], t)
    BY <1>1, AppendSet
  <2>3. IsInjective(q) /\ ToSet(q) = ToSet(prods[c]) \cup {t}
    BY <1>1, <2>2, AppendSet
  <2>4. /\ prods' \in [Chans -> Seq(Threads)] /\ cons' \in [Chans -> Seq(Threads)]
        /\ prods'[c] = q /\ cons'[c] = <<>>
        /\ \A x \in Chans \ {c} : prods'[x] = prods[x] /\ cons'[x] = cons[x]
    BY <1>1, <1>2, <2>1, <2>2 DEF Set
  <2>5. KeptBut(prods[c], prods'[c], t, {})
    BY <2>3, <2>4 DEF KeptBut
  <2>6. KeptBut(cons[c], cons'[c], t, {})
    BY <1>1, <2>1, <2>4, EmptyKept, KeptIsKeptBut
  <2>7. Listed(t)' = Listed(t) \cup {c}
    BY <1>2, <2>3, <2>4 DEF Listed
  <2> QED BY <1>2, <1>3, <2>1, <2>4, <2>5, <2>6, <2>7 DEF QueuesStep
<1>4. CASE Clause(t, c) = "remove"
  <2> DEFINE r == IF Size[c] = 0 THEN <<>> ELSE prods[c]
  <2>1. /\ cons' = Set(cons, c, Append(cons[c], t)) /\ prods' = Set(prods, c, r)
        /\ buffer[c] = <<>> /\ (Size[c] = 0 => Live(prods[c]) = <<>>)
    BY <1>1, <1>4 DEF MustWait, Block, Set
  <2>2. PICK q \in Seq(Threads) : q = Append(cons[c], t)
    BY <1>1, AppendSet
  <2>3. IsInjective(q) /\ ToSet(q) = ToSet(cons[c]) \cup {t}
    BY <1>1, <2>2, AppendSet
  <2>4. Kept(prods[c], r, {})
    BY <1>1, <2>1, EmptyKept, KeptSame
  <2>5. /\ prods' \in [Chans -> Seq(Threads)] /\ cons' \in [Chans -> Seq(Threads)]
        /\ prods'[c] = r /\ cons'[c] = q
        /\ \A x \in Chans \ {c} : prods'[x] = prods[x] /\ cons'[x] = cons[x]
    BY <1>1, <1>2, <2>1, <2>2 DEF Set
  <2>6. KeptBut(cons[c], cons'[c], t, {})
    BY <2>3, <2>5 DEF KeptBut
  <2>7. KeptBut(prods[c], prods'[c], t, {})
    BY <2>4, <2>5, KeptIsKeptBut
  <2>8. t \notin ToSet(prods'[c])
    BY <1>2, <2>5
  <2>9. Listed(t)' = Listed(t) \cup {c}
    BY <2>3, <2>5, <2>8 DEF Listed
  <2>10. ~SomeWait(prods[c])
    <3>1. CASE Size[c] = 0
      BY <1>1, <2>1, <3>1, EmptyKept DEF SomeWait
    <3>2. CASE Size[c] # 0
      <4>1. Len(buffer[c]) # Size[c]
        BY <1>1, <2>1, <3>2, SeqFacts
      <4> QED BY <4>1 DEF MatchInv
    <3> QED BY <3>1, <3>2
  <2>11. prods'[c] = prods[c] \/ ToSet(prods'[c]) = {}
    BY <1>2, <2>5
  <2> QED BY <1>4, <2>1, <2>5, <2>6, <2>7, <2>8, <2>9, <2>10, <2>11 DEF QueuesStep
<1> QED BY <1>3, <1>4
LEMMA BlockMatch ==
  ASSUME TypeOK, QueueInv, MatchInv, NEW t \in Threads, NEW c \in Chans, MustWait(t, c), Block(t, c),
         Clause(t, c) \in {"insert", "remove"}, t \notin ToSet(prods[c]) \cup ToSet(cons[c]),
         NEW p, NEW d, NEW a, QuietComes(t, c, {}, p, d, a), StaysWon(t), closed' = closed, ~closed[c]
  PROVE  MatchAt(c)'
<1>1. Acts(t, c, {}, {c})
  BY DEF QuietComes, Acts, Still, Credit, TypeOK, CallTypeOK, Set
<1>2. buffer' = buffer /\ ~closed'[c]
  BY DEF QuietComes
<1>3. CASE Clause(t, c) = "insert"
  <2>1. ToSet(cons'[c]) = {} /\ Len(buffer[c]) = Size[c]
    BY <1>3, BlockIs
  <2>2. ~SomeWait(cons[c])'
    BY <2>1 DEF SomeWait
  <2> QED BY <1>2, <2>1, <2>2 DEF MatchAt
<1>4. CASE Clause(t, c) = "remove"
  <2>1. buffer[c] = <<>> /\ ~SomeWait(prods[c]) /\ (prods'[c] = prods[c] \/ ToSet(prods'[c]) = {})
    BY <1>4, BlockIs
  <2>2. ~SomeWait(prods[c])'
    <3>1. CASE ToSet(prods'[c]) = {}
      BY <3>1 DEF SomeWait
    <3>2. CASE prods'[c] = prods[c]
      BY <1>1, <2>1, <3>2, SomeWaited
    <3> QED BY <2>1, <3>1, <3>2
  <2> QED BY <1>2, <2>1, <2>2 DEF MatchAt
<1> QED BY <1>3, <1>4

LEMMA BlockWaitInv == ASSUME IInv, NEW t \in Threads, BlockWait(t) PROVE IInv'
<1>1. TypeOK /\ CallInv /\ QueueInv /\ MatchInv
  BY DEF IInv
<1>2. PICK c : c = at[t]
  OBVIOUS
<1>3. OwnPlain(t) /\ pc[t] = "block"
  BY <1>1, KindAt DEF BlockWait
<1>4. /\ lock[c] = None /\ ~closed[c] /\ MustWait(t, c) /\ Block(t, c) /\ Goto(t, "parked")
      /\ UNCHANGED <<lock, closed, buffer, call, number, todo, at, wait, armed, ran, tallies>>
  BY <1>2 DEF BlockWait
<1>5. c \in Chans /\ ClausesOf(call[t]) = {c} /\ Listed(t) = {}
  BY <1>2, <1>3 DEF OwnPlain, PlainOK
<1>6. Clause(t, c) \in {"insert", "remove"} /\ t \notin ToSet(prods[c]) \cup ToSet(cons[c])
  BY <1>1, <1>5, SidesAre DEF Listed
<1>7. /\ QueuesStep(t, c, {})
      /\ t \in ToSet(prods'[c]) => Clause(t, c) = "insert"
      /\ t \in ToSet(cons'[c]) => Clause(t, c) = "remove"
      /\ Listed(t)' = {c}
  BY <1>1, <1>4, <1>5, <1>6, BlockIs
<1>8. QuietComes(t, c, {}, "parked", todo[t], at[t])
  BY <1>1, <1>4, <1>7, Unset, NobodyWaits DEF QuietComes, Goto, tallies, TypeOK, CallTypeOK
<1>9. StaysWon(t) /\ wait'[t] = wait[t]
  BY <1>4 DEF StaysWon, Settled
<1>10. MatchAt(c)'
  BY <1>1, <1>4, <1>5, <1>6, <1>8, <1>9, BlockMatch
<1>11. CallOK("parked", call[t], todo[t], at[t], wait'[t], armed[t], ran[t], moved[t], Listed(t)')
  <2>1. wait[t].permit = FALSE
    BY <1>1, <1>3, Unset DEF OwnPlain, PlainOK, Waiting
  <2>2. PlainOK("parked", call[t], todo[t], at[t], wait[t], armed[t], ran[t], moved[t], {c})
    BY <1>2, <1>3, <2>1 DEF OwnPlain, PlainOK, PlainPcs
  <2> QED BY <1>3, <1>7, <1>9, <2>2 DEF CallOK, OwnPlain
<1>12. /\ Holds(t, c) /\ lock' \in [Chans -> Threads \cup {None}] /\ closed' \in [Chans -> BOOLEAN]
       /\ \A x \in Chans \ {c} : closed'[x] = closed[x]
  BY <1>1, <1>4 DEF Holds, TypeOK, ChannelTypeOK
<1>13. todo[t] \in SUBSET (Chans \cup {"timeout"}) /\ at[t] \in Chans \cup {None}
       /\ "parked" \in Pcs /\ "parked" \notin Locking
  BY <1>1, Unset, PcNames DEF Locking
<1> QED BY <1>3, <1>5, <1>7, <1>8, <1>9, <1>10, <1>11, <1>12, <1>13, QuietComesIs

\* A call that is left with an exception, with fewer nodes listed.
LEMMA LeaveOK ==
  ASSUME CallInv, NEW t \in Threads, pc[t] \in {"try", "closed"}, NEW L \in SUBSET Listed(t)
  PROVE  CallOK(IF call[t].how \in {"or", "and"} THEN "thrown" ELSE "end",
                call[t], todo[t], at[t], wait[t], armed[t], ran[t], moved[t], L)
<1>1. OwnPlain(t) \/ OwnOr(t) \/ OwnAnd(t)
  BY KindAt
<1>2. CASE OwnPlain(t)
  <2>1. PlainOK("end", call[t], todo[t], at[t], wait[t], armed[t], ran[t], moved[t], L)
    BY <1>2 DEF OwnPlain, PlainOK, PlainPcs
  <2> QED BY <1>2, <2>1 DEF CallOK, OwnPlain
<1>3. CASE OwnOr(t)
  <2>1. OrOK("thrown", call[t], todo[t], at[t], wait[t], armed[t], ran[t], moved[t], L)
    <3>1. pc[t] = "closed" /\ L \subseteq ClausesOf(call[t]) \ todo[t]
      BY <1>3 DEF OwnOr, OrOK, OrPcs
    <3> QED BY <1>3, <3>1 DEF OwnOr, OrOK, OrPcs
  <2> QED BY <1>3, <2>1 DEF CallOK, OwnOr
<1>4. CASE OwnAnd(t)
  <2>1. AndOK("thrown", call[t], todo[t], at[t], wait[t], armed[t], ran[t], moved[t], L)
    <3>1. pc[t] = "closed" /\ L \subseteq ClausesOf(call[t]) \ (todo[t] \cup wait[t].sat)
      BY <1>4 DEF OwnAnd, AndOK, AndPcs
    <3> QED BY <1>4, <3>1 DEF OwnAnd, AndOK, AndPcs
  <2> QED BY <1>4, <2>1 DEF CallOK, OwnAnd
<1> QED BY <1>1, <1>2, <1>3, <1>4

LEMMA TryFailsInv == ASSUME IInv, NEW t \in Threads, TryFails(t) PROVE IInv'
<1>1. TypeOK /\ CallInv /\ QueueInv /\ MatchInv
  BY DEF IInv
<1>2. PICK c : c = at[t]
  OBVIOUS
<1> DEFINE p == IF call[t].how \in {"or", "and"} THEN "thrown" ELSE "end"
<1>3. /\ pc[t] \in {"try", "closed"} /\ lock[c] = None /\ MustWait(t, c) /\ Drain(t, c) /\ Goto(t, p)
      /\ UNCHANGED <<lock, closed, buffer, call, number, todo, at, wait, armed, ran, tallies>>
  BY <1>2 DEF TryFails, Leave
<1>4. c \in Chans
  <2>1. CASE OwnPlain(t)
    BY <1>2, <2>1 DEF OwnPlain, PlainOK
  <2>2. CASE OwnOr(t)
    <3>1. pc[t] = "closed"
      BY <1>3, <2>2 DEF OwnOr, OrOK, OrPcs
    <3> QED BY <1>2, <2>2, <3>1, ClausesAre DEF OwnOr, OrOK
  <2>3. CASE OwnAnd(t)
    <3>1. pc[t] = "closed"
      BY <1>3, <2>3 DEF OwnAnd, AndOK, AndPcs
    <3> QED BY <1>2, <2>3, <3>1, ClausesAre DEF OwnAnd, AndOK
  <2> QED BY <1>1, <1>3, <2>1, <2>2, <2>3, KindAt
<1>5. QueuesStep(t, c, {}) /\ SelfListed(t, c)
  BY <1>1, <1>3, <1>4, DrainIs
<1>6. Listed(t)' = Listed(t)
  BY <1>5 DEF Listed, QueuesStep, SelfListed
<1>7. /\ t \in ToSet(prods'[c]) => Clause(t, c) = "insert"
      /\ t \in ToSet(cons'[c]) => Clause(t, c) = "remove"
  BY <1>1, <1>4, <1>5 DEF SelfListed, QueueInv
<1>8. QuietComes(t, c, {}, p, todo[t], at[t])
  BY <1>1, <1>3, <1>5, Unset, NobodyWaits DEF QuietComes, Goto, tallies, TypeOK, CallTypeOK
<1>9. StaysWon(t) /\ wait'[t] = wait[t] /\ closed' = closed
  BY <1>3 DEF StaysWon, Settled
<1>10. CallOK(p, call[t], todo[t], at[t], wait'[t], armed[t], ran[t], moved[t], Listed(t)')
  BY <1>1, <1>3, <1>6, <1>9, LeaveOK
<1>11. p \in Pcs /\ p \notin Locking /\ pc[t] \notin {"run", "flush"}
  BY <1>3, PcNames DEF Locking
<1> HIDE DEF p
<1>12. todo[t] \in SUBSET (Chans \cup {"timeout"}) /\ at[t] \in Chans \cup {None}
  BY <1>1, Unset
<1>13. MatchAt(c)'
  BY <1>1, <1>4, <1>5, <1>8, <1>9, <1>11, <1>12, MatchKept
<1>14. /\ Holds(t, c) /\ lock' \in [Chans -> Threads \cup {None}] /\ closed' \in [Chans -> BOOLEAN]
       /\ \A x \in Chans \ {c} : closed'[x] = closed[x]
  BY <1>1, <1>3 DEF Holds, TypeOK, ChannelTypeOK
<1> QED BY <1>4, <1>7, <1>8, <1>9, <1>10, <1>11, <1>12, <1>13, <1>14, QuietComesIs
\* A close that holds the lock of its channel.
LEMMA FlushFacts ==
  ASSUME IInv, NEW t \in Threads, pc[t] \in {"close", "flush"}
  PROVE  /\ OwnPlain(t) /\ at[t] \in Chans /\ Listed(t) = {}
         /\ t \notin ToSet(prods[at[t]]) \cup ToSet(cons[at[t]])
         /\ pc[t] = "flush" => lock[at[t]] = t
<1>1. CallInv /\ LockInv
  BY DEF IInv
<1>2. OwnPlain(t)
  BY <1>1, KindAt
<1>3. at[t] \in Chans /\ Listed(t) = {}
  BY <1>2 DEF OwnPlain, PlainOK
<1>4. pc[t] = "flush" => lock[at[t]] = t
  BY <1>1 DEF LockInv, LockOK, Locking
<1> QED BY <1>2, <1>3, <1>4 DEF Listed

LEMMA CloseInv == ASSUME IInv, NEW t \in Threads, Close(t) PROVE IInv'
<1>1. TypeOK /\ CallInv /\ QueueInv /\ MatchInv
  BY DEF IInv
<1>2. PICK c : c = at[t]
  OBVIOUS
<1>3. /\ pc[t] = "close" /\ lock[c] = None /\ lock' = Set(lock, c, t) /\ closed' = Set(closed, c, TRUE)
      /\ Goto(t, "flush")
      /\ UNCHANGED <<buffer, prods, cons, call, number, todo, at, wait, armed, ran, tallies>>
  BY <1>2 DEF Close
<1>4. OwnPlain(t) /\ c \in Chans /\ Listed(t) = {} /\ t \notin ToSet(prods[c]) \cup ToSet(cons[c])
  BY <1>2, <1>3, FlushFacts
<1>5. QueuesStep(t, c, {}) /\ prods' = prods /\ cons' = cons
  BY <1>1, <1>3, <1>4, SameQueues
<1>6. Listed(t)' = Listed(t)
  BY <1>5 DEF Listed
<1>7. QuietComes(t, c, {}, "flush", todo[t], at[t])
  BY <1>1, <1>3, <1>5, Unset, NobodyWaits DEF QuietComes, Goto, tallies, TypeOK, CallTypeOK
<1>8. StaysWon(t) /\ wait' = wait
  BY <1>3 DEF StaysWon, Settled
<1>9. PlainOK("flush", call[t], todo[t], at[t], wait[t], armed[t], ran[t], moved[t], {})
  BY <1>3, <1>4 DEF OwnPlain, PlainOK, PlainPcs
<1>10. CallOK("flush", call[t], todo[t], at[t], wait'[t], armed[t], ran[t], moved[t], Listed(t)')
  BY <1>4, <1>6, <1>8, <1>9 DEF CallOK, OwnPlain
<1>11. pc'[t] = "flush" /\ at'[t] = c /\ lock'[c] = t
  BY <1>1, <1>2, <1>3, <1>4 DEF Goto, Set, TypeOK, CallTypeOK, ChannelTypeOK
<1>12. MatchAt(c)'
  <2>1. /\ SomeWait(prods[c])' <=> SomeWait(prods[c])
        /\ SomeWait(cons[c])' <=> SomeWait(cons[c])
    BY <1>5, <1>8 DEF SomeWait, Settled
  <2>2. MatchAt(c) /\ buffer' = buffer
    BY <1>1, <1>3, <1>4, MatchIs
  <2> QED BY <1>11, <2>1, <2>2 DEF MatchAt
<1>13. LockOK(t)'
  BY <1>11 DEF LockOK
<1>14. /\ Holds(t, c) /\ lock' \in [Chans -> Threads \cup {None}] /\ closed' \in [Chans -> BOOLEAN]
       /\ \A x \in Chans \ {c} : closed'[x] = closed[x]
  BY <1>1, <1>3 DEF Holds, Set, TypeOK, ChannelTypeOK
<1>15. todo[t] \in SUBSET (Chans \cup {"timeout"}) /\ at[t] \in Chans \cup {None} /\ "flush" \in Pcs
  BY <1>1, Unset, PcNames
<1> QED BY <1>3, <1>4, <1>5, <1>7, <1>8, <1>10, <1>12, <1>13, <1>14, <1>15, QuietComesIs

\* A close reaches the first live node of a queue.
LEMMA FlushStep ==
  ASSUME IInv, NEW t \in Threads, pc[t] = "flush", NEW u \in Threads \ {t}, Wait({u}, t, at[t]),
         QueuesStep(t, at[t], {u}), SelfListed(t, at[t]), wait' = ShutAndWake(u, at[t]),
         UNCHANGED <<lock, closed, buffer, pc, call, number, todo, at, armed, ran, tallies>>
  PROVE  IInv'
<1>1. TypeOK /\ CallInv /\ QueueInv /\ MatchInv
  BY DEF IInv
<1>2. PICK c : c = at[t]
  OBVIOUS
<1>3. OwnPlain(t) /\ c \in Chans /\ Listed(t) = {} /\ t \notin ToSet(prods[c]) \cup ToSet(cons[c]) /\ lock[c] = t
  BY <1>2, FlushFacts
<1>4. /\ wait' \in [Threads -> Waiting] /\ wait'[t] = wait[t]
      /\ \A v \in Threads \ {t} : wait'[v] = IF v \in {u} THEN Reached(wait[v], c, {c}) ELSE wait[v]
  <2>1. wait \in [Threads -> Waiting] /\ u \in Threads
    BY <1>1 DEF TypeOK, CallTypeOK
  <2>2. /\ ShutAndWake(u, c) \in [Threads -> Waiting] /\ ShutAndWake(u, c)[u] = Reached(wait[u], c, {c})
        /\ \A v \in Threads \ {u} : ShutAndWake(u, c)[v] = wait[v]
    BY <1>3, <2>1, ShutAndWakeIs
  <2> QED BY <1>2, <2>2
<1>5. Listed(t)' = Listed(t)
  BY <1>2 DEF Listed, QueuesStep, SelfListed
<1>6. QuietComes(t, c, {u}, "flush", todo[t], at[t])
  BY <1>1, <1>2, <1>4, Unset DEF QuietComes, tallies
<1>7. StaysWon(t)
  BY <1>4 DEF StaysWon, Settled
<1>8. CallOK("flush", call[t], todo[t], at[t], wait'[t], armed[t], ran[t], moved[t], Listed(t)')
  BY <1>3, <1>4, <1>5 DEF CallOK, OwnPlain
<1>9. closed' = closed /\ "flush" \in Pcs /\ at[t] \in Chans \cup {None} /\ todo[t] \in SUBSET (Chans \cup {"timeout"})
  BY <1>1, Unset, PcNames
<1>10. MatchAt(c)'
  BY <1>1, <1>2, <1>3, <1>6, <1>7, <1>9, MatchKept
<1>11. LockOK(t)'
  BY <1>2, <1>3 DEF LockOK
<1>12. /\ Holds(t, c) /\ lock' \in [Chans -> Threads \cup {None}] /\ closed' \in [Chans -> BOOLEAN]
       /\ \A x \in Chans \ {c} : closed'[x] = closed[x]
  BY <1>1, <1>3 DEF Holds, TypeOK, ChannelTypeOK
<1>13. t \notin ToSet(prods'[c]) /\ t \notin ToSet(cons'[c])
  BY <1>2, <1>3 DEF SelfListed
<1> QED BY <1>2, <1>3, <1>6, <1>7, <1>8, <1>9, <1>10, <1>11, <1>12, <1>13, QuietComesIs

LEMMA CloseConsInv == ASSUME IInv, NEW t \in Threads, CloseCons(t) PROVE IInv'
<1>1. TypeOK /\ QueueInv
  BY DEF IInv
<1>2. PICK c : c = at[t]
  OBVIOUS
<1>3. PICK q : q = Live(cons[c])
  OBVIOUS
<1>4. /\ pc[t] = "flush" /\ q # <<>> /\ ~Pending(q[1]) /\ cons' = Set(cons, c, Tail(q)) /\ prods' = prods
      /\ wait' = ShutAndWake(q[1], c)
      /\ UNCHANGED <<lock, closed, buffer, pc, call, number, todo, at, armed, ran, tallies>>
  BY <1>2, <1>3 DEF CloseCons
<1>5. c \in Chans /\ t \notin ToSet(cons[c])
  BY <1>2, <1>4, FlushFacts
<1>6. /\ q[1] \in Threads \ {t} /\ q[1] \in ToSet(cons[c]) /\ Wait({q[1]}, t, c)
      /\ Kept(cons[c], Tail(q), {q[1]})
  BY <1>1, <1>3, <1>4, <1>5, FirstLive
<1>7. QueuesStep(t, c, {q[1]}) /\ SelfListed(t, c)
  <2>1. {q[1]} \in SUBSET ToSet(cons[c])
    BY <1>6
  <2> QED BY <1>1, <1>4, <1>5, <1>6, <2>1, ShorterCons
<1> QED BY <1>2, <1>4, <1>6, <1>7, FlushStep

LEMMA CloseProdsInv == ASSUME IInv, NEW t \in Threads, CloseProds(t) PROVE IInv'
<1>1. TypeOK /\ QueueInv
  BY DEF IInv
<1>2. PICK c : c = at[t]
  OBVIOUS
<1>3. PICK q : q = Live(prods[c])
  OBVIOUS
<1>4. /\ pc[t] = "flush" /\ Live(cons[c]) = <<>> /\ q # <<>> /\ ~Pending(q[1])
      /\ prods' = Set(prods, c, Tail(q)) /\ cons' = Set(cons, c, <<>>)
      /\ wait' = ShutAndWake(q[1], c)
      /\ UNCHANGED <<lock, closed, buffer, pc, call, number, todo, at, armed, ran, tallies>>
  BY <1>2, <1>3 DEF CloseProds
<1>5. c \in Chans /\ t \notin ToSet(cons[c]) /\ t \notin ToSet(prods[c])
  BY <1>2, <1>4, FlushFacts
<1>6. /\ q[1] \in Threads \ {t} /\ q[1] \in ToSet(prods[c]) /\ Wait({q[1]}, t, c)
      /\ Kept(prods[c], Tail(q), {q[1]})
  BY <1>1, <1>3, <1>4, <1>5, FirstLive
<1>7. Kept(cons[c], <<>>, {}) /\ Kept(cons[c], <<>>, {q[1]})
  <2>1. Kept(cons[c], <<>>, {})
    BY <1>1, <1>4, <1>5, QueueFacts, EmptyKept
  <2>2. ToSet(<<>>) = {}
    BY EmptyFacts
  <2> QED BY <2>1, <2>2 DEF Kept
<1>8. /\ prods' \in [Chans -> Seq(Threads)] /\ cons' \in [Chans -> Seq(Threads)]
      /\ prods'[c] = Tail(q) /\ cons'[c] = <<>>
      /\ \A x \in Chans \ {c} : prods'[x] = prods[x] /\ cons'[x] = cons[x]
  <2>1. Tail(q) \in Seq(Threads) /\ <<>> \in Seq(Threads)
    BY <1>6, <1>7 DEF Kept
  <2>2. prods \in [Chans -> Seq(Threads)] /\ cons \in [Chans -> Seq(Threads)]
    BY <1>1, <1>5, QueueFacts
  <2> QED BY <1>4, <1>5, <2>1, <2>2 DEF Set
<1>9. QueuesStep(t, c, {q[1]})
  BY <1>6, <1>7, <1>8, KeptIsKeptBut DEF QueuesStep
<1>10. SelfListed(t, c)
  <2>1. t \notin ToSet(prods'[c]) /\ t \notin ToSet(cons'[c])
    BY <1>5, <1>6, <1>7, <1>8 DEF Kept
  <2> QED BY <1>5, <2>1 DEF SelfListed
<1> QED BY <1>2, <1>4, <1>6, <1>9, <1>10, FlushStep

LEMMA CloseEndsInv == ASSUME IInv, NEW t \in Threads, CloseEnds(t) PROVE IInv'
<1>1. TypeOK /\ CallInv /\ QueueInv /\ MatchInv
  BY DEF IInv
<1>2. PICK c : c = at[t]
  OBVIOUS
<1>3. /\ pc[t] = "flush" /\ Live(cons[c]) = <<>> /\ Live(prods[c]) = <<>>
      /\ cons' = Set(cons, c, <<>>) /\ prods' = Set(prods, c, <<>>)
      /\ lock' = Set(lock, c, None) /\ Goto(t, "end")
      /\ UNCHANGED <<closed, buffer, call, number, todo, at, wait, armed, ran, tallies>>
  BY <1>2 DEF CloseEnds
<1>4. OwnPlain(t) /\ c \in Chans /\ Listed(t) = {} /\ t \notin ToSet(prods[c]) \cup ToSet(cons[c]) /\ lock[c] = t
  BY <1>2, <1>3, FlushFacts
<1>5. ToSet(<<>>) = {} /\ <<>> \in Seq(Threads)
  BY EmptyFacts
<1>6. /\ prods' \in [Chans -> Seq(Threads)] /\ cons' \in [Chans -> Seq(Threads)]
      /\ prods'[c] = <<>> /\ cons'[c] = <<>>
      /\ \A x \in Chans \ {c} : prods'[x] = prods[x] /\ cons'[x] = cons[x]
  <2>1. prods \in [Chans -> Seq(Threads)] /\ cons \in [Chans -> Seq(Threads)]
    BY <1>1, <1>4, QueueFacts
  <2> QED BY <1>3, <1>4, <1>5, <2>1 DEF Set
<1>7. QueuesStep(t, c, {})
  <2>1. Kept(cons[c], <<>>, {}) /\ Kept(prods[c], <<>>, {})
    BY <1>1, <1>3, <1>4, QueueFacts, EmptyKept
  <2> QED BY <1>6, <2>1, KeptIsKeptBut DEF QueuesStep
<1>8. Listed(t)' = {}
  BY <1>4, <1>5, <1>6 DEF Listed
<1>9. QuietComes(t, c, {}, "end", todo[t], at[t])
  BY <1>1, <1>3, <1>7, Unset, NobodyWaits DEF QuietComes, Goto, tallies, TypeOK, CallTypeOK
<1>10. StaysWon(t) /\ wait' = wait
  BY <1>3 DEF StaysWon, Settled
<1>11. PlainOK("end", call[t], todo[t], at[t], wait[t], armed[t], ran[t], moved[t], {})
  BY <1>3, <1>4 DEF OwnPlain, PlainOK, PlainPcs
<1>12. CallOK("end", call[t], todo[t], at[t], wait'[t], armed[t], ran[t], moved[t], Listed(t)')
  BY <1>4, <1>8, <1>10, <1>11 DEF CallOK, OwnPlain
<1>13. MatchAt(c)'
  <2>1. ~SomeWait(prods[c])' /\ ~SomeWait(cons[c])'
    BY <1>5, <1>6 DEF SomeWait
  <2> QED BY <2>1 DEF MatchAt
<1>14. /\ Holds(t, c) /\ lock' \in [Chans -> Threads \cup {None}] /\ closed' \in [Chans -> BOOLEAN]
       /\ \A x \in Chans \ {c} : closed'[x] = closed[x]
  BY <1>1, <1>3, <1>4 DEF Holds, Set, TypeOK, ChannelTypeOK
<1>15. todo[t] \in SUBSET (Chans \cup {"timeout"}) /\ at[t] \in Chans \cup {None} /\ "end" \in Pcs /\ "end" \notin Locking
  BY <1>1, Unset, PcNames DEF Locking
<1>16. t \notin ToSet(prods'[c]) /\ t \notin ToSet(cons'[c])
  BY <1>5, <1>6
<1> QED BY <1>2, <1>3, <1>4, <1>9, <1>10, <1>12, <1>13, <1>14, <1>15, <1>16, QuietComesIs
-----------------------------------------------------------------------------
(* Registering.                                                            *)

\* An or-waituntil that goes on to its next clause, listed at L.
LEMMA OrNext ==
  ASSUME NEW t, OwnOr(t), pc[t] \in {"register", "race"}, NEW c \in todo[t], NEW L,
         L \subseteq ClausesOf(call[t]) \ (todo[t] \ {c}),
         Settled(wait[t]) \/ L = ClausesOf(call[t]) \ (todo[t] \ {c}),
         c # "timeout"
  PROVE  CallOK("register", call[t], todo[t] \ {c}, None, wait[t], armed[t], ran[t], moved[t], L)
<1>1. OrOK("register", call[t], todo[t] \ {c}, None, wait[t], armed[t], ran[t], moved[t], L)
  BY DEF OwnOr, OrOK, OrPcs, Settled
<1> QED BY <1>1 DEF CallOK, OwnOr

\* The queues stay, and t goes on to its next clause without the lock.
LEMMA GiveUpStep ==
  ASSUME IInv, NEW t \in Threads, NEW c \in Chans, OwnOr(t), Settled(wait[t]), pc[t] \in {"register", "race"},
         c \in ClausesOf(call[t]) \cap todo[t], Holds(t, c), lock' \in [Chans -> Threads \cup {None}],
         NextClause(t, c), UNCHANGED <<closed, buffer, prods, cons, call, number, wait, armed, ran, tallies>>
  PROVE  IInv'
<1>1. TypeOK /\ CallInv /\ QueueInv /\ MatchInv
  BY DEF IInv
<1>2. QueuesStep(t, c, {}) /\ SelfListed(t, c) /\ prods' = prods /\ cons' = cons
  BY <1>1, SameQueues
<1>3. Listed(t)' = Listed(t)
  BY <1>2 DEF Listed
<1>4. QuietComes(t, c, {}, "register", todo[t] \ {c}, None)
  BY <1>1, <1>2, Unset, NobodyWaits DEF QuietComes, Goto, NextClause, tallies, TypeOK, CallTypeOK
<1>5. StaysWon(t) /\ wait' = wait /\ closed' = closed
  BY DEF StaysWon, Settled
<1>6. CallOK("register", call[t], todo[t] \ {c}, None, wait'[t], armed[t], ran[t], moved[t], Listed(t)')
  <2>1. Listed(t) \subseteq ClausesOf(call[t]) \ (todo[t] \ {c})
    BY DEF OwnOr, OrOK
  <2> QED BY <1>3, <1>5, <2>1, OrNext, ChanNames
<1>7. /\ todo[t] \ {c} \in SUBSET (Chans \cup {"timeout"}) /\ None \in Chans \cup {None}
      /\ "register" \in Pcs /\ "register" \notin Locking
  BY <1>1, Unset, PcNames DEF Locking
<1>8. MatchAt(c)'
  BY <1>1, <1>2, <1>4, <1>5, <1>7, MatchKept
<1>9. closed' \in [Chans -> BOOLEAN]
  BY <1>1, <1>5 DEF TypeOK, ChannelTypeOK
<1>10. /\ t \in ToSet(prods'[c]) => Clause(t, c) = "insert"
       /\ t \in ToSet(cons'[c]) => Clause(t, c) = "remove"
  BY <1>1, <1>2 DEF QueueInv
<1> QED BY <1>4, <1>5, <1>6, <1>7, <1>8, <1>9, <1>10, QuietComesIs

LEMMA GiveUpInv ==
  ASSUME IInv, NEW t \in Threads, NEW c \in Chans, Within(t, c), GiveUp(t, c)
  PROVE  IInv'
<1>1. /\ OwnOr(t) \/ (OwnAnd(t) /\ pc[t] = "register")
      /\ c \in ClausesOf(call[t]) \cap todo[t] /\ pc[t] \in {"register", "race"}
      /\ lock' \in [Chans -> Threads \cup {None}] /\ Holds(t, c)
  BY WithinIs
<1>2. Settled(wait[t]) /\ call[t].how = "or"
  BY DecidedIs DEF GiveUp, RaceLost
<1>3. OwnOr(t)
  BY <1>1, <1>2 DEF OwnAnd
<1> QED BY <1>1, <1>2, <1>3, GiveUpStep DEF GiveUp

LEMMA FindClosedInv ==
  ASSUME IInv, NEW t \in Threads, NEW c \in Chans, Within(t, c), FindClosed(t, c)
  PROVE  IInv'
<1>1. TypeOK /\ CallInv /\ QueueInv /\ MatchInv
  BY DEF IInv
<1>2. /\ OwnOr(t) \/ (OwnAnd(t) /\ pc[t] = "register")
      /\ c \in ClausesOf(call[t]) \cap todo[t] /\ pc[t] \in {"register", "race"}
      /\ lock' \in [Chans -> Threads \cup {None}] /\ Holds(t, c)
  BY WithinIs
<1>3. /\ ~RaceLost(t, c) /\ closed[c] /\ wait' = Raced(t, c) /\ at' = Set(at, t, c) /\ Goto(t, "closed")
      /\ UNCHANGED <<closed, buffer, prods, cons, call, number, todo, armed, ran, tallies>>
  BY DEF FindClosed
<1>4. QueuesStep(t, c, {}) /\ SelfListed(t, c) /\ prods' = prods /\ cons' = cons
  BY <1>1, <1>3, SameQueues
<1>5. Listed(t)' = Listed(t)
  BY <1>4 DEF Listed
<1>6. /\ wait' \in [Threads -> Waiting] /\ \A v \in Threads \ {t} : wait'[v] = wait[v]
      /\ StaysWon(t)
      /\ CallOK("closed", call[t], todo[t], c, wait'[t], armed[t], ran[t], moved[t], Listed(t))
  <2>1. CASE OwnOr(t)
    <3>1. call[t].how = "or" /\ CanComplete(t, c)
      BY <1>3, <2>1 DEF OwnOr, CanComplete
    <3>2. ~Settled(wait[t]) /\ wait' = Own(t, c)
      BY <1>3, <3>1, NotLost
    <3>3. PICK y \in Waiting :
            /\ Own(t, c) \in [Threads -> Waiting] /\ Own(t, c)[t] = y
            /\ \A v \in Threads \ {t} : Own(t, c)[v] = wait[v]
            /\ y.status = c /\ y.sat = wait[t].sat /\ y.shut = wait[t].shut /\ y.permit = wait[t].permit
      BY <1>1, OwnIs, StatusNames
    <3>4. /\ ran[t] = {} /\ ~wait[t].permit /\ MovedFor(moved[t], {}) /\ Settled(y)
      BY <2>1, <3>2, <3>3, ChanNames DEF OwnOr, OrOK, Settled
    <3>5. OrOK("closed", call[t], todo[t], c, y, armed[t], ran[t], moved[t], Listed(t))
      BY <1>2, <2>1, <3>3, <3>4, ChanNames DEF OwnOr, OrOK, OrPcs
    <3>6. CallOK("closed", call[t], todo[t], c, y, armed[t], ran[t], moved[t], Listed(t))
      BY <2>1, <3>5 DEF CallOK, OwnOr
    <3> QED BY <3>2, <3>3, <3>6 DEF StaysWon
  <2>2. CASE OwnAnd(t) /\ pc[t] = "register"
    <3>1. wait' = wait
      BY <1>3, <2>2 DEF Raced, OwnAnd
    <3>2. AndOK("closed", call[t], todo[t], c, wait[t], armed[t], ran[t], moved[t], Listed(t))
      BY <1>2, <2>2 DEF OwnAnd, AndOK, AndPcs
    <3>3. CallOK("closed", call[t], todo[t], c, wait[t], armed[t], ran[t], moved[t], Listed(t))
      BY <2>2, <3>2 DEF CallOK, OwnAnd
    <3>4. wait' \in [Threads -> Waiting]
      BY <1>1, <3>1 DEF TypeOK, CallTypeOK
    <3> QED BY <3>1, <3>3, <3>4 DEF StaysWon, Settled
  <2> QED BY <1>2, <2>1, <2>2
<1>7. QuietComes(t, c, {}, "closed", todo[t], c)
  BY <1>1, <1>3, <1>4, <1>6, Unset, NobodyWaits DEF QuietComes, Goto, tallies
<1>8. /\ todo[t] \in SUBSET (Chans \cup {"timeout"}) /\ c \in Chans \cup {None} /\ "closed" \in Pcs /\ "closed" \notin Locking
      /\ closed' = closed
  BY <1>1, <1>3, Unset, PcNames DEF Locking
<1>9. MatchAt(c)'
  BY <1>1, <1>2, <1>4, <1>6, <1>7, <1>8, MatchKept
<1>10. closed' \in [Chans -> BOOLEAN]
  BY <1>1, <1>8 DEF TypeOK, ChannelTypeOK
<1>11. /\ t \in ToSet(prods'[c]) => Clause(t, c) = "insert"
       /\ t \in ToSet(cons'[c]) => Clause(t, c) = "remove"
  BY <1>1, <1>4 DEF QueueInv
<1>12. CallOK("closed", call[t], todo[t], c, wait'[t], armed[t], ran[t], moved[t], Listed(t)')
  BY <1>5, <1>6
<1> QED BY <1>2, <1>6, <1>7, <1>8, <1>9, <1>10, <1>11, <1>12, QuietComesIs
\* Who has to wait at a channel that is open could not have raced.
LEMMA NoRace ==
  ASSUME IInv, NEW t \in Threads, NEW c \in Chans, Within(t, c), ~RaceLost(t, c), ~closed[c], MustWait(t, c)
  PROVE  Raced(t, c) = wait
<1>1. TypeOK /\ QueueInv /\ MatchInv /\ LockInv
  BY DEF IInv
<1> SUFFICES ASSUME call[t].how = "or", CanComplete(t, c) PROVE FALSE
  BY DEF Raced
<1>2. ~Settled(wait[t])
  BY NotLost
<1>3. /\ prods[c] \in Seq(Threads) /\ IsInjective(prods[c]) /\ cons[c] \in Seq(Threads) /\ IsInjective(cons[c])
      /\ Size[c] \in Nat /\ buffer[c] \in Seq(Element)
  BY <1>1, QueueFacts
<1>4. buffer[c] = <<>> => Len(buffer[c]) = 0
  BY <1>3, SeqFacts
<1>5. Others(t, c) # <<>>
  BY <1>4 DEF CanComplete, MustWait
<1>6. PICK q : q = Others(t, c) /\ q \in {prods[c], cons[c]}
  BY DEF Others
<1>7. q \in Seq(Threads) /\ q[1] \in ToSet(q)
  <2>1. q \in Seq(Threads) /\ q # <<>>
    BY <1>3, <1>5, <1>6
  <2> QED BY <2>1, TailSet
<1>8. CASE pc[t] = "race"
  <2>1. c = at[t]
    BY <1>8 DEF Within
  <2>2. Settled(wait[t]) \/ Others(t, c) = <<>>
    BY <1>1, <1>8, <2>1 DEF LockInv, LockOK
  <2> QED BY <2>2, <1>2, <1>5
<1>9. CASE pc[t] # "race"
  <2>1. ~Special(q[1])
    BY <1>5, <1>6, <1>9 DEF Within, BothSpecial
  <2>2. ~Settled(wait[q[1]])
    BY <2>1 DEF Special, Settled
  <2>3. SomeWait(q)
    BY <1>7, <2>2 DEF SomeWait
  <2>4. CASE Live(q) = <<>>
    BY <1>3, <1>6, <2>3, <2>4, EmptyKept DEF SomeWait
  <2>5. CASE Live(q) # <<>>
    <3>1. q = prods[c] /\ buffer[c] = <<>> /\ Size[c] # 0
      BY <1>6, <2>5 DEF MustWait, Others
    <3>2. Len(buffer[c]) = Size[c]
      BY <1>1, <2>3, <3>1 DEF MatchInv
    <3> QED BY <1>4, <3>1, <3>2
  <2> QED BY <2>4, <2>5
<1> QED BY <1>8, <1>9

LEMMA EnqueueInv ==
  ASSUME IInv, NEW t \in Threads, NEW c \in Chans, Within(t, c), Enqueue(t, c)
  PROVE  IInv'
<1>1. TypeOK /\ CallInv /\ QueueInv /\ MatchInv
  BY DEF IInv
<1>2. /\ OwnOr(t) \/ (OwnAnd(t) /\ pc[t] = "register")
      /\ c \in ClausesOf(call[t]) \cap todo[t] /\ pc[t] \in {"register", "race"}
      /\ lock' \in [Chans -> Threads \cup {None}] /\ Holds(t, c)
      /\ t \notin ToSet(prods[c]) \cup ToSet(cons[c])
  BY WithinIs
<1>3. /\ ~RaceLost(t, c) /\ ~closed[c] /\ MustWait(t, c) /\ wait' = Raced(t, c) /\ Block(t, c) /\ NextClause(t, c)
      /\ UNCHANGED <<closed, buffer, call, number, armed, ran, tallies>>
  BY DEF Enqueue
<1>4. wait' = wait
  BY <1>3, NoRace
<1>5. Clause(t, c) \in {"insert", "remove"}
  BY <1>1, <1>2, SidesAre
<1>6. /\ QueuesStep(t, c, {})
      /\ t \in ToSet(prods'[c]) => Clause(t, c) = "insert"
      /\ t \in ToSet(cons'[c]) => Clause(t, c) = "remove"
      /\ Listed(t)' = Listed(t) \cup {c}
  BY <1>1, <1>2, <1>3, <1>5, BlockIs
<1>7. QuietComes(t, c, {}, "register", todo[t] \ {c}, None)
  BY <1>1, <1>3, <1>4, <1>6, Unset, NobodyWaits DEF QuietComes, Goto, NextClause, tallies, TypeOK, CallTypeOK
<1>8. StaysWon(t) /\ closed' = closed
  BY <1>3, <1>4 DEF StaysWon, Settled
<1>9. CallOK("register", call[t], todo[t] \ {c}, None, wait'[t], armed[t], ran[t], moved[t], Listed(t)')
  <2>1. CASE OwnOr(t)
    <3>1. /\ Listed(t) \subseteq ClausesOf(call[t]) \ todo[t]
          /\ Settled(wait[t]) \/ Listed(t) = ClausesOf(call[t]) \ todo[t]
      BY <2>1 DEF OwnOr, OrOK
    <3>2. PICK L : L = Listed(t) \cup {c}
      OBVIOUS
    <3>3. /\ L \subseteq ClausesOf(call[t]) \ (todo[t] \ {c})
          /\ Settled(wait[t]) \/ L = ClausesOf(call[t]) \ (todo[t] \ {c})
      BY <1>2, <3>1, <3>2
    <3> QED BY <1>2, <1>4, <1>6, <2>1, <3>2, <3>3, OrNext, ChanNames
  <2>2. CASE OwnAnd(t) /\ pc[t] = "register"
    <3>1. PICK L : L = Listed(t) \cup {c}
      OBVIOUS
    <3>2. /\ L = ClausesOf(call[t]) \ ((todo[t] \ {c}) \cup wait[t].sat) /\ (todo[t] \ {c}) \cap wait[t].sat = {}
          /\ (todo[t] \ {c}) \cup wait[t].sat \subseteq ClausesOf(call[t])
      BY <1>2, <2>2, <3>1 DEF OwnAnd, AndOK
    <3>3. AndOK("register", call[t], todo[t] \ {c}, None, wait[t], armed[t], ran[t], moved[t], L)
      BY <1>2, <2>2, <3>2 DEF OwnAnd, AndOK, AndPcs
    <3>4. CallOK("register", call[t], todo[t] \ {c}, None, wait[t], armed[t], ran[t], moved[t], L)
      BY <2>2, <3>3 DEF CallOK, OwnAnd
    <3> QED BY <1>4, <1>6, <3>1, <3>4
  <2> QED BY <1>2, <2>1, <2>2
<1>10. MatchAt(c)'
  BY <1>1, <1>2, <1>3, <1>5, <1>7, <1>8, BlockMatch
<1>11. /\ todo[t] \ {c} \in SUBSET (Chans \cup {"timeout"}) /\ None \in Chans \cup {None}
       /\ "register" \in Pcs /\ "register" \notin Locking /\ closed' \in [Chans -> BOOLEAN]
  BY <1>1, <1>8, Unset, PcNames DEF Locking, TypeOK, ChannelTypeOK
<1> QED BY <1>2, <1>6, <1>7, <1>8, <1>9, <1>10, <1>11, QuietComesIs

LEMMA OperateInv ==
  ASSUME IInv, NEW t \in Threads, NEW c \in Chans, Within(t, c), Operate(t, c) PROVE IInv'
BY GiveUpInv, FindClosedInv, CompleteInv, EnqueueInv DEF Operate

LEMMA RegisterInv == ASSUME IInv, NEW t \in Threads, NEW c \in Chans, Register(t, c) PROVE IInv'
BY OperateInv DEF Register, Within

LEMMA RaceInv == ASSUME IInv, NEW t \in Threads, Race(t) PROVE IInv'
<1>1. OwnOr(t) /\ pc[t] = "race"
  BY KindAt DEF IInv, Race
<1>2. at[t] \in Chans
  BY <1>1, ClausesAre DEF OwnOr, OrOK
<1> QED BY <1>2, OperateInv DEF Race, Within

\* An or-waituntil that has not been won changes its own status, at c.
LEMMA OrTurns ==
  ASSUME IInv, NEW t \in Threads, NEW c \in ClausesOf(call[t]) \cap todo[t], OwnOr(t), ~Settled(wait[t]),
         NEW p \in {"pending", "yielded", "race"}, wait' = Own(t, IF p = "pending" THEN "PENDING" ELSE "UNSAT"),
         Goto(t, p), at' = Set(at, t, c), Holds(t, c), lock' \in [Chans -> Threads \cup {None}], lock'[c] = t,
         QueuesStep(t, c, {}), SelfListed(t, c), p = "race" => Others(t, c)' = <<>>,
         UNCHANGED <<closed, buffer, call, number, todo, armed, ran, tallies>>
  PROVE  IInv'
<1>1. TypeOK /\ CallInv /\ QueueInv /\ MatchInv
  BY DEF IInv
<1>2. c \in Chans
  BY ClausesAre
<1>3. PICK s \in {"PENDING", "UNSAT"} : s = IF p = "pending" THEN "PENDING" ELSE "UNSAT"
  OBVIOUS
<1>4. PICK y \in Waiting :
        /\ Own(t, s) \in [Threads -> Waiting] /\ Own(t, s)[t] = y
        /\ \A v \in Threads \ {t} : Own(t, s)[v] = wait[v]
        /\ y.status = s /\ y.sat = wait[t].sat /\ y.shut = wait[t].shut /\ y.permit = wait[t].permit
  BY <1>1, <1>3, OwnIs, StatusNames
<1>5. wait' \in [Threads -> Waiting] /\ wait'[t] = y /\ \A v \in Threads \ {t} : wait'[v] = wait[v]
  BY <1>3, <1>4
<1>6. StaysWon(t) /\ ~Settled(y)
  BY <1>3, <1>4 DEF StaysWon, Settled
<1>7. Listed(t)' = Listed(t)
  BY DEF Listed, QueuesStep, SelfListed
<1>8. QuietComes(t, c, {}, p, todo[t], c)
  BY <1>1, <1>5, Unset, NobodyWaits DEF QuietComes, Goto, tallies
<1>9. CallOK(p, call[t], todo[t], c, wait'[t], armed[t], ran[t], moved[t], Listed(t)')
  <2>1. OrOK(p, call[t], todo[t], c, y, armed[t], ran[t], moved[t], Listed(t))
    BY <1>3, <1>4, <1>6 DEF OwnOr, OrOK, OrPcs
  <2>2. CallOK(p, call[t], todo[t], c, y, armed[t], ran[t], moved[t], Listed(t))
    BY <2>1 DEF CallOK, OwnOr
  <2> QED BY <1>5, <1>7, <2>2
<1>10. /\ todo[t] \in SUBSET (Chans \cup {"timeout"}) /\ c \in Chans \cup {None} /\ p \in Pcs
       /\ closed' = closed /\ closed' \in [Chans -> BOOLEAN]
  BY <1>1, <1>2, Unset, PcNames DEF TypeOK, ChannelTypeOK
<1>11. pc[t] \notin {"run", "flush"}
  BY DEF OwnOr, OrOK, OrPcs
<1>12. MatchAt(c)'
  BY <1>1, <1>2, <1>6, <1>8, <1>10, <1>11, MatchKept
<1>13. LockOK(t)'
  <2>1. pc'[t] = p /\ at'[t] = c
    BY <1>1 DEF Goto, Set, TypeOK, CallTypeOK
  <2>2. p = "race" => Others(t, at[t])' = <<>>
    BY <2>1 DEF Others, Clause
  <2> QED BY <2>1, <2>2 DEF LockOK
<1>14. /\ t \in ToSet(prods'[c]) => Clause(t, c) = "insert"
       /\ t \in ToSet(cons'[c]) => Clause(t, c) = "remove"
  BY <1>1, <1>2 DEF SelfListed, QueueInv
<1> QED BY <1>2, <1>6, <1>8, <1>9, <1>10, <1>11, <1>12, <1>13, <1>14, QuietComesIs
LEMMA RegisterPendingInv == ASSUME IInv, NEW t \in Threads, NEW c \in Chans, RegisterPending(t, c) PROVE IInv'
<1>1. TypeOK /\ CallInv /\ QueueInv
  BY DEF IInv
<1>2. /\ pc[t] = "register" /\ c \in todo[t] /\ lock[c] = None /\ BothSpecial(t, c)
      /\ UNCHANGED <<closed, buffer, prods, cons, call, number, armed, ran, tallies>>
  BY DEF RegisterPending
<1>3. OwnOr(t)
  BY <1>1, <1>2, KindHow DEF BothSpecial
<1>4. c \in ClausesOf(call[t]) \cap todo[t]
  BY <1>2, <1>3, ChanNames DEF OwnOr, OrOK
<1>5. CASE Decided(t)
  <2>1. NextClause(t, c) /\ UNCHANGED <<lock, wait>>
    BY <1>5 DEF RegisterPending
  <2>2. Settled(wait[t])
    BY <1>5, DecidedIs
  <2>3. Holds(t, c) /\ lock' \in [Chans -> Threads \cup {None}]
    BY <1>1, <1>2, <2>1 DEF Holds, TypeOK, ChannelTypeOK
  <2> QED BY <1>2, <1>3, <1>4, <2>1, <2>2, <2>3, GiveUpStep
<1>6. CASE ~Decided(t)
  <2>1. /\ wait' = Own(t, "PENDING") /\ lock' = Set(lock, c, t) /\ at' = Set(at, t, c) /\ Goto(t, "pending")
        /\ todo' = todo
    BY <1>6 DEF RegisterPending
  <2>2. ~Settled(wait[t])
    BY <1>6, DecidedIs
  <2>3. Holds(t, c) /\ lock' \in [Chans -> Threads \cup {None}] /\ lock'[c] = t
    BY <1>1, <1>2, <2>1 DEF Holds, Set, TypeOK, ChannelTypeOK
  <2>4. QueuesStep(t, c, {}) /\ SelfListed(t, c)
    BY <1>1, <1>2, SameQueues
  <2> QED BY <1>2, <1>3, <1>4, <2>1, <2>2, <2>3, <2>4, OrTurns
<1> QED BY <1>5, <1>6

LEMMA PendingFacts ==
  ASSUME IInv, NEW t \in Threads, pc[t] = "pending"
  PROVE  /\ OwnOr(t) /\ ~Settled(wait[t]) /\ at[t] \in Chans /\ at[t] \in ClausesOf(call[t]) \cap todo[t]
         /\ lock[at[t]] = t /\ t \notin ToSet(Others(t, at[t]))
         /\ at = Set(at, t, at[t])
         /\ Clause(t, at[t]) \in {"insert", "remove"}
<1>1. TypeOK /\ CallInv /\ QueueInv /\ LockInv
  BY DEF IInv
<1>2. OwnOr(t)
  BY <1>1, KindAt
<1>3. at[t] \in Chans /\ at[t] \in ClausesOf(call[t]) \cap todo[t]
  BY <1>2, ClausesAre DEF OwnOr, OrOK
<1>4. ~Settled(wait[t])
  BY <1>2 DEF OwnOr, OrOK, Settled
<1>5. lock[at[t]] = t
  BY <1>1 DEF LockInv, LockOK, Locking
<1>6. Clause(t, at[t]) \in {"insert", "remove"}
  BY <1>1, <1>3, SidesAre
<1>7. t \notin ToSet(Others(t, at[t]))
  BY <1>1, <1>3, <1>6, OneSide DEF Others
<1> QED BY <1>1, <1>2, <1>3, <1>4, <1>5, <1>6, <1>7, Unset

\* The queue of the other side becomes r.
LEMMA OthersShorter ==
  ASSUME IInv, NEW t \in Threads, pc[t] = "pending", NEW c, c = at[t], NEW r, Kept(Others(t, c), r, {}),
         IF Clause(t, c) = "insert" THEN cons' = Set(cons, c, r) /\ UNCHANGED prods
                                    ELSE prods' = Set(prods, c, r) /\ UNCHANGED cons,
         call' = call
  PROVE  QueuesStep(t, c, {}) /\ SelfListed(t, c) /\ Others(t, c)' = r
<1>1. TypeOK /\ QueueInv
  BY DEF IInv
<1>2. c \in Chans /\ t \notin ToSet(Others(t, c))
  BY PendingFacts
<1>3. CASE Clause(t, c) = "insert"
  <2>1. cons' = Set(cons, c, r) /\ prods' = prods /\ Others(t, c) = cons[c]
    BY <1>3 DEF Others
  <2>2. QueuesStep(t, c, {}) /\ SelfListed(t, c)
    <3>1. {} \in SUBSET ToSet(cons[c])
      OBVIOUS
    <3> QED BY <1>1, <1>2, <2>1, <3>1, ShorterCons
  <2>3. Others(t, c)' = r
    BY <1>1, <1>2, <1>3, <2>1, QueueFacts DEF Others, Clause, Set
  <2> QED BY <2>2, <2>3
<1>4. CASE Clause(t, c) # "insert"
  <2>1. prods' = Set(prods, c, r) /\ cons' = cons /\ Others(t, c) = prods[c]
    BY <1>4 DEF Others
  <2>2. QueuesStep(t, c, {}) /\ SelfListed(t, c)
    <3>1. {} \in SUBSET ToSet(prods[c])
      OBVIOUS
    <3> QED BY <1>1, <1>2, <2>1, <3>1, ShorterProds
  <2>3. Others(t, c)' = r
    BY <1>1, <1>2, <1>4, <2>1, QueueFacts DEF Others, Clause, Set
  <2> QED BY <2>2, <2>3
<1> QED BY <1>3, <1>4

LEMMA PendingYieldsInv == ASSUME IInv, NEW t \in Threads, PendingYields(t) PROVE IInv'
<1>1. TypeOK /\ QueueInv
  BY DEF IInv
<1>2. PICK c : c = at[t]
  OBVIOUS
<1>3. PICK q : q = Live(Others(t, c))
  OBVIOUS
<1>4. /\ pc[t] = "pending"
      /\ IF Clause(t, c) = "insert" THEN cons' = Set(cons, c, q) /\ UNCHANGED prods
                                    ELSE prods' = Set(prods, c, q) /\ UNCHANGED cons
      /\ wait' = Own(t, "UNSAT") /\ Goto(t, "yielded")
      /\ UNCHANGED <<lock, closed, buffer, call, number, todo, at, armed, ran, tallies>>
  BY <1>2, <1>3 DEF PendingYields
<1>5. /\ OwnOr(t) /\ ~Settled(wait[t]) /\ c \in Chans /\ c \in ClausesOf(call[t]) \cap todo[t] /\ lock[c] = t
      /\ at = Set(at, t, c)
  BY <1>2, <1>4, PendingFacts
<1>6. Kept(Others(t, c), q, {})
  BY <1>1, <1>3, <1>5, QueueFacts, LiveKept DEF Others
<1>7. QueuesStep(t, c, {}) /\ SelfListed(t, c)
  BY <1>2, <1>4, <1>6, OthersShorter
<1>8. Holds(t, c) /\ lock' \in [Chans -> Threads \cup {None}] /\ lock'[c] = t /\ at' = Set(at, t, c)
  BY <1>1, <1>4, <1>5 DEF Holds, TypeOK, ChannelTypeOK
<1> QED BY <1>4, <1>5, <1>7, <1>8, OrTurns

LEMMA PendingDrainedInv == ASSUME IInv, NEW t \in Threads, PendingDrained(t) PROVE IInv'
<1>1. TypeOK /\ QueueInv
  BY DEF IInv
<1>2. PICK c : c = at[t]
  OBVIOUS
<1>3. /\ pc[t] = "pending" /\ Live(Others(t, c)) = <<>>
      /\ IF Clause(t, c) = "insert" THEN cons' = Set(cons, c, <<>>) /\ UNCHANGED prods
                                    ELSE prods' = Set(prods, c, <<>>) /\ UNCHANGED cons
      /\ wait' = Own(t, "UNSAT") /\ Goto(t, "race")
      /\ UNCHANGED <<lock, closed, buffer, call, number, todo, at, armed, ran, tallies>>
  BY <1>2 DEF PendingDrained
<1>4. /\ OwnOr(t) /\ ~Settled(wait[t]) /\ c \in Chans /\ c \in ClausesOf(call[t]) \cap todo[t] /\ lock[c] = t
      /\ at = Set(at, t, c)
  BY <1>2, <1>3, PendingFacts
<1>5. Kept(Others(t, c), <<>>, {})
  BY <1>1, <1>3, <1>4, QueueFacts, EmptyKept DEF Others
<1>6. QueuesStep(t, c, {}) /\ SelfListed(t, c) /\ Others(t, c)' = <<>>
  BY <1>2, <1>3, <1>5, OthersShorter
<1>7. Holds(t, c) /\ lock' \in [Chans -> Threads \cup {None}] /\ lock'[c] = t /\ at' = Set(at, t, c)
  BY <1>1, <1>3, <1>4 DEF Holds, TypeOK, ChannelTypeOK
<1> QED BY <1>3, <1>4, <1>6, <1>7, OrTurns

LEMMA UnregisterInv == ASSUME IInv, NEW t \in Threads, NEW c \in Chans, Unregister(t, c) PROVE IInv'
<1>1. TypeOK /\ CallInv /\ QueueInv /\ MatchInv
  BY DEF IInv
<1>2. /\ pc[t] \in {"unregister", "thrown"} /\ lock[c] = None
      /\ prods' = Set(prods, c, RemoveFirst(prods[c], t)) /\ cons' = Set(cons, c, RemoveFirst(cons[c], t))
      /\ UNCHANGED <<lock, closed, buffer, pc, call, number, todo, at, wait, armed, ran, tallies>>
  BY DEF Unregister
<1>3. PICK p, q : p = RemoveFirst(prods[c], t) /\ q = RemoveFirst(cons[c], t)
  OBVIOUS
<1>4. /\ p \in Seq(Threads) /\ IsInjective(p) /\ ToSet(p) = ToSet(prods[c]) \ {t}
      /\ q \in Seq(Threads) /\ IsInjective(q) /\ ToSet(q) = ToSet(cons[c]) \ {t}
  BY <1>1, <1>3, QueueFacts, RemoveSet
<1>5. /\ prods' \in [Chans -> Seq(Threads)] /\ cons' \in [Chans -> Seq(Threads)]
      /\ prods'[c] = p /\ cons'[c] = q
      /\ \A x \in Chans \ {c} : prods'[x] = prods[x] /\ cons'[x] = cons[x]
  BY <1>1, <1>2, <1>3, <1>4, QueueFacts DEF Set
<1>6. QueuesStep(t, c, {})
  BY <1>4, <1>5 DEF QueuesStep, KeptBut
<1>7. Listed(t)' = Listed(t) \ {c} /\ t \notin ToSet(prods'[c]) /\ t \notin ToSet(cons'[c])
  BY <1>4, <1>5 DEF Listed
<1>8. QuietComes(t, c, {}, pc[t], todo[t], at[t])
  BY <1>1, <1>2, <1>6, Unset, NobodyWaits DEF QuietComes, tallies, TypeOK, CallTypeOK
<1>9. StaysWon(t) /\ wait' = wait /\ closed' = closed
  BY <1>2 DEF StaysWon, Settled
<1>10. CallOK(pc[t], call[t], todo[t], at[t], wait'[t], armed[t], ran[t], moved[t], Listed(t)')
  <2>1. PICK L : L = Listed(t) \ {c}
    OBVIOUS
  <2>2. CASE OwnOr(t)
    <3>1. L \subseteq ClausesOf(call[t]) \ todo[t]
      BY <2>1, <2>2 DEF OwnOr, OrOK
    <3>2. OrOK(pc[t], call[t], todo[t], at[t], wait[t], armed[t], ran[t], moved[t], L)
      BY <1>2, <2>2, <3>1 DEF OwnOr, OrOK
    <3>3. CallOK(pc[t], call[t], todo[t], at[t], wait[t], armed[t], ran[t], moved[t], L)
      BY <2>2, <3>2 DEF CallOK, OwnOr
    <3> QED BY <1>7, <1>9, <2>1, <3>3
  <2>3. CASE OwnAnd(t)
    <3>1. /\ L \subseteq ClausesOf(call[t]) \ (todo[t] \cup wait[t].sat)
          /\ pc[t] = "unregister" => L = ClausesOf(call[t]) \ (todo[t] \cup wait[t].sat)
      BY <1>2, <2>1, <2>3 DEF OwnAnd, AndOK
    <3>2. AndOK(pc[t], call[t], todo[t], at[t], wait[t], armed[t], ran[t], moved[t], L)
      BY <1>2, <2>3, <3>1 DEF OwnAnd, AndOK
    <3>3. CallOK(pc[t], call[t], todo[t], at[t], wait[t], armed[t], ran[t], moved[t], L)
      BY <2>3, <3>2 DEF CallOK, OwnAnd
    <3> QED BY <1>7, <1>9, <2>1, <3>3
  <2> QED BY <1>1, <1>2, <2>2, <2>3, KindAt
<1>11. MatchAt(c)'
  <2>1. Acts(t, c, {}, {c})
    BY <1>1, <1>2, <1>6, NobodyWaits DEF Acts, Still, tallies
  <2>2. (SomeWait(prods[c])' => SomeWait(prods[c])) /\ (SomeWait(cons[c])' => SomeWait(cons[c]))
    BY <1>1, <1>7, <1>9, <2>1, SomeWaited
  <2>3. MatchAt(c)
    BY <1>1, MatchIs
  <2> QED BY <1>2, <2>2, <2>3 DEF MatchAt
<1>12. /\ Holds(t, c) /\ lock' \in [Chans -> Threads \cup {None}] /\ closed' \in [Chans -> BOOLEAN]
       /\ \A x \in Chans \ {c} : closed'[x] = closed[x]
  BY <1>1, <1>2 DEF Holds, TypeOK, ChannelTypeOK
<1>13. /\ todo[t] \in SUBSET (Chans \cup {"timeout"}) /\ at[t] \in Chans \cup {None} /\ pc[t] \in Pcs
       /\ pc[t] \notin Locking /\ pc[t] \notin {"run", "flush"}
  BY <1>1, <1>2, Unset DEF Locking
<1> QED BY <1>7, <1>8, <1>9, <1>10, <1>11, <1>12, <1>13, QuietComesIs
-----------------------------------------------------------------------------
(* The invariant holds.                                                    *)

LEMMA InitInv == ASSUME Init PROVE IInv
<1>1. /\ lock = [c \in Chans |-> None] /\ closed = [c \in Chans |-> FALSE]
      /\ buffer = [c \in Chans |-> <<>>] /\ prods = [c \in Chans |-> <<>>] /\ cons = [c \in Chans |-> <<>>]
      /\ pc = [t \in Threads |-> "run"] /\ call = [t \in Threads |-> NoCall] /\ number = [t \in Threads |-> 0]
      /\ todo = [t \in Threads |-> {}] /\ at = [t \in Threads |-> None] /\ wait = [t \in Threads |-> Idle]
      /\ armed = [t \in Threads |-> FALSE] /\ ran = [t \in Threads |-> {}]
      /\ moved = [t \in Threads |-> [c \in Chans |-> 0]]
      /\ last = [c \in Chans |-> [t \in Threads |-> 0]] /\ overtaken = {}
  BY DEF Init
<1>2. /\ <<>> \in Seq(Threads) /\ <<>> \in Seq(Element)
      /\ ToSet(<<>>) = {} /\ IsInjective(<<>>) /\ Len(<<>>) = 0
  BY EmptyFacts
<1>3. Idle \in Waiting
  BY DEF Idle, Waiting, Status
<1>4. ChannelTypeOK
  <2>1. \A c \in Chans : Len(buffer[c]) <= Size[c]
    BY <1>1, <1>2, ChannelAssumption
  <2> QED BY <1>1, <1>2, <2>1 DEF ChannelTypeOK
<1>5. CallTypeOK
  BY <1>1, <1>3 DEF CallTypeOK, Pcs
<1>6. CallInv
  <2> SUFFICES ASSUME NEW t \in Threads
               PROVE  CallOK(pc[t], call[t], todo[t], at[t], wait[t], armed[t], ran[t], moved[t], Listed(t))
    BY DEF CallInv
  <2>1. Listed(t) = {}
    BY <1>1, <1>2 DEF Listed
  <2>2. MovedFor(moved[t], {})
    BY <1>1 DEF MovedFor
  <2> QED BY <1>1, <2>1, <2>2 DEF CallOK
<1>7. QueueInv
  BY <1>1, <1>2 DEF QueueInv
<1>8. LockInv
  BY <1>1 DEF LockInv, LockOK, Locking
<1>9. MatchInv
  BY <1>1, <1>2 DEF MatchInv, SomeWait
<1>10. OrderInv
  BY <1>1, <1>2 DEF OrderInv, Given
<1>11. InOrderUnlessOvertaken
  BY <1>1, <1>2 DEF InOrderUnlessOvertaken, InOrder
<1> QED BY <1>4, <1>5, <1>6, <1>7, <1>8, <1>9, <1>10, <1>11 DEF IInv, TypeOK

LEMMA StepInv == ASSUME IInv, NEW t \in Threads, Step(t) PROVE IInv'
<1>1. CASE BlockClosed(t) \/ BlockTransfer(t) \/ BlockWait(t) \/ BlockReturns(t) \/ TryTransfer(t) \/ TryFails(t) \/ Throw(t)
  BY <1>1, BlockClosedInv, BlockTransferInv, BlockWaitInv, BlockReturnsInv, TryTransferInv, TryFailsInv, ThrowInv
<1>2. CASE Close(t) \/ CloseCons(t) \/ CloseProds(t) \/ CloseEnds(t)
  BY <1>2, CloseInv, CloseConsInv, CloseProdsInv, CloseEndsInv
<1>3. CASE \E c \in Chans : Register(t, c) \/ RegisterPending(t, c) \/ Unregister(t, c)
  BY <1>3, RegisterInv, RegisterPendingInv, UnregisterInv
<1>4. CASE PendingWins(t) \/ PendingYields(t) \/ PendingAgain(t) \/ PendingDrained(t) \/ Race(t)
  BY <1>4, PendingWinsInv, PendingYieldsInv, PendingAgainInv, PendingDrainedInv, RaceInv
<1>5. CASE RegisterTimeout(t) \/ Registered(t) \/ Selected(t)
  BY <1>5, RegisterTimeoutInv, RegisteredInv, SelectedInv
<1>6. CASE MaybePark(t) \/ AndReturns(t) \/ Bodies(t) \/ Unregistered(t) \/ End(t)
  BY <1>6, MaybeParkInv, AndReturnsInv, BodiesInv, UnregisteredInv, EndInv
<1> QED BY <1>1, <1>2, <1>3, <1>4, <1>5, <1>6 DEF Step

LEMMA StutterInv == ASSUME IInv, UNCHANGED vars PROVE IInv'
<1> USE DEF vars, chanVars, tallies
<1>1. TypeOK'
  BY DEF IInv, TypeOK, ChannelTypeOK, CallTypeOK
<1>2. CallInv'
  BY DEF IInv, CallInv, Listed
<1>3. QueueInv'
  BY DEF IInv, QueueInv, Clause
<1>4. LockInv'
  BY DEF IInv, LockInv, LockOK, Others, Clause
<1>5. MatchInv'
  BY DEF IInv, MatchInv, SomeWait
<1>6. OrderInv'
  BY DEF IInv, OrderInv, Given
<1>7. InOrderUnlessOvertaken'
  BY DEF IInv, InOrderUnlessOvertaken, InOrder
<1> QED BY <1>1, <1>2, <1>3, <1>4, <1>5, <1>6, <1>7 DEF IInv

LEMMA NextInv == ASSUME IInv, [Next]_vars PROVE IInv'
<1>1. ASSUME NEW t \in Threads, Step(t) \/ Timeout(t) \/ \E k \in Calls[t] : Begin(t, k) PROVE IInv'
  BY <1>1, StepInv, TimeoutInv, BeginInv
<1> QED BY <1>1, StutterInv DEF Next

LEMMA Invariant == Spec => []IInv
BY InitInv, NextInv, PTL DEF Spec
-----------------------------------------------------------------------------
(* What follows from the invariant.                                        *)

(* The words, queues and buffers of the channels and of the calls keep     *)
(* their types, and no buffer exceeds the size of its channel              *)
(* (channel.hfa:37-60).                                                    *)
THEOREM ChannelTypeCorrect == Spec => []TypeOK
<1>1. IInv => TypeOK
  BY DEF IInv
<1> QED BY <1>1, Invariant, PTL

(* A call that ends has moved one element for each clause that it reports  *)
(* as done and none for any other, however its status was won, and also if *)
(* it was left with an exception (channel.hfa:358-372, :393-456,           *)
(* :506-571).                                                              *)
THEOREM ClausesMoveExactlyOnce == Spec => []ExactlyOnce
<1>1. ASSUME IInv PROVE ExactlyOnce
  <2> SUFFICES ASSUME NEW t \in Threads, pc[t] = "end"
               PROVE  MovedFor(moved[t], ran[t])
    BY DEF ExactlyOnce, MovedFor
  <2>1. OwnPlain(t) \/ OwnOr(t) \/ OwnAnd(t)
    BY <1>1, KindAt DEF IInv
  <2>2. CASE OwnPlain(t)
    BY <2>2 DEF OwnPlain, PlainOK
  <2>3. CASE OwnOr(t)
    BY <2>3 DEF OwnOr, OrOK
  <2>4. CASE OwnAnd(t)
    BY <2>4 DEF OwnAnd, AndOK
  <2> QED BY <2>1, <2>2, <2>3, <2>4
<1> QED BY <1>1, Invariant, PTL

\* Somebody is alive on a queue only if somebody waits there.
LEMMA LiveWait ==
  ASSUME TypeOK, QueueInv, NEW c \in Chans, NEW q \in {prods[c], cons[c]}, Live(q) # <<>>
  PROVE  SomeWait(q)
<1>1. q \in Seq(Threads) /\ IsInjective(q)
  BY QueueFacts
<1>2. Live(q)[1] \in ToSet(q) /\ ~Decided(Live(q)[1])
  BY <1>1, LiveKept
<1> QED BY <1>2, DecidedIs DEF SomeWait

(* While nobody has the lock of a channel, producers that have not been    *)
(* decided wait only for a full buffer, consumers for an empty one, never  *)
(* both, and nobody waits at a closed channel (channel.hfa:107-125,        *)
(* :189-231, :288-327).                                                    *)
THEOREM NobodyWaitsInVain == Spec => []WaitersMatch
<1>1. ASSUME IInv PROVE WaitersMatch
  <2> SUFFICES ASSUME NEW c \in Chans, lock[c] = None
               PROVE  /\ Live(prods[c]) # <<>> => Len(buffer[c]) = Size[c]
                      /\ Live(cons[c]) # <<>> => buffer[c] = <<>>
                      /\ closed[c] \/ (Live(prods[c]) # <<>> /\ Live(cons[c]) # <<>>)
                           => Live(prods[c]) \o Live(cons[c]) = <<>>
    BY DEF WaitersMatch
  <2>1. TypeOK /\ QueueInv /\ LockInv /\ MatchInv
    BY <1>1 DEF IInv
  <2>2. Live(prods[c]) # <<>> => SomeWait(prods[c])
    BY <2>1, LiveWait
  <2>3. Live(cons[c]) # <<>> => SomeWait(cons[c])
    BY <2>1, LiveWait
  <2>4. /\ SomeWait(prods[c]) => Len(buffer[c]) = Size[c]
        /\ SomeWait(cons[c]) => buffer[c] = <<>> /\ ~SomeWait(prods[c])
        /\ closed[c] => \/ ~SomeWait(prods[c]) /\ ~SomeWait(cons[c])
                        \/ \E t \in Threads : pc[t] = "flush" /\ at[t] = c
    BY <2>1 DEF MatchInv
  <2>5. ~\E t \in Threads : pc[t] = "flush" /\ at[t] = c
    BY <2>1, ChannelAssumption DEF LockInv, LockOK, Locking
  <2>6. closed[c] => Live(prods[c]) = <<>> /\ Live(cons[c]) = <<>>
    BY <2>2, <2>3, <2>4, <2>5
  <2>7. <<>> \o <<>> = <<>>
    BY ConcatEmptySeq, EmptySeq
  <2> QED BY <2>2, <2>3, <2>4, <2>6, <2>7
<1> QED BY <1>1, Invariant, PTL

\* A thread that is listed is on the queue of its clause.
LEMMA OnItsQueue ==
  ASSUME TypeOK, QueueInv, NEW t \in Threads, NEW c \in Listed(t)
  PROVE  Contains(IF Clause(t, c) = "insert" THEN prods[c] ELSE cons[c], t)
<1>1. /\ prods[c] \in Seq(Threads) /\ cons[c] \in Seq(Threads)
      /\ t \in ToSet(prods[c]) => Clause(t, c) = "insert"
      /\ t \in ToSet(cons[c]) => Clause(t, c) = "remove"
      /\ t \in ToSet(prods[c]) \/ t \in ToSet(cons[c])
  BY QueueFacts DEF QueueInv, Listed
<1>2. ASSUME NEW q \in Seq(Threads), t \in ToSet(q) PROVE Contains(q, t)
  <2>1. PICK i \in 1 .. Len(q) : t = q[i]
    BY <1>2, SeqFacts
  <2> QED BY <2>1 DEF Contains
<1> QED BY <1>1, <1>2

(* A thread that sleeps and has not been unparked can be reached: it is on *)
(* the queue of every clause that is not done, no race for its status has  *)
(* been won, and its alarm is set if it has one.  And an unpark meets a    *)
(* park of the same call (select.hfa:170-191, Waituntil.cpp:930-1048).     *)
THEOREM SleepersAreReached == Spec => []UnparksMatchParks
<1>1. ASSUME IInv PROVE SleepersReachable
  <2> SUFFICES ASSUME NEW t \in Threads, pc[t] = "parked", ~wait[t].permit
               PROVE  /\ wait[t].status \in {"plain", "and", "UNSAT"}
                      /\ \A c \in ClausesOf(call[t]) \ wait[t].sat :
                           Contains(IF Clause(t, c) = "insert" THEN prods[c] ELSE cons[c], t)
                      /\ call[t].other = "timeout" => armed[t]
                      /\ wait[t].status = "and" => wait[t].park_counter = -1 /\ ClausesOf(call[t]) # wait[t].sat
    BY DEF SleepersReachable
  <2>1. OwnPlain(t) \/ OwnOr(t) \/ OwnAnd(t)
    BY <1>1, KindAt DEF IInv
  <2>2. ASSUME ClausesOf(call[t]) \ wait[t].sat \subseteq Listed(t)
        PROVE  \A c \in ClausesOf(call[t]) \ wait[t].sat :
                 Contains(IF Clause(t, c) = "insert" THEN prods[c] ELSE cons[c], t)
    BY <1>1, <2>2, OnItsQueue DEF IInv
  <2>3. CASE OwnPlain(t)
    <3>1. /\ wait[t].status = "plain" /\ call[t].other = "none"
          /\ ClausesOf(call[t]) \ wait[t].sat \subseteq Listed(t)
      BY <2>3 DEF OwnPlain, PlainOK
    <3> QED BY <3>1, <2>2
  <2>4. CASE OwnOr(t)
    <3>1. /\ todo[t] = {} /\ wait[t].status \notin {"plain", "and", "PENDING"} /\ ~Settled(wait[t])
      BY <2>4 DEF OwnOr, OrOK
    <3>2. /\ ClausesOf(call[t]) \ wait[t].sat \subseteq Listed(t)
          /\ call[t].other = "timeout" => armed[t]
      BY <2>4, <3>1 DEF OwnOr, OrOK
    <3> QED BY <3>1, <3>2, <2>2 DEF Settled
  <2>5. CASE OwnAnd(t)
    <3>1. /\ wait[t].status = "and" /\ call[t].other = "none"
          /\ wait[t].park_counter = -1 /\ ClausesOf(call[t]) # wait[t].sat
          /\ todo[t] = {}
      BY <2>5 DEF OwnAnd, AndOK
    <3>2. ClausesOf(call[t]) \ wait[t].sat \subseteq Listed(t)
      BY <2>5, <3>1 DEF OwnAnd, AndOK
    <3> QED BY <3>1, <3>2, <2>2
  <2> QED BY <2>1, <2>3, <2>4, <2>5
<1>2. ASSUME IInv PROVE UnparksMeant
  <2> SUFFICES ASSUME NEW t \in Threads, wait[t].permit
               PROVE  \/ pc[t] = "parked"
                      \/ pc[t] \in {"register", "race", "yielded"} /\ Decided(t)
    BY DEF UnparksMeant
  <2>1. OwnRun(t) \/ OwnPlain(t) \/ OwnOr(t) \/ OwnAnd(t)
    BY <1>2, KindAt DEF IInv
  <2>2. ~OwnRun(t)
    BY DEF OwnRun, Idle
  <2>3. OwnPlain(t) => pc[t] = "parked"
    BY DEF OwnPlain, PlainOK
  <2>4. OwnAnd(t) => pc[t] = "parked"
    BY DEF OwnAnd, AndOK
  <2>5. CASE OwnOr(t)
    <3>1. Settled(wait[t]) /\ pc[t] \in {"register", "pending", "yielded", "race", "parked"}
      BY <2>5 DEF OwnOr, OrOK, OrPcs
    <3>2. pc[t] # "pending"
      BY <2>5, <3>1 DEF OwnOr, OrOK, Settled
    <3> QED BY <3>1, <3>2, DecidedIs
  <2> QED BY <2>1, <2>2, <2>3, <2>4, <2>5
<1>3. IInv => UnparksMatchParks
  BY <1>1, <1>2 DEF UnparksMatchParks
<1> QED BY <1>3, Invariant, PTL

(* As long as no hand-off has passed a buffer that is not empty, what one  *)
(* thread inserts in a channel leaves it in that order                     *)
(* (tests/concurrency/waituntil/channel_close.cfa:28,                      *)
(* channel.hfa:403-414).                                                   *)
THEOREM ElementsInOrder == Spec => []InOrderUnlessOvertaken
<1>1. IInv => InOrderUnlessOvertaken
  BY DEF IInv
<1> QED BY <1>1, Invariant, PTL
=============================================================================
