---------------------------- MODULE MonitorProofs ---------------------------
(***************************************************************************)
(* Proofs about the monitors, for any threads, conditions, routines and    *)
(* groups of monitors and any depth of nesting: mutual exclusion through   *)
(* all the hand-overs, nobody lost in the queues and stacks, nobody        *)
(* stranded, and nobody let in past a thread that accepts but those whom   *)
(* it accepts.                                                             *)
(***************************************************************************)
EXTENDS Monitor, TLAPS, FiniteSetTheorems, SequenceTheorems

-----------------------------------------------------------------------------
(***************************************************************************)
(* The inductive invariant.                                                *)
(***************************************************************************)

Pcs == {"run", "enter", "blocked", "leave", "waiting"}

TypeOK ==
  /\ owner \in [Monitors -> Threads \cup {None}]
  /\ recursion \in [Monitors -> Nat]
  /\ entry_queue \in [Monitors -> Seq(Threads)]
  /\ signal_stack \in [Monitors -> Seq(Threads)]
  /\ mask \in [Monitors -> SUBSET Routines]
  /\ cond_monitors \in [Conditions -> SUBSET Monitors]
  /\ blocked \in [Conditions -> Seq(Threads)]
  /\ calls \in [Threads -> Seq(Routines)]
  /\ pc \in [Threads -> Pcs]
  /\ todo \in [Threads -> SUBSET Monitors]
  /\ node \in [Threads -> SUBSET Monitors]
  /\ ready \in [Threads -> SUBSET Monitors]
  /\ saved \in [Threads -> [Monitors -> [recursion : Nat, mask : SUBSET Routines]]]
  /\ permit \in [Threads -> BOOLEAN]

\* Where a thread stands says what it has to do, and who may be unparked.
CallOk(t) ==
  /\ pc[t] \in {"enter", "blocked", "leave"} => calls[t] # <<>> /\ todo[t] # {} /\ todo[t] \subseteq Group(t)
  /\ pc[t] = "waiting" => calls[t] # <<>> /\ node[t] = Group(t) /\ ready[t] \subseteq node[t]
  /\ pc[t] # "waiting" => node[t] = {} /\ ready[t] = {}
  /\ permit[t] => pc[t] \in {"blocked", "waiting"}

CallInv == \A t \in Threads : CallOk(t)

\* The entry queues hold those who wait to enter.
EntryInv ==
  /\ \A m \in Monitors : IsInjective(entry_queue[m])
  /\ \A t \in Threads, m \in Monitors :
       t \in ToSet(entry_queue[m]) <=> pc[t] = "blocked" /\ ~permit[t] /\ m = Min(todo[t])

\* The queues of conditions hold those who wait for a signal.
CondInv ==
  /\ \A c \in Conditions : IsInjective(blocked[c])
  /\ \A t \in Threads, c \in Conditions : t \in ToSet(blocked[c]) =>
       /\ pc[t] = "waiting" /\ ~permit[t]
       /\ node[t] = cond_monitors[c] /\ ready[t] = {}
       /\ \A d \in Conditions : t \in ToSet(blocked[d]) => d = c

OnCondition(t) == \E c \in Conditions : t \in ToSet(blocked[c])

\* The stacks hold the criteria that are not ready.
StackInv ==
  /\ \A m \in Monitors : IsInjective(signal_stack[m])
  /\ \A t \in Threads, m \in Monitors :
       t \in ToSet(signal_stack[m]) <=>
         pc[t] = "waiting" /\ ~permit[t] /\ m \in node[t] \ ready[t] /\ ~OnCondition(t)

\* A thread that was unparked in an entry queue and has not gone on.
Given(t, m) == IF pc[t] = "blocked" /\ permit[t] /\ m = Min(todo[t]) THEN 1 ELSE 0

\* Who owns a monitor is in it, on its way into it, or will have it back.
ClaimOk(t, m) ==
  /\ Entries(t, m) > 0 /\ m \notin node[t] => owner[m] = t
  /\ owner[m] = t /\ m \notin node[t] =>
       /\ recursion[m] = Entries(t, m) + Given(t, m)
       /\ Entries(t, m) > 0 \/ (pc[t] \in {"enter", "blocked"} /\ m \in todo[t])
  /\ Given(t, m) = 1 => owner[m] = t /\ Entries(t, m) = 0
  /\ t \in ToSet(entry_queue[m]) => owner[m] # t

ClaimInv == \A t \in Threads, m \in Monitors : ClaimOk(t, m)

\* A thread that waits with its monitors has those that are ready.
WaitOk(t) ==
  /\ \A m \in ready[t] : owner[m] = t
  /\ pc[t] = "waiting" /\ permit[t] => \A m \in node[t] : owner[m] = t
  /\ pc[t] = "waiting" /\ ~permit[t] =>
       /\ ready[t] # node[t]
       /\ \A m \in node[t] : owner[m] = t => m \in ready[t] \/ mask[m] # {}
  /\ \A m \in node[t] : saved[t][m].recursion = Entries(t, m)
  /\ \A m \in Monitors : saved[t][m].mask = {}

WaitInv == \A t \in Threads : WaitOk(t)

\* Only a thread that waits for a routine has a mask.
MaskInv ==
  \A m \in Monitors : mask[m] # {} => \E t \in Threads : owner[m] = t /\ t \in ToSet(signal_stack[m])

\* Nobody waits for a monitor that is free.
FreeInv ==
  \A m \in Monitors : owner[m] = None => entry_queue[m] = <<>> /\ signal_stack[m] = <<>>

IInv == TypeOK /\ CallInv /\ EntryInv /\ CondInv /\ StackInv /\ ClaimInv /\ WaitInv /\ MaskInv /\ FreeInv

-----------------------------------------------------------------------------
(***************************************************************************)
(* Sequences without duplicates as the sets of their elements.             *)
(***************************************************************************)

\* Append adds an element, at the end of a queue that does not have it.
LEMMA AppendSet ==
  ASSUME NEW S, NEW q \in Seq(S), NEW e \in S
  PROVE  /\ Append(q, e) \in Seq(S)
         /\ Len(Append(q, e)) = Len(q) + 1
         /\ ToSet(Append(q, e)) = ToSet(q) \cup {e}
         /\ IsInjective(q) /\ e \notin ToSet(q) => IsInjective(Append(q, e))
<1>1. /\ Append(q, e) \in Seq(S) /\ Len(Append(q, e)) = Len(q) + 1
      /\ \A i \in 1 .. Len(q) : Append(q, e)[i] = q[i]
      /\ Append(q, e)[Len(q) + 1] = e
  BY AppendProperties
<1>2. /\ Len(q) \in Nat /\ DOMAIN q = 1 .. Len(q)
      /\ DOMAIN Append(q, e) = 1 .. (Len(q) + 1)
  BY <1>1, LenProperties
<1>3. ToSet(Append(q, e)) = ToSet(q) \cup {e}
  BY <1>1, <1>2 DEF ToSet
<1>4. ASSUME IsInjective(q), e \notin ToSet(q)
      PROVE  IsInjective(Append(q, e))
  BY <1>1, <1>2, <1>4 DEF IsInjective, ToSet
<1>. QED BY <1>1, <1>3, <1>4

\* Tail removes the head, which was there once.
LEMMA TailSet ==
  ASSUME NEW S, NEW q \in Seq(S), q # <<>>
  PROVE  /\ Head(q) \in S /\ Head(q) \in ToSet(q)
         /\ Tail(q) \in Seq(S)
         /\ Len(Tail(q)) = Len(q) - 1 /\ Len(q) \in Nat \ {0}
         /\ IsInjective(q) => IsInjective(Tail(q)) /\ ToSet(Tail(q)) = ToSet(q) \ {Head(q)}
<1>1. /\ Head(q) \in S /\ Head(q) = q[1] /\ Tail(q) \in Seq(S)
      /\ Len(Tail(q)) = Len(q) - 1
      /\ \A i \in 1 .. Len(Tail(q)) : Tail(q)[i] = q[i + 1]
  BY HeadTailProperties
<1>2. /\ Len(q) \in Nat \ {0} /\ DOMAIN q = 1 .. Len(q)
      /\ DOMAIN Tail(q) = 1 .. (Len(q) - 1)
  BY <1>1, LenProperties, EmptySeq
<1>3. Head(q) \in ToSet(q)
  BY <1>1, <1>2 DEF ToSet
<1>4. ASSUME IsInjective(q)
      PROVE  IsInjective(Tail(q)) /\ ToSet(Tail(q)) = ToSet(q) \ {Head(q)}
  <2>1. IsInjective(Tail(q))
    BY <1>1, <1>2, <1>4 DEF IsInjective
  <2>2. ToSet(Tail(q)) \subseteq ToSet(q) \ {Head(q)}
    BY <1>1, <1>2, <1>4 DEF IsInjective, ToSet
  <2>3. ASSUME NEW x \in ToSet(q), x # Head(q)
        PROVE  x \in ToSet(Tail(q))
    <3>1. PICK i \in 1 .. Len(q) : x = q[i]
      BY <1>2 DEF ToSet
    <3>2. i - 1 \in 1 .. (Len(q) - 1) /\ Tail(q)[i - 1] = x
      BY <1>1, <1>2, <2>3, <3>1
    <3>. QED BY <1>2, <3>2 DEF ToSet
  <2>. QED BY <2>1, <2>2, <2>3
<1>. QED BY <1>1, <1>2, <1>3, <1>4

\* RemoveAt removes the element at its position.
LEMMA RemoveSet ==
  ASSUME NEW S, NEW q \in Seq(S), NEW i \in DOMAIN q
  PROVE  /\ RemoveAt(q, i) \in Seq(S)
         /\ Len(RemoveAt(q, i)) = Len(q) - 1
         /\ IsInjective(q) => IsInjective(RemoveAt(q, i)) /\ ToSet(RemoveAt(q, i)) = ToSet(q) \ {q[i]}
<1>. DEFINE l == SubSeq(q, 1, i - 1)
            r == SubSeq(q, i + 1, Len(q))
<1>1. Len(q) \in Nat /\ DOMAIN q = 1 .. Len(q) /\ i \in 1 .. Len(q)
      /\ \A j \in 1 .. Len(q) : q[j] \in S
  BY LenProperties, ElementOfSeq
<1>2. /\ l \in Seq(S) /\ Len(l) = i - 1
      /\ \A j \in 1 .. (i - 1) : l[j] = q[j]
  <2>1. \A j \in 1 .. (i - 1) : q[j] \in S
    BY <1>1
  <2>2. 1 \in Int /\ i - 1 \in Int
    BY <1>1
  <2>. QED BY <1>1, <2>1, <2>2, SubSeqProperties
<1>3. /\ r \in Seq(S) /\ Len(r) = Len(q) - i
      /\ \A j \in 1 .. (Len(q) - i) : r[j] = q[i + j]
  <2>1. \A j \in (i + 1) .. Len(q) : q[j] \in S
    BY <1>1
  <2>2. i + 1 \in Int /\ Len(q) \in Int
    BY <1>1
  <2>3. /\ r \in Seq(S)
        /\ Len(r) = IF i + 1 <= Len(q) THEN Len(q) - (i + 1) + 1 ELSE 0
        /\ \A j \in 1 .. (Len(q) - (i + 1) + 1) : r[j] = q[i + 1 + j - 1]
    BY <2>1, <2>2, SubSeqProperties
  <2>4. Len(q) - (i + 1) + 1 = Len(q) - i /\ (i + 1 > Len(q) => Len(q) - i = 0)
    BY <1>1
  <2>5. r \in Seq(S) /\ Len(r) = Len(q) - i
    BY <1>1, <2>3, <2>4
  <2>6. ASSUME NEW j \in 1 .. (Len(q) - i)
        PROVE  r[j] = q[i + j]
    <3>1. i + 1 + j - 1 = i + j
      BY <1>1
    <3>. QED BY <2>3, <2>4, <3>1
  <2>. QED BY <2>5, <2>6
<1>. HIDE DEF l, r
<1>4. /\ RemoveAt(q, i) \in Seq(S) /\ Len(RemoveAt(q, i)) = Len(q) - 1
      /\ \A j \in 1 .. (i - 1) : RemoveAt(q, i)[j] = q[j]
      /\ \A j \in i .. (Len(q) - 1) : RemoveAt(q, i)[j] = q[j + 1]
  <2>1. RemoveAt(q, i) = l \o r
    BY DEF RemoveAt, l, r
  <2>2. /\ RemoveAt(q, i) \in Seq(S)
        /\ Len(RemoveAt(q, i)) = Len(l) + Len(r)
        /\ \A j \in 1 .. Len(l) + Len(r) :
             RemoveAt(q, i)[j] = IF j <= Len(l) THEN l[j] ELSE r[j - Len(l)]
    <3>1. /\ l \o r \in Seq(S)
          /\ Len(l \o r) = Len(l) + Len(r)
          /\ \A j \in 1 .. Len(l) + Len(r) :
               (l \o r)[j] = IF j <= Len(l) THEN l[j] ELSE r[j - Len(l)]
      BY <1>2, <1>3, ConcatProperties, Zenon
    <3>. QED BY <2>1, <3>1, Zenon
  <2>3. Len(RemoveAt(q, i)) = Len(q) - 1
    BY <1>1, <1>2, <1>3, <2>2
  <2>4. ASSUME NEW j \in 1 .. (i - 1)
        PROVE  RemoveAt(q, i)[j] = q[j]
    BY <1>1, <1>2, <1>3, <2>2
  <2>5. ASSUME NEW j \in i .. (Len(q) - 1)
        PROVE  RemoveAt(q, i)[j] = q[j + 1]
    <3>1. j - (i - 1) \in 1 .. (Len(q) - i) /\ i + (j - (i - 1)) = j + 1
      BY <1>1
    <3>2. RemoveAt(q, i)[j] = r[j - (i - 1)]
      BY <1>1, <1>2, <1>3, <2>2
    <3>. QED BY <1>3, <3>1, <3>2
  <2>. QED BY <2>2, <2>3, <2>4, <2>5
<1>5. DOMAIN RemoveAt(q, i) = 1 .. (Len(q) - 1)
  BY <1>4, LenProperties
<1>6. ASSUME IsInjective(q)
      PROVE  IsInjective(RemoveAt(q, i)) /\ ToSet(RemoveAt(q, i)) = ToSet(q) \ {q[i]}
  <2>1. ASSUME NEW j \in 1 .. (Len(q) - 1)
        PROVE  \E k \in 1 .. Len(q) :
                 /\ k = (IF j < i THEN j ELSE j + 1)
                 /\ RemoveAt(q, i)[j] = q[k]
    BY <1>1, <1>4
  <2>2. IsInjective(RemoveAt(q, i))
    <3>1. ASSUME NEW a \in 1 .. (Len(q) - 1), NEW b \in 1 .. (Len(q) - 1),
                 RemoveAt(q, i)[a] = RemoveAt(q, i)[b]
          PROVE  a = b
      <4>1. PICK k \in 1 .. Len(q) : k = (IF a < i THEN a ELSE a + 1) /\ RemoveAt(q, i)[a] = q[k]
        BY <2>1
      <4>2. PICK m \in 1 .. Len(q) : m = (IF b < i THEN b ELSE b + 1) /\ RemoveAt(q, i)[b] = q[m]
        BY <2>1
      <4>3. k = m
        BY <1>1, <1>6, <3>1, <4>1, <4>2 DEF IsInjective
      <4>. QED BY <1>1, <4>1, <4>2, <4>3
    <3>. QED BY <1>5, <3>1 DEF IsInjective
  <2>3. ToSet(RemoveAt(q, i)) \subseteq ToSet(q) \ {q[i]}
    <3>1. ASSUME NEW j \in 1 .. (Len(q) - 1)
          PROVE  RemoveAt(q, i)[j] \in ToSet(q) \ {q[i]}
      <4>1. PICK k \in 1 .. Len(q) : k = (IF j < i THEN j ELSE j + 1) /\ RemoveAt(q, i)[j] = q[k]
        BY <2>1
      <4>2. k # i /\ DOMAIN q = 1 .. Len(q)
        BY <1>1, <4>1
      <4>3. q[k] # q[i]
        BY <1>1, <1>6, <4>2 DEF IsInjective
      <4>. QED BY <4>1, <4>2, <4>3 DEF ToSet
    <3>. QED BY <1>5, <3>1 DEF ToSet
  <2>4. ASSUME NEW x \in ToSet(q), x # q[i]
        PROVE  x \in ToSet(RemoveAt(q, i))
    <3>1. PICK j \in 1 .. Len(q) : x = q[j]
      BY <1>1 DEF ToSet
    <3>2. CASE j < i
      BY <1>1, <1>4, <1>5, <3>1, <3>2 DEF ToSet
    <3>3. CASE j > i
      <4>1. j - 1 \in i .. (Len(q) - 1) /\ j - 1 \in 1 .. (Len(q) - 1) /\ (j - 1) + 1 = j
        BY <1>1, <3>3
      <4>2. RemoveAt(q, i)[j - 1] = x
        BY <1>4, <3>1, <4>1
      <4>. QED BY <1>5, <4>1, <4>2 DEF ToSet
    <3>. QED BY <1>1, <2>4, <3>1, <3>2, <3>3
  <2>. QED BY <2>2, <2>3, <2>4
<1>. QED BY <1>4, <1>6

\* A criterion is pushed on a stack that does not have one of the thread.
LEMMA PushSet ==
  ASSUME NEW S, NEW q \in Seq(S), NEW e \in S
  PROVE  /\ <<e>> \o q \in Seq(S) /\ <<e>> \o q # <<>>
         /\ ToSet(<<e>> \o q) = ToSet(q) \cup {e}
         /\ IsInjective(q) /\ e \notin ToSet(q) => IsInjective(<<e>> \o q)
<1> DEFINE p == <<e>> \o q
<1>1. /\ <<e>> \in Seq(S) /\ Len(<<e>>) = 1 /\ <<e>>[1] = e OBVIOUS
<1>2. /\ p \in Seq(S) /\ Len(p) = 1 + Len(q)
      /\ \A i \in 1 .. Len(p) : p[i] = IF i <= 1 THEN <<e>>[i] ELSE q[i - 1]
  BY <1>1, ConcatProperties
<1>3. Len(q) \in Nat /\ DOMAIN q = 1 .. Len(q) /\ DOMAIN p = 1 .. (1 + Len(q))
  BY <1>2, LenProperties
<1>4. p[1] = e /\ \A i \in 2 .. 1 + Len(q) : p[i] = q[i - 1] BY <1>1, <1>2, <1>3
<1> HIDE DEF p
<1>5. ToSet(p) = ToSet(q) \cup {e}
  <2>1. ASSUME NEW x \in ToSet(q) PROVE x \in ToSet(p)
    <3>1. PICK i \in 1 .. Len(q) : x = q[i] BY <1>3 DEF ToSet
    <3>2. i + 1 \in 2 .. 1 + Len(q) /\ i + 1 - 1 = i BY <1>3
    <3>3. p[i + 1] = x BY <1>4, <3>1, <3>2
    <3> QED BY <1>3, <3>2, <3>3 DEF ToSet
  <2>2. e \in ToSet(p) BY <1>3, <1>4 DEF ToSet
  <2>3. ASSUME NEW x \in ToSet(p) PROVE x \in ToSet(q) \cup {e}
    <3>1. PICK i \in 1 .. 1 + Len(q) : x = p[i] BY <1>3 DEF ToSet
    <3>2. CASE i = 1 BY <1>4, <3>1, <3>2
    <3>3. CASE i # 1
      <4>1. i \in 2 .. 1 + Len(q) /\ i - 1 \in 1 .. Len(q) BY <1>3, <3>3
      <4> QED BY <1>3, <1>4, <3>1, <4>1 DEF ToSet
    <3> QED BY <3>2, <3>3
  <2> QED BY <2>1, <2>2, <2>3
<1>6. ASSUME IsInjective(q), e \notin ToSet(q) PROVE IsInjective(p)
  <2>1. ASSUME NEW i \in 1 .. 1 + Len(q), NEW j \in 1 .. 1 + Len(q), p[i] = p[j] PROVE i = j
    <3>1. \A k \in 2 .. 1 + Len(q) : k - 1 \in DOMAIN q /\ p[k] = q[k - 1] BY <1>3, <1>4
    <3>2. \A k \in 2 .. 1 + Len(q) : p[k] # e BY <1>6, <3>1 DEF ToSet
    <3>3. CASE i = 1 \/ j = 1 BY <1>3, <1>4, <2>1, <3>2, <3>3
    <3>4. CASE i # 1 /\ j # 1
      <4>1. i \in 2 .. 1 + Len(q) /\ j \in 2 .. 1 + Len(q) BY <1>3, <3>4
      <4>2. i - 1 = j - 1 BY <1>6, <2>1, <3>1, <4>1 DEF IsInjective
      <4> QED BY <1>3, <4>2
    <3> QED BY <3>3, <3>4
  <2> QED BY <1>3, <2>1 DEF IsInjective
<1>7. p # <<>> BY <1>2, <1>3
<1> QED BY <1>2, <1>5, <1>6, <1>7 DEF p

-----------------------------------------------------------------------------
(***************************************************************************)
(* The first and the last monitor of a set.                                *)
(***************************************************************************)

Less == {p \in Nat \X Nat : p[1] < p[2]}

LEMMA MinIsThere ==
  ASSUME NEW S \in SUBSET Nat, S # {}
  PROVE  Min(S) \in S /\ \A y \in S : Min(S) <= y
<1>1. IsWellFoundedOn(Less, Nat) BY NatLessThanWellFounded DEF OpToRel, Less
<1>2. PICK x \in S : \A y \in S : <<y, x>> \notin Less BY <1>1, WFMin
<1>3. ASSUME NEW y \in S PROVE x <= y
  <2>1. <<y, x>> \in Nat \X Nat OBVIOUS
  <2>2. ~(y < x) BY <1>2, <2>1 DEF Less
  <2> QED BY <2>2
<1> QED BY <1>3 DEF Min

LEMMA MaxIsThere ==
  ASSUME NEW S \in SUBSET Nat, S # {}, IsFiniteSet(S)
  PROVE  Max(S) \in S
<1> DEFINE above(x) == {y \in S : y > x}
           family == {above(x) : x \in S}
<1>1. IsWellFoundedOn(StrictSubsetOrdering(S), FiniteSubsetsOf(S)) BY FS_StrictSubsetOrderingWellFounded
<1>2. family \subseteq FiniteSubsetsOf(S) /\ family # {}
  <2>1. FiniteSubsetsOf(S) = SUBSET S BY FS_FiniteSubsetsOfFinite
  <2>2. \A x \in S : above(x) \in SUBSET S OBVIOUS
  <2>3. family \subseteq SUBSET S BY <2>2
  <2>4. PICK x \in S : TRUE OBVIOUS
  <2>5. above(x) \in family OBVIOUS
  <2> QED BY <2>1, <2>3, <2>5
<1>3. PICK U \in family : \A V \in family : <<V, U>> \notin StrictSubsetOrdering(S)
  <2> HIDE DEF family
  <2> QED BY <1>1, <1>2, WFMin
<1>4. PICK x \in S : U = above(x) OBVIOUS
<1>5. ASSUME NEW y \in S PROVE x >= y
  <2>1. SUFFICES ASSUME y > x PROVE FALSE OBVIOUS
  <2>2. above(y) \in family /\ above(y) \in SUBSET S /\ above(x) \in SUBSET S OBVIOUS
  <2>3. above(y) \subseteq above(x)
    <3>1. ASSUME NEW z \in S, z > y PROVE z > x
      <4>1. x \in Nat /\ y \in Nat /\ z \in Nat OBVIOUS
      <4> QED BY <2>1, <3>1, <4>1
    <3> QED BY <3>1
  <2>4. y \in above(x) /\ y \notin above(y) BY <2>1
  <2>5. <<above(y), above(x)>> \in StrictSubsetOrdering(S) BY <2>2, <2>3, <2>4 DEF StrictSubsetOrdering
  <2> QED BY <1>3, <1>4, <2>2, <2>5
<1> QED BY <1>5 DEF Max

-----------------------------------------------------------------------------
(***************************************************************************)
(* How many calls count a monitor: Entries, for a thread with the calls    *)
(* cs that stands at p with the monitors td to enter or to leave.          *)
(***************************************************************************)

Counts(p, td, m) ==
  CASE p \in {"enter", "blocked"} -> m \notin td
    [] p = "leave" -> m \in td
    [] OTHER -> TRUE

Tally(cs, p, td, m) ==
  Cardinality({i \in DOMAIN cs : /\ m \in cs[i].group
                                 /\ i = Len(cs) => Counts(p, td, m)})

\* The calls around the innermost one.
Outer(cs, m) == Cardinality({i \in 1 .. Len(cs) - 1 : m \in cs[i].group})

LEMMA EntriesAreTallied ==
  ASSUME NEW t \in Threads, NEW m \in Monitors
  PROVE  /\ Entries(t, m) = Tally(calls[t], pc[t], todo[t], m)
         /\ Entries(t, m)' = Tally(calls'[t], pc'[t], todo'[t], m)
BY DEF Entries, Tally, Counts

LEMMA TallyValue ==
  ASSUME NEW cs \in Seq(Routines), NEW p, NEW td, NEW m
  PROVE  /\ Tally(cs, p, td, m) \in Nat /\ Outer(cs, m) \in Nat
         /\ cs = <<>> => Tally(cs, p, td, m) = 0
         /\ cs # <<>> => Tally(cs, p, td, m) =
              Outer(cs, m) + IF m \in Last(cs).group /\ Counts(p, td, m) THEN 1 ELSE 0
<1> DEFINE O == {i \in 1 .. Len(cs) - 1 : m \in cs[i].group}
           T == {i \in DOMAIN cs : /\ m \in cs[i].group
                                   /\ i = Len(cs) => Counts(p, td, m)}
<1>1. Len(cs) \in Nat /\ DOMAIN cs = 1 .. Len(cs) BY LenProperties
<1>2. IsFiniteSet(O) /\ Cardinality(O) \in Nat
  <2>1. 1 \in Int /\ Len(cs) - 1 \in Int BY <1>1
  <2>2. IsFiniteSet(1 .. Len(cs) - 1) BY <2>1, FS_Interval
  <2>3. O \in SUBSET (1 .. Len(cs) - 1) OBVIOUS
  <2> HIDE DEF O
  <2>4. IsFiniteSet(O) BY <2>2, <2>3, FS_Subset
  <2> QED BY <2>4, FS_CardinalityType
<1>3. CASE cs = <<>>
  <2>1. T = {} BY <1>3
  <2>2. Tally(cs, p, td, m) = 0 BY <2>1, FS_EmptySet DEF Tally
  <2> QED BY <1>2, <1>3, <2>2 DEF Outer
<1>4. CASE cs # <<>>
  <2>1. Len(cs) > 0 BY <1>1, <1>4, EmptySeq
  <2> DEFINE n == Len(cs)
  <2>2. n \notin O BY <1>1
  <2>3. CASE m \in cs[n].group /\ Counts(p, td, m)
    <3>1. T = O \cup {n} BY <1>1, <2>1, <2>3
    <3>2. Cardinality(T) = Cardinality(O) + 1 BY <1>2, <2>2, <3>1, FS_AddElement
    <3> QED BY <1>2, <1>4, <2>3, <3>2 DEF Tally, Outer, Last
  <2>4. CASE ~(m \in cs[n].group /\ Counts(p, td, m))
    <3>1. T = O BY <1>1, <2>1, <2>4
    <3>2. Tally(cs, p, td, m) = Cardinality(O) BY <3>1 DEF Tally
    <3>3. Outer(cs, m) = Cardinality(O) BY DEF Outer
    <3>4. Last(cs) = cs[n] BY DEF Last
    <3>5. (IF m \in Last(cs).group /\ Counts(p, td, m) THEN 1 ELSE 0) = 0 BY <2>4, <3>4
    <3> HIDE DEF O
    <3> QED BY <1>2, <1>4, <3>2, <3>3, <3>5
  <2> QED BY <2>3, <2>4
<1> QED BY <1>3, <1>4

(* A new call counts nothing yet; the one around it counted all it has. *)
LEMMA TallyCall ==
  ASSUME NEW cs \in Seq(Routines), NEW r \in Routines, NEW td, NEW m
  PROVE  Tally(Append(cs, r), "enter", r.group, m) = Tally(cs, "run", td, m)
<1> DEFINE ds == Append(cs, r)
<1>1. /\ ds \in Seq(Routines) /\ ds # <<>> /\ Len(ds) = Len(cs) + 1
      /\ Len(cs) \in Nat /\ DOMAIN cs = 1 .. Len(cs)
      /\ Last(ds) = r /\ \A i \in 1 .. Len(cs) : ds[i] = cs[i]
  BY AppendProperties, LenProperties DEF Last
<1>2. Tally(ds, "enter", r.group, m) = Outer(ds, m)
  <2>1. m \in r.group => ~Counts("enter", r.group, m) BY DEF Counts
  <2> HIDE DEF ds
  <2> QED BY <1>1, <2>1, TallyValue
<1>3. {i \in 1 .. Len(ds) - 1 : m \in ds[i].group} =
        {i \in DOMAIN cs : /\ m \in cs[i].group
                           /\ i = Len(cs) => Counts("run", td, m)}
  <2>1. Counts("run", td, m) BY DEF Counts
  <2>2. 1 .. Len(ds) - 1 = 1 .. Len(cs) BY <1>1
  <2> HIDE DEF ds
  <2> QED BY <1>1, <2>1, <2>2
<1> QED BY <1>2, <1>3 DEF Outer, Tally

(* Entering counts the monitor that was entered. *)
LEMMA TallyEnter ==
  \A cs \in Seq(Routines), p \in {"enter", "blocked"}, q \in {"enter", "run"} : \A td, m : \A x \in td :
    cs # <<>> /\ td \subseteq Last(cs).group /\ (q = "run" => td \subseteq {x}) =>
      Tally(cs, q, td \ {x}, m) = Tally(cs, p, td, m) + IF m = x THEN 1 ELSE 0
<1> TAKE cs \in Seq(Routines), p \in {"enter", "blocked"}, q \in {"enter", "run"}
<1> TAKE td, m
<1> TAKE x \in td
<1> HAVE cs # <<>> /\ td \subseteq Last(cs).group /\ (q = "run" => td \subseteq {x})
<1>1. Counts(p, td, m) <=> m \notin td BY DEF Counts
<1>2. m \in Last(cs).group => (Counts(q, td \ {x}, m) <=> m \notin td \/ m = x)
  BY DEF Counts
<1>3. /\ Outer(cs, m) \in Nat
      /\ Tally(cs, p, td, m) = Outer(cs, m) + IF m \in Last(cs).group /\ Counts(p, td, m) THEN 1 ELSE 0
      /\ Tally(cs, q, td \ {x}, m) =
           Outer(cs, m) + IF m \in Last(cs).group /\ Counts(q, td \ {x}, m) THEN 1 ELSE 0
  BY TallyValue
<1> QED BY <1>1, <1>2, <1>3

(* Leaving begins with all of the group counted ... *)
LEMMA TallyStay ==
  ASSUME NEW cs \in Seq(Routines), NEW td, NEW m
  PROVE  /\ Tally(cs, "waiting", td, m) = Tally(cs, "run", td, m)
         /\ Tally(cs, "blocked", td, m) = Tally(cs, "enter", td, m)
         /\ cs # <<>> => Tally(cs, "leave", Last(cs).group, m) = Tally(cs, "run", td, m)
<1>1. /\ Counts("waiting", td, m) /\ Counts("run", td, m)
      /\ Counts("blocked", td, m) <=> Counts("enter", td, m)
      /\ m \in Last(cs).group => Counts("leave", Last(cs).group, m)
  BY DEF Counts
<1>2. CASE cs = <<>>
  <2>1. \A p : Tally(cs, p, td, m) = 0 BY <1>2, TallyValue
  <2> QED BY <1>2, <2>1
<1>3. CASE cs # <<>> BY <1>1, <1>3, TallyValue
<1> QED BY <1>2, <1>3

(* ... counts the monitor that was left no more ... *)
LEMMA TallyLeave ==
  ASSUME NEW cs \in Seq(Routines), cs # <<>>, NEW td, td \subseteq Last(cs).group, NEW x \in td, NEW m
  PROVE  Tally(cs, "leave", td, m) = Tally(cs, "leave", td \ {x}, m) + IF m = x THEN 1 ELSE 0
<1>1. Counts("leave", td, m) <=> m \in td BY DEF Counts
<1>2. Counts("leave", td \ {x}, m) <=> m \in td \ {x} BY DEF Counts
<1>3. Outer(cs, m) \in Nat BY TallyValue
<1> QED BY <1>1, <1>2, <1>3, TallyValue

(* ... and ends with the calls around it. *)
LEMMA TallyReturn ==
  ASSUME NEW cs \in Seq(Routines), cs # <<>>, NEW m
  PROVE  /\ Front(cs) \in Seq(Routines)
         /\ Tally(Front(cs), "run", {}, m) = Tally(cs, "leave", {}, m)
<1> DEFINE ds == Front(cs)
<1>1. /\ Len(cs) \in Nat /\ Len(cs) > 0
      /\ \A i \in 1 .. Len(cs) : cs[i] \in Routines
  BY LenProperties, EmptySeq, ElementOfSeq
<1>2. /\ ds \in Seq(Routines) /\ Len(ds) = Len(cs) - 1
      /\ \A i \in 1 .. Len(cs) - 1 : ds[i] = cs[i]
  <2>1. \A i \in 1 .. Len(cs) - 1 : cs[i] \in Routines BY <1>1
  <2>2. 1 \in Int /\ Len(cs) - 1 \in Int BY <1>1
  <2> DEFINE l == SubSeq(cs, 1, Len(cs) - 1)
  <2>3. /\ l \in Seq(Routines)
        /\ Len(l) = IF 1 <= Len(cs) - 1 THEN Len(cs) - 1 - 1 + 1 ELSE 0
        /\ \A i \in 1 .. Len(cs) - 1 - 1 + 1 : l[i] = cs[1 + i - 1]
    BY <2>1, <2>2, SubSeqProperties
  <2>4. ds = l BY DEF Front
  <2> HIDE DEF l, ds
  <2>5. Len(cs) - 1 - 1 + 1 = Len(cs) - 1 /\ (~(1 <= Len(cs) - 1) => Len(cs) - 1 = 0)
    <3>1. \A n \in Nat : n > 0 => n - 1 - 1 + 1 = n - 1 /\ (~(1 <= n - 1) => n - 1 = 0) OBVIOUS
    <3> QED BY <1>1, <3>1
  <2>6. \A i \in 1 .. Len(cs) - 1 : 1 + i - 1 = i BY <1>1
  <2> QED BY <1>1, <2>3, <2>4, <2>5, <2>6
<1>3. DOMAIN ds = 1 .. Len(cs) - 1 BY <1>2, LenProperties
<1> HIDE DEF ds
<1>4. Tally(cs, "leave", {}, m) = Outer(cs, m)
  <2>1. ~Counts("leave", {}, m) BY DEF Counts
  <2> QED BY <2>1, TallyValue
<1>5. Tally(ds, "run", {}, m) = Outer(cs, m)
  <2>1. Counts("run", {}, m) BY DEF Counts
  <2>2. {i \in DOMAIN ds : m \in ds[i].group /\ (i = Len(ds) => Counts("run", {}, m))}
          = {i \in 1 .. Len(cs) - 1 : m \in cs[i].group}
    BY <1>2, <1>3, <2>1
  <2> QED BY <2>2 DEF Tally, Outer
<1> QED BY <1>2, <1>4, <1>5 DEF ds

-----------------------------------------------------------------------------
(***************************************************************************)
(* What the invariant says of a thread and its group.                      *)
(***************************************************************************)

LEMMA LastThere == ASSUME NEW cs \in Seq(Routines), cs # <<>> PROVE Last(cs) \in Routines
<1>1. Len(cs) \in Nat /\ Len(cs) > 0 BY LenProperties, EmptySeq
<1>2. Len(cs) \in 1 .. Len(cs) BY <1>1
<1> QED BY <1>2, ElementOfSeq DEF Last

LEMMA GroupFacts ==
  ASSUME NEW r \in Routines
  PROVE  /\ r.group \in SUBSET Monitors /\ r.group # {} /\ IsFiniteSet(r.group)
         /\ Min(r.group) \in r.group
<1>1. r.group \in Groups BY DEF Groups
<1>2. r.group \in SUBSET Monitors /\ r.group \in SUBSET Nat /\ r.group # {} /\ IsFiniteSet(r.group)
  BY <1>1, MonitorAssumption DEF MonitorAssumption
<1>3. Min(r.group) \in r.group BY <1>2, MinIsThere
<1> QED BY <1>2, <1>3

(* The group of a thread that has called something. *)
LEMMA OwnGroup ==
  ASSUME TypeOK, NEW t \in Threads, calls[t] # <<>>
  PROVE  /\ calls[t] \in Seq(Routines) /\ Innermost(t) \in Routines
         /\ Group(t) \in SUBSET Monitors /\ Group(t) # {} /\ IsFiniteSet(Group(t))
         /\ Min(Group(t)) \in Group(t)
<1>1. calls[t] \in Seq(Routines) BY DEF TypeOK
<1>2. Innermost(t) \in Routines BY <1>1, LastThere DEF Innermost
<1> QED BY <1>1, <1>2, GroupFacts DEF Group

(* The monitors that a thread has yet to enter or to leave. *)
LEMMA OwnTodo ==
  ASSUME IInv, NEW t \in Threads, pc[t] \in {"enter", "blocked", "leave"}
  PROVE  /\ calls[t] \in Seq(Routines) /\ calls[t] # <<>>
         /\ todo[t] \in SUBSET Monitors /\ todo[t] # {} /\ todo[t] \subseteq Last(calls[t]).group
         /\ Min(todo[t]) \in todo[t] /\ Max(todo[t]) \in todo[t]
<1>1. /\ calls[t] \in Seq(Routines) /\ calls[t] # <<>>
      /\ todo[t] \in SUBSET Monitors /\ todo[t] # {} /\ todo[t] \subseteq Group(t)
  BY DEF IInv, TypeOK, CallInv, CallOk
<1>2. TypeOK BY DEF IInv
<1>3. IsFiniteSet(Group(t)) BY <1>1, <1>2, OwnGroup
<1>4. IsFiniteSet(todo[t]) BY <1>1, <1>3, FS_Subset
<1>5. todo[t] \in SUBSET Nat BY <1>1, MonitorAssumption DEF MonitorAssumption
<1>6. Min(todo[t]) \in todo[t] BY <1>1, <1>5, MinIsThere
<1>7. Max(todo[t]) \in todo[t] BY <1>1, <1>4, <1>5, MaxIsThere
<1> QED BY <1>1, <1>6, <1>7 DEF Group, Innermost

LEMMA EntriesType ==
  ASSUME TypeOK, NEW t \in Threads, NEW m \in Monitors
  PROVE  Entries(t, m) \in Nat
<1>1. calls[t] \in Seq(Routines) BY DEF TypeOK
<1> QED BY <1>1, TallyValue, EntriesAreTallied

(* A thread that runs, enters or leaves is nowhere in a queue or a stack. *)
LEMMA Active ==
  ASSUME IInv, NEW t \in Threads, pc[t] \in {"run", "enter", "leave"}
  PROVE  /\ permit[t] = FALSE /\ node[t] = {} /\ ready[t] = {} /\ ~OnCondition(t)
         /\ \A m \in Monitors : /\ t \notin ToSet(entry_queue[m]) /\ t \notin ToSet(signal_stack[m])
                                /\ Given(t, m) = 0
                                /\ owner[m] = t => mask[m] = {}
<1>1. permit[t] \in BOOLEAN /\ ~permit[t] BY DEF IInv, TypeOK, CallInv, CallOk
<1>2. permit[t] = FALSE BY <1>1
<1>3. node[t] = {} /\ ready[t] = {} BY DEF IInv, CallInv, CallOk
<1>4. ~OnCondition(t) BY DEF IInv, CondInv, OnCondition
<1>5. \A m \in Monitors : t \notin ToSet(entry_queue[m]) BY DEF IInv, EntryInv
<1>6. \A m \in Monitors : t \notin ToSet(signal_stack[m]) BY DEF IInv, StackInv
<1>7. \A m \in Monitors : Given(t, m) = 0 BY DEF Given
<1>8. \A m \in Monitors : owner[m] = t => mask[m] = {} BY <1>6 DEF IInv, MaskInv
<1> QED BY <1>2, <1>3, <1>4, <1>5, <1>6, <1>7, <1>8

(* A thread that runs has entered its group, and one that leaves has the rest. *)
LEMMA Holds ==
  ASSUME IInv, NEW t \in Threads, NEW m \in Monitors,
         \/ pc[t] = "run" /\ calls[t] # <<>> /\ m \in Group(t)
         \/ pc[t] = "leave" /\ m \in todo[t]
  PROVE  /\ Entries(t, m) \in Nat \ {0}
         /\ owner[m] = t /\ recursion[m] = Entries(t, m) /\ mask[m] = {}
<1>1. /\ pc[t] \in {"run", "leave"} /\ calls[t] \in Seq(Routines) /\ calls[t] # <<>>
      /\ m \in Last(calls[t]).group /\ Counts(pc[t], todo[t], m)
  BY DEF IInv, TypeOK, CallInv, CallOk, Group, Innermost, Counts
<1>2. Entries(t, m) \in Nat /\ Entries(t, m) > 0
  <2>1. Entries(t, m) = Outer(calls[t], m) + 1 /\ Outer(calls[t], m) \in Nat
    BY <1>1, TallyValue, EntriesAreTallied
  <2> QED BY <2>1
<1>3. node[t] = {} /\ Given(t, m) = 0 /\ (owner[m] = t => mask[m] = {}) BY <1>1, Active
<1>4. owner[m] = t /\ recursion[m] = Entries(t, m) + Given(t, m)
  BY <1>2, <1>3 DEF IInv, ClaimInv, ClaimOk
<1> QED BY <1>2, <1>3, <1>4

(* A thread that waits to enter owns none of what it waits for. *)
LEMMA Queued ==
  ASSUME IInv, NEW u \in Threads, NEW m \in Monitors, u \in ToSet(entry_queue[m])
  PROVE  /\ pc[u] = "blocked" /\ permit[u] = FALSE /\ m = Min(todo[u]) /\ m \in todo[u]
         /\ node[u] = {} /\ owner[m] # u /\ Entries(u, m) = 0
<1>1. pc[u] = "blocked" /\ ~permit[u] /\ permit[u] \in BOOLEAN /\ m = Min(todo[u])
  BY DEF IInv, TypeOK, EntryInv
<1>2. permit[u] = FALSE BY <1>1
<1>3. m \in todo[u] BY <1>1, OwnTodo
<1>4. node[u] = {} BY <1>1 DEF IInv, CallInv, CallOk
<1>5. owner[m] # u BY DEF IInv, ClaimInv, ClaimOk
<1>6. Entries(u, m) \in Nat BY EntriesType DEF IInv
<1>7. ~(Entries(u, m) > 0) BY <1>4, <1>5 DEF IInv, ClaimInv, ClaimOk
<1>8. Entries(u, m) = 0 BY <1>6, <1>7
<1> QED BY <1>1, <1>2, <1>3, <1>4, <1>5, <1>8

(* A thread whose criterion is on a stack waits for its monitors. *)
LEMMA Stacked ==
  ASSUME IInv, NEW u \in Threads, NEW m \in Monitors, u \in ToSet(signal_stack[m])
  PROVE  pc[u] = "waiting" /\ permit[u] = FALSE /\ m \in node[u] \ ready[u] /\ ~OnCondition(u)
<1>1. pc[u] = "waiting" /\ ~permit[u] /\ permit[u] \in BOOLEAN /\ m \in node[u] \ ready[u] /\ ~OnCondition(u)
  BY DEF IInv, TypeOK, StackInv
<1> QED BY <1>1

-----------------------------------------------------------------------------
(***************************************************************************)
(* Passing monitors on.                                                    *)
(***************************************************************************)

\* Who gets a monitor that is passed on.
Heir(m) ==
  IF signal_stack[m] # <<>> THEN Head(signal_stack[m])
  ELSE IF entry_queue[m] # <<>> THEN Head(entry_queue[m]) ELSE None

\* The criteria of u that become ready with ms.
Readied(u, ms) == {m \in ms : signal_stack[m] # <<>> /\ Head(signal_stack[m]) = u}

(* What PassOn does at each monitor and to each thread. *)
LEMMA PassOnElements ==
  ASSUME TypeOK, NEW ms \in SUBSET Monitors, NEW readied \in [Threads -> SUBSET Monitors],
         PassOn(ms, readied)
  PROVE  /\ owner' = [m \in Monitors |-> IF m \in ms THEN Heir(m) ELSE owner[m]]
         /\ recursion' = [m \in Monitors |->
              IF m \in ms THEN IF Heir(m) = None THEN 0 ELSE 1 ELSE recursion[m]]
         /\ signal_stack' = [m \in Monitors |->
              IF m \in ms /\ signal_stack[m] # <<>> THEN Tail(signal_stack[m]) ELSE signal_stack[m]]
         /\ entry_queue' = [m \in Monitors |->
              IF m \in ms /\ signal_stack[m] = <<>> /\ entry_queue[m] # <<>>
                THEN Tail(entry_queue[m]) ELSE entry_queue[m]]
         /\ ready' = [u \in Threads |-> readied[u] \cup Readied(u, ms)]
         /\ permit' = [u \in Threads |->
              \/ permit[u]
              \/ Readied(u, ms) # {} /\ readied[u] \cup Readied(u, ms) = node[u]
              \/ \E m \in ms : signal_stack[m] = <<>> /\ entry_queue[m] # <<>> /\ Head(entry_queue[m]) = u]
<1> DEFINE urgent == {m \in ms : signal_stack[m] # <<>>}
           queued == {m \in ms \ urgent : entry_queue[m] # <<>>}
           next(m) == IF m \in urgent THEN Head(signal_stack[m])
                      ELSE IF m \in queued THEN Head(entry_queue[m]) ELSE None
           held(m) == IF next(m) = None THEN 0 ELSE 1
           criteria(u) == {m \in urgent : next(m) = u}
<1>1. /\ owner' = [m \in Monitors |-> IF m \in ms THEN next(m) ELSE owner[m]]
      /\ recursion' = [m \in Monitors |-> IF m \in ms THEN held(m) ELSE recursion[m]]
      /\ signal_stack' = [m \in Monitors |-> IF m \in urgent THEN Tail(signal_stack[m]) ELSE signal_stack[m]]
      /\ entry_queue' = [m \in Monitors |-> IF m \in queued THEN Tail(entry_queue[m]) ELSE entry_queue[m]]
      /\ ready' = [u \in Threads |-> readied[u] \cup criteria(u)]
      /\ permit' = [u \in Threads |->
           \/ permit[u]
           \/ criteria(u) # {} /\ ready'[u] = node[u]
           \/ \E m \in queued : next(m) = u]
  BY DEF PassOn, At
<1>2. \A m \in ms : next(m) = Heir(m) BY DEF Heir
<1>3. \A u \in Threads : criteria(u) = Readied(u, ms) BY DEF Readied
<1>4. \A u \in Threads : (\E m \in queued : next(m) = u) <=>
        \E m \in ms : signal_stack[m] = <<>> /\ entry_queue[m] # <<>> /\ Head(entry_queue[m]) = u
  OBVIOUS
<1>5. \A m : /\ m \in urgent <=> m \in ms /\ signal_stack[m] # <<>>
             /\ m \in queued <=> m \in ms /\ signal_stack[m] = <<>> /\ entry_queue[m] # <<>>
  OBVIOUS
<1>6. \A u \in Threads : ready'[u] = readied[u] \cup Readied(u, ms) BY <1>1, <1>3
<1> HIDE DEF urgent, queued, next, criteria
<1>7. owner' = [m \in Monitors |-> IF m \in ms THEN Heir(m) ELSE owner[m]] BY <1>1, <1>2
<1>8. recursion' = [m \in Monitors |->
              IF m \in ms THEN IF Heir(m) = None THEN 0 ELSE 1 ELSE recursion[m]] BY <1>1, <1>2
<1>9. signal_stack' = [m \in Monitors |->
              IF m \in ms /\ signal_stack[m] # <<>> THEN Tail(signal_stack[m]) ELSE signal_stack[m]]
  BY <1>1, <1>5
<1>10. entry_queue' = [m \in Monitors |->
              IF m \in ms /\ signal_stack[m] = <<>> /\ entry_queue[m] # <<>>
                THEN Tail(entry_queue[m]) ELSE entry_queue[m]]
  BY <1>1, <1>5
<1>11. ready' = [u \in Threads |-> readied[u] \cup Readied(u, ms)] BY <1>1, <1>3
<1>12. permit' = [u \in Threads |->
              \/ permit[u]
              \/ Readied(u, ms) # {} /\ readied[u] \cup Readied(u, ms) = node[u]
              \/ \E m \in ms : signal_stack[m] = <<>> /\ entry_queue[m] # <<>> /\ Head(entry_queue[m]) = u]
  BY <1>1, <1>3, <1>4, <1>6, Zenon
<1> QED BY <1>7, <1>8, <1>9, <1>10, <1>11, <1>12

\* What a thread t that owns the monitors ms, which it passes on, leaves behind.
PassedOn(t, ms) ==
  /\ owner' \in [Monitors -> Threads \cup {None}] /\ recursion' \in [Monitors -> Nat]
  /\ entry_queue' \in [Monitors -> Seq(Threads)] /\ signal_stack' \in [Monitors -> Seq(Threads)]
  /\ ready' \in [Threads -> SUBSET Monitors] /\ permit' \in [Threads -> BOOLEAN]
  /\ \A m \in Monitors \ ms :
       /\ owner'[m] = owner[m] /\ recursion'[m] = recursion[m]
       /\ entry_queue'[m] = entry_queue[m] /\ signal_stack'[m] = signal_stack[m]
  /\ \A m \in ms :
       /\ owner'[m] # t
       /\ recursion'[m] = IF owner'[m] = None THEN 0 ELSE 1
       /\ owner'[m] = None => entry_queue'[m] = <<>> /\ signal_stack'[m] = <<>>
  /\ \A m \in Monitors : IsInjective(entry_queue'[m]) /\ IsInjective(signal_stack'[m])
  /\ \A u \in Threads, m \in Monitors :
       /\ u \in ToSet(entry_queue'[m]) <=> pc[u] = "blocked" /\ ~permit'[u] /\ m = Min(todo[u])
       /\ u \in ToSet(signal_stack'[m]) <=>
            pc[u] = "waiting" /\ ~permit'[u] /\ m \in node[u] \ ready'[u] /\ ~OnCondition(u)
  /\ \A u \in Threads :
       /\ permit'[u] => permit[u] \/ (pc[u] \in {"blocked", "waiting"} /\ ~OnCondition(u))
       /\ permit[u] => permit'[u]
       /\ pc[u] # "waiting" => ready'[u] = {}
       /\ ready[u] \subseteq ready'[u] /\ ready'[u] \subseteq node[u]
       /\ OnCondition(u) => ready'[u] = {}
       /\ \A m \in ready'[u] : owner'[m] = u
       /\ pc[u] = "waiting" /\ permit'[u] => \A m \in node[u] : owner'[m] = u
       /\ pc[u] = "waiting" /\ ~permit'[u] => ready'[u] # node[u]
  /\ \A u \in Threads, m \in ms : owner'[m] = u =>
       \/ pc[u] = "waiting" /\ m \in ready'[u]
       \/ pc[u] = "blocked" /\ permit'[u] /\ m = Min(todo[u]) /\ m \in todo[u] /\ Entries(u, m) = 0
  /\ \A u \in Threads, m \in Monitors : pc[u] = "blocked" /\ permit'[u] /\ m = Min(todo[u]) =>
       owner'[m] = u /\ Entries(u, m) = 0

(* An heir was waiting for the monitor, with a criterion or to enter. *)
LEMMA HeirWaits ==
  ASSUME IInv, NEW m \in Monitors
  PROVE  /\ signal_stack[m] \in Seq(Threads) /\ entry_queue[m] \in Seq(Threads)
         /\ signal_stack[m] # <<>> =>
              /\ Heir(m) = Head(signal_stack[m]) /\ Heir(m) \in ToSet(signal_stack[m])
              /\ ToSet(Tail(signal_stack[m])) = ToSet(signal_stack[m]) \ {Heir(m)}
              /\ Tail(signal_stack[m]) \in Seq(Threads) /\ IsInjective(Tail(signal_stack[m]))
         /\ signal_stack[m] = <<>> /\ entry_queue[m] # <<>> =>
              /\ Heir(m) = Head(entry_queue[m]) /\ Heir(m) \in ToSet(entry_queue[m])
              /\ ToSet(Tail(entry_queue[m])) = ToSet(entry_queue[m]) \ {Heir(m)}
              /\ Tail(entry_queue[m]) \in Seq(Threads) /\ IsInjective(Tail(entry_queue[m]))
         /\ Heir(m) = None <=> signal_stack[m] = <<>> /\ entry_queue[m] = <<>>
         /\ Heir(m) \in Threads \cup {None}
<1>1. /\ signal_stack[m] \in Seq(Threads) /\ entry_queue[m] \in Seq(Threads)
      /\ IsInjective(signal_stack[m]) /\ IsInjective(entry_queue[m])
  BY DEF IInv, TypeOK, StackInv, EntryInv
<1>2. None \notin Threads BY MonitorAssumption DEF MonitorAssumption
<1>3. CASE signal_stack[m] # <<>>
  <2>1. Head(signal_stack[m]) \in Threads BY <1>1, <1>3, TailSet
  <2> QED BY <1>1, <1>2, <1>3, <2>1, TailSet DEF Heir
<1>4. CASE signal_stack[m] = <<>> /\ entry_queue[m] # <<>>
  <2>1. Head(entry_queue[m]) \in Threads BY <1>1, <1>4, TailSet
  <2> QED BY <1>1, <1>2, <1>4, <2>1, TailSet DEF Heir
<1>5. CASE signal_stack[m] = <<>> /\ entry_queue[m] = <<>>
  BY <1>1, <1>5 DEF Heir
<1> QED BY <1>3, <1>4, <1>5

LEMMA PassOnPasses ==
  ASSUME IInv, NEW t \in Threads, pc[t] \in {"run", "leave"},
         NEW ms \in SUBSET Monitors, \A m \in ms : owner[m] = t,
         PassOn(ms, ready)
  PROVE  PassedOn(t, ms)
<1>1. TypeOK /\ ready \in [Threads -> SUBSET Monitors] BY DEF IInv, TypeOK
<1>2. /\ owner' = [m \in Monitors |-> IF m \in ms THEN Heir(m) ELSE owner[m]]
      /\ recursion' = [m \in Monitors |->
           IF m \in ms THEN IF Heir(m) = None THEN 0 ELSE 1 ELSE recursion[m]]
      /\ signal_stack' = [m \in Monitors |->
           IF m \in ms /\ signal_stack[m] # <<>> THEN Tail(signal_stack[m]) ELSE signal_stack[m]]
      /\ entry_queue' = [m \in Monitors |->
           IF m \in ms /\ signal_stack[m] = <<>> /\ entry_queue[m] # <<>>
             THEN Tail(entry_queue[m]) ELSE entry_queue[m]]
      /\ ready' = [u \in Threads |-> ready[u] \cup Readied(u, ms)]
      /\ permit' = [u \in Threads |->
           \/ permit[u]
           \/ Readied(u, ms) # {} /\ ready[u] \cup Readied(u, ms) = node[u]
           \/ \E m \in ms : signal_stack[m] = <<>> /\ entry_queue[m] # <<>> /\ Head(entry_queue[m]) = u]
  BY <1>1, PassOnElements
\* The elements.
<1>3. /\ \A m \in Monitors \ ms :
           /\ owner'[m] = owner[m] /\ recursion'[m] = recursion[m]
           /\ entry_queue'[m] = entry_queue[m] /\ signal_stack'[m] = signal_stack[m]
      /\ \A m \in ms : owner'[m] = Heir(m) /\ recursion'[m] = IF Heir(m) = None THEN 0 ELSE 1
  BY <1>2
<1>4. \A m \in ms : signal_stack[m] # <<>> =>
        signal_stack'[m] = Tail(signal_stack[m]) /\ entry_queue'[m] = entry_queue[m]
  BY <1>2
<1>5. \A m \in ms : signal_stack[m] = <<>> =>
        /\ signal_stack'[m] = <<>>
        /\ entry_queue'[m] = IF entry_queue[m] = <<>> THEN <<>> ELSE Tail(entry_queue[m])
  BY <1>2
<1>6. \A u \in Threads : ready'[u] = ready[u] \cup Readied(u, ms) BY <1>2
\* Who is an heir by a criterion, and who by its place in a queue.
<1>7. ASSUME NEW u \in Threads, NEW m \in Readied(u, ms)
      PROVE  /\ m \in ms /\ u \in ToSet(signal_stack[m]) /\ Heir(m) = u
             /\ pc[u] = "waiting" /\ ~permit[u] /\ ~OnCondition(u) /\ m \in node[u] \ ready[u]
  <2>1. m \in ms /\ signal_stack[m] # <<>> /\ Heir(m) = u
    BY DEF Readied, Heir
  <2>2. u \in ToSet(signal_stack[m]) BY <2>1, HeirWaits
  <2> QED BY <2>1, <2>2, Stacked
<1> DEFINE Queue(u) == \E m \in ms : signal_stack[m] = <<>> /\ entry_queue[m] # <<>> /\ Head(entry_queue[m]) = u
<1>8. ASSUME NEW u \in Threads, NEW m \in ms,
             signal_stack[m] = <<>>, entry_queue[m] # <<>>, Head(entry_queue[m]) = u
      PROVE  /\ Heir(m) = u /\ u \in ToSet(entry_queue[m])
             /\ pc[u] = "blocked" /\ ~permit[u] /\ m = Min(todo[u]) /\ m \in todo[u]
             /\ owner[m] # u /\ Entries(u, m) = 0
  <2>1. Heir(m) = u /\ u \in ToSet(entry_queue[m]) BY <1>8, HeirWaits
  <2> QED BY <2>1, Queued
<1>9. \A u \in Threads : permit'[u] <=>
        \/ permit[u]
        \/ Readied(u, ms) # {} /\ ready'[u] = node[u]
        \/ Queue(u)
  BY <1>2, <1>6, Zenon
<1>10. \A u \in Threads : Queue(u) => pc[u] = "blocked" /\ ~permit[u] BY <1>8
<1>11. \A u \in Threads : Readied(u, ms) # {} => pc[u] = "waiting" /\ ~permit[u] /\ ~OnCondition(u)
  BY <1>7
<1> HIDE DEF Queue
\* The conjuncts.
<1>12. owner' \in [Monitors -> Threads \cup {None}] /\ recursion' \in [Monitors -> Nat]
  <2>1. \A m \in Monitors : Heir(m) \in Threads \cup {None} BY HeirWaits
  <2>2. owner \in [Monitors -> Threads \cup {None}] /\ recursion \in [Monitors -> Nat] BY DEF IInv, TypeOK
  <2> QED BY <1>2, <2>1, <2>2
<1>13. entry_queue' \in [Monitors -> Seq(Threads)] /\ signal_stack' \in [Monitors -> Seq(Threads)]
  <2>1. \A m \in Monitors :
          /\ signal_stack[m] \in Seq(Threads) /\ entry_queue[m] \in Seq(Threads)
          /\ signal_stack[m] # <<>> => Tail(signal_stack[m]) \in Seq(Threads)
          /\ signal_stack[m] = <<>> /\ entry_queue[m] # <<>> => Tail(entry_queue[m]) \in Seq(Threads)
    BY HeirWaits
  <2> QED BY <1>2, <2>1, Zenon
<1>14. ready' \in [Threads -> SUBSET Monitors] /\ permit' \in [Threads -> BOOLEAN]
  <2>1. \A u \in Threads : Readied(u, ms) \in SUBSET Monitors BY DEF Readied
  <2>2. ready' \in [Threads -> SUBSET Monitors] BY <1>1, <1>2, <2>1
  <2>3. permit' \in [Threads -> BOOLEAN] BY <1>2, Zenon
  <2> QED BY <2>2, <2>3
<1>15. \A m \in Monitors : IsInjective(entry_queue'[m]) /\ IsInjective(signal_stack'[m])
  <2> SUFFICES ASSUME NEW m \in Monitors
               PROVE  IsInjective(entry_queue'[m]) /\ IsInjective(signal_stack'[m])
    OBVIOUS
  <2>1. IsInjective(entry_queue[m]) /\ IsInjective(signal_stack[m]) BY DEF IInv, EntryInv, StackInv
  <2> QED BY <1>3, <1>4, <1>5, <2>1, HeirWaits
<1>16. ASSUME NEW u \in Threads, NEW m \in Monitors
       PROVE  u \in ToSet(entry_queue'[m]) <=> pc[u] = "blocked" /\ ~permit'[u] /\ m = Min(todo[u])
  <2>1. u \in ToSet(entry_queue[m]) <=> pc[u] = "blocked" /\ ~permit[u] /\ m = Min(todo[u])
    BY DEF IInv, EntryInv
  <2>2. u \in ToSet(entry_queue'[m]) <=>
          u \in ToSet(entry_queue[m]) /\ ~(m \in ms /\ signal_stack[m] = <<>> /\ entry_queue[m] # <<>> /\ Head(entry_queue[m]) = u)
    <3>1. CASE m \in ms /\ signal_stack[m] = <<>> /\ entry_queue[m] # <<>>
      BY <1>5, <3>1, HeirWaits
    <3>2. CASE ~(m \in ms /\ signal_stack[m] = <<>> /\ entry_queue[m] # <<>>)
      BY <1>3, <1>4, <1>5, <3>2
    <3> QED BY <3>1, <3>2
  <2>3. ASSUME u \in ToSet(entry_queue[m])
        PROVE  permit'[u] <=> (m \in ms /\ signal_stack[m] = <<>> /\ entry_queue[m] # <<>> /\ Head(entry_queue[m]) = u)
    <3>1. pc[u] = "blocked" /\ ~permit[u] /\ m = Min(todo[u]) BY <2>1, <2>3
    <3>2. permit'[u] <=> Queue(u) BY <1>9, <1>11, <3>1
    <3>3. \A x \in ms : signal_stack[x] = <<>> /\ entry_queue[x] # <<>> /\ Head(entry_queue[x]) = u => x = m
      BY <1>8, <3>1
    <3> QED BY <3>2, <3>3 DEF Queue
  <2>4. ~permit'[u] => ~permit[u] BY <1>9
  <2> QED BY <2>1, <2>2, <2>3, <2>4
<1>17. ASSUME NEW u \in Threads, NEW m \in Monitors
       PROVE  u \in ToSet(signal_stack'[m]) <=>
                pc[u] = "waiting" /\ ~permit'[u] /\ m \in node[u] \ ready'[u] /\ ~OnCondition(u)
  <2>1. u \in ToSet(signal_stack[m]) <=>
          pc[u] = "waiting" /\ ~permit[u] /\ m \in node[u] \ ready[u] /\ ~OnCondition(u)
    BY DEF IInv, StackInv
  <2>2. u \in ToSet(signal_stack'[m]) <=> u \in ToSet(signal_stack[m]) /\ m \notin Readied(u, ms)
    <3>1. CASE m \in ms /\ signal_stack[m] # <<>>
      BY <1>4, <3>1, HeirWaits DEF Readied
    <3>2. CASE ~(m \in ms /\ signal_stack[m] # <<>>)
      BY <1>3, <1>5, <3>2 DEF Readied
    <3> QED BY <3>1, <3>2
  <2>3. pc[u] = "waiting" => (permit'[u] <=> permit[u] \/ (Readied(u, ms) # {} /\ ready'[u] = node[u]))
    BY <1>9, <1>10
  <2>4. m \in ready'[u] <=> m \in ready[u] \/ m \in Readied(u, ms) BY <1>6
  <2>5. m \in node[u] \ ready'[u] => ready'[u] # node[u] OBVIOUS
  <2> QED BY <2>1, <2>2, <2>3, <2>4, <2>5
<1>18. ASSUME NEW u \in Threads
       PROVE  /\ permit'[u] => permit[u] \/ (pc[u] \in {"blocked", "waiting"} /\ ~OnCondition(u))
              /\ permit[u] => permit'[u]
              /\ pc[u] # "waiting" => ready'[u] = {}
              /\ ready[u] \subseteq ready'[u] /\ ready'[u] \subseteq node[u]
              /\ OnCondition(u) => ready'[u] = {}
  <2>1. Readied(u, ms) \subseteq node[u] BY <1>7
  <2>2. pc[u] = "blocked" => ~OnCondition(u) BY DEF IInv, CondInv, OnCondition
  <2>3. (pc[u] # "waiting" => ready[u] = {}) /\ (OnCondition(u) => ready[u] = {}) /\ ready[u] \subseteq node[u]
    BY DEF IInv, CallInv, CallOk, CondInv, OnCondition
  <2> QED BY <1>6, <1>9, <1>10, <1>11, <2>1, <2>2, <2>3
<1>19. ASSUME NEW u \in Threads
       PROVE  /\ \A m \in ready'[u] : owner'[m] = u
              /\ pc[u] = "waiting" /\ permit'[u] => \A m \in node[u] : owner'[m] = u
              /\ pc[u] = "waiting" /\ ~permit'[u] => ready'[u] # node[u]
  <2>1. /\ \A m \in ready[u] : owner[m] = u
        /\ pc[u] = "waiting" /\ permit[u] => \A m \in node[u] : owner[m] = u
        /\ pc[u] = "waiting" /\ ~permit[u] => ready[u] # node[u]
    BY DEF IInv, WaitInv, WaitOk
  <2>2. pc[u] # "waiting" => ready[u] = {} BY DEF IInv, CallInv, CallOk
  <2>3. ready[u] \in SUBSET Monitors /\ node[u] \in SUBSET Monitors BY DEF IInv, TypeOK
  <2>4. ASSUME NEW m \in Monitors, owner[m] = u, pc[u] = "waiting" PROVE owner'[m] = u
    <3>1. u # t BY <2>4
    <3>2. m \notin ms BY <2>4, <3>1
    <3> QED BY <1>3, <2>4, <3>2
  <2>5. \A m \in Readied(u, ms) : owner'[m] = u BY <1>3, <1>7
  <2>6. \A m \in ready'[u] : owner'[m] = u BY <1>6, <2>1, <2>2, <2>3, <2>4, <2>5
  <2>7. ASSUME pc[u] = "waiting", permit'[u] PROVE \A m \in node[u] : owner'[m] = u
    <3>1. permit[u] \/ ready'[u] = node[u] BY <1>9, <1>10, <2>7
    <3> QED BY <2>1, <2>3, <2>4, <2>6, <2>7, <3>1
  <2>8. ASSUME pc[u] = "waiting", ~permit'[u] PROVE ready'[u] # node[u]
    <3>1. ~permit[u] /\ ~(Readied(u, ms) # {} /\ ready'[u] = node[u]) BY <1>9, <2>8
    <3>2. Readied(u, ms) = {} => ready'[u] = ready[u] BY <1>6
    <3> QED BY <2>1, <2>8, <3>1, <3>2
  <2> QED BY <2>6, <2>7, <2>8
<1>20. ASSUME NEW m \in ms
       PROVE  /\ owner'[m] # t
              /\ recursion'[m] = IF owner'[m] = None THEN 0 ELSE 1
              /\ owner'[m] = None => entry_queue'[m] = <<>> /\ signal_stack'[m] = <<>>
  <2>1. Heir(m) # t
    <3>1. t \notin ToSet(entry_queue[m]) /\ t \notin ToSet(signal_stack[m]) BY Active
    <3>2. t # None BY MonitorAssumption DEF MonitorAssumption
    <3> QED BY <3>1, <3>2, HeirWaits
  <2>2. Heir(m) = None => entry_queue[m] = <<>> /\ signal_stack[m] = <<>> BY HeirWaits
  <2> QED BY <1>3, <1>5, <2>1, <2>2
<1>21. ASSUME NEW u \in Threads, NEW m \in ms, owner'[m] = u
       PROVE  \/ pc[u] = "waiting" /\ m \in ready'[u]
              \/ pc[u] = "blocked" /\ permit'[u] /\ m = Min(todo[u]) /\ m \in todo[u] /\ Entries(u, m) = 0
  <2>1. Heir(m) = u /\ u # None BY <1>3, <1>21, MonitorAssumption DEF MonitorAssumption
  <2>2. CASE signal_stack[m] # <<>>
    <3>1. m \in Readied(u, ms) BY <2>1, <2>2, HeirWaits DEF Readied
    <3> QED BY <1>6, <1>7, <3>1
  <2>3. CASE signal_stack[m] = <<>>
    <3>1. entry_queue[m] # <<>> /\ Head(entry_queue[m]) = u BY <2>1, <2>3, HeirWaits
    <3>2. permit'[u] BY <1>9, <2>3, <3>1 DEF Queue
    <3> QED BY <1>8, <2>3, <3>1, <3>2
  <2> QED BY <2>2, <2>3
<1>22. ASSUME NEW u \in Threads, NEW m \in Monitors, pc[u] = "blocked", permit'[u], m = Min(todo[u])
       PROVE  owner'[m] = u /\ Entries(u, m) = 0
  <2>1. CASE permit[u]
    <3>1. Given(u, m) = 1 BY <1>22, <2>1 DEF Given
    <3>2. owner[m] = u /\ Entries(u, m) = 0 BY <3>1 DEF IInv, ClaimInv, ClaimOk
    <3>3. m \notin ms BY <1>22, <3>2
    <3> QED BY <1>3, <3>2, <3>3
  <2>2. CASE ~permit[u]
    <3>1. Queue(u) BY <1>9, <1>11, <1>22, <2>2
    <3>2. PICK x \in ms : signal_stack[x] = <<>> /\ entry_queue[x] # <<>> /\ Head(entry_queue[x]) = u
      BY <3>1 DEF Queue
    <3>3. x = m /\ Heir(x) = u /\ Entries(u, x) = 0 BY <1>8, <1>22, <3>2
    <3> QED BY <1>3, <3>3
  <2> QED BY <2>1, <2>2
<1> QED
  <2> HIDE DEF IInv
  <2> QED BY <1>3, <1>12, <1>13, <1>14, <1>15, <1>16, <1>17, <1>18, <1>19, <1>20, <1>21, <1>22 DEF PassedOn

-----------------------------------------------------------------------------
(***************************************************************************)
(* Steps of a thread that is in no queue and in no stack.                  *)
(***************************************************************************)

(* What does not touch a thread leaves what it has entered. *)
LEMMA EntriesFrame ==
  ASSUME NEW u \in Threads, NEW m \in Monitors,
         calls'[u] = calls[u], pc'[u] = pc[u], todo'[u] = todo[u]
  PROVE  Entries(u, m)' = Entries(u, m)
BY EntriesAreTallied

LEMMA GivenFrame ==
  ASSUME NEW u \in Threads, NEW m \in Monitors,
         permit'[u] = permit[u], pc'[u] = pc[u], todo'[u] = todo[u]
  PROVE  Given(u, m)' = Given(u, m)
BY DEF Given

\* Thread t moved on: its calls changed, and the monitors in its hands.
Moved(t) ==
  /\ owner' \in [Monitors -> Threads \cup {None}] /\ recursion' \in [Monitors -> Nat]
  /\ mask' \in [Monitors -> SUBSET Routines]
  /\ calls' \in [Threads -> Seq(Routines)] /\ pc' \in [Threads -> Pcs]
  /\ todo' \in [Threads -> SUBSET Monitors] /\ permit' \in [Threads -> BOOLEAN]
  /\ UNCHANGED <<entry_queue, signal_stack, condVars, nodeVars>>
  /\ \A u \in Threads \ {t} :
       calls'[u] = calls[u] /\ pc'[u] = pc[u] /\ todo'[u] = todo[u] /\ permit'[u] = permit[u]
  /\ permit'[t] = FALSE /\ pc'[t] \in {"run", "enter", "leave"}
  /\ pc'[t] \in {"enter", "leave"} =>
       calls'[t] # <<>> /\ todo'[t] # {} /\ todo'[t] \subseteq Last(calls'[t]).group
  /\ \A m \in Monitors :
       /\ \/ owner'[m] = owner[m] /\ mask'[m] = mask[m]
          \/ owner'[m] = t /\ owner[m] # t /\ mask'[m] = {} /\ (owner[m] = None \/ mask[m] # {})
       /\ owner'[m] # t => recursion'[m] = recursion[m]
       /\ Entries(t, m)' > 0 => owner'[m] = t
       /\ owner'[m] = t =>
            /\ recursion'[m] = Entries(t, m)'
            /\ Entries(t, m)' > 0 \/ (pc'[t] = "enter" /\ m \in todo'[t])

LEMMA MovedKeeps ==
  ASSUME IInv, NEW t \in Threads,
         pc[t] \in {"run", "enter", "leave"} \/ (pc[t] = "blocked" /\ permit[t]),
         Moved(t)
  PROVE  IInv'
<1> USE DEF IInv
<1>1. /\ UNCHANGED <<entry_queue, signal_stack, cond_monitors, blocked, node, ready, saved>>
      /\ \A u \in Threads \ {t} :
           calls'[u] = calls[u] /\ pc'[u] = pc[u] /\ todo'[u] = todo[u] /\ permit'[u] = permit[u]
      /\ permit'[t] = FALSE /\ pc'[t] \in {"run", "enter", "leave"}
      /\ pc'[t] \in {"enter", "leave"} =>
           calls'[t] # <<>> /\ todo'[t] # {} /\ todo'[t] \subseteq Last(calls'[t]).group
  BY DEF Moved, condVars, nodeVars
<1>2. \A m \in Monitors :
        /\ \/ owner'[m] = owner[m] /\ mask'[m] = mask[m]
           \/ owner'[m] = t /\ owner[m] # t /\ mask'[m] = {} /\ (owner[m] = None \/ mask[m] # {})
        /\ owner'[m] # t => recursion'[m] = recursion[m]
        /\ Entries(t, m)' > 0 => owner'[m] = t
        /\ owner'[m] = t =>
             /\ recursion'[m] = Entries(t, m)'
             /\ Entries(t, m)' > 0 \/ (pc'[t] = "enter" /\ m \in todo'[t])
  BY DEF Moved
<1>3. TypeOK'
  <2>1. /\ owner' \in [Monitors -> Threads \cup {None}] /\ recursion' \in [Monitors -> Nat]
        /\ mask' \in [Monitors -> SUBSET Routines]
        /\ calls' \in [Threads -> Seq(Routines)] /\ pc' \in [Threads -> Pcs]
        /\ todo' \in [Threads -> SUBSET Monitors] /\ permit' \in [Threads -> BOOLEAN]
    BY DEF Moved
  <2>2. /\ entry_queue' \in [Monitors -> Seq(Threads)]
        /\ signal_stack' \in [Monitors -> Seq(Threads)]
        /\ cond_monitors' \in [Conditions -> SUBSET Monitors]
        /\ blocked' \in [Conditions -> Seq(Threads)]
        /\ node' \in [Threads -> SUBSET Monitors]
        /\ ready' \in [Threads -> SUBSET Monitors]
        /\ saved' \in [Threads -> [Monitors -> [recursion : Nat, mask : SUBSET Routines]]]
    BY <1>1 DEF TypeOK
  <2> QED BY <2>1, <2>2 DEF TypeOK
<1>4. node[t] = {} /\ ready[t] = {} /\ ~OnCondition(t)
      /\ \A m \in Monitors : t \notin ToSet(entry_queue[m]) /\ t \notin ToSet(signal_stack[m])
  <2>1. pc[t] # "waiting" /\ ~(pc[t] = "blocked" /\ ~permit[t]) OBVIOUS
  <2> QED BY <2>1 DEF CallInv, CallOk, EntryInv, CondInv, StackInv, OnCondition
<1>5. CallInv'
  <2>1. ASSUME NEW u \in Threads \ {t} PROVE Group(u)' = Group(u)
    BY <1>1 DEF Group, Innermost
  <2>2. Group(t)' = Last(calls'[t]).group BY DEF Group, Innermost
  <2> QED BY <1>1, <1>4, <2>1, <2>2 DEF CallInv, CallOk
<1>6. EntryInv'
  <2>1. ASSUME NEW u \in Threads, NEW m \in Monitors
        PROVE  u \in ToSet(entry_queue'[m]) <=> pc'[u] = "blocked" /\ ~permit'[u] /\ m = Min(todo'[u])
    <3>1. CASE u = t BY <1>1, <1>4, <3>1
    <3>2. CASE u # t BY <1>1, <3>2 DEF EntryInv
    <3> QED BY <3>1, <3>2
  <2> QED BY <1>1, <2>1 DEF EntryInv
<1>7. \A u \in Threads : OnCondition(u)' <=> OnCondition(u) BY <1>1 DEF OnCondition
<1>8. CondInv'
  <2>1. ASSUME NEW u \in Threads, NEW c \in Conditions, u \in ToSet(blocked[c]) PROVE u # t
    BY <1>4, <2>1 DEF OnCondition
  <2> QED BY <1>1, <2>1 DEF CondInv
<1>9. StackInv'
  <2>1. ASSUME NEW u \in Threads, NEW m \in Monitors
        PROVE  u \in ToSet(signal_stack'[m]) <=>
                 pc'[u] = "waiting" /\ ~permit'[u] /\ m \in node'[u] \ ready'[u] /\ ~OnCondition(u)'
    <3>1. CASE u = t BY <1>1, <1>4, <3>1
    <3>2. CASE u # t BY <1>1, <1>7, <3>2 DEF StackInv
    <3> QED BY <3>1, <3>2
  <2> QED BY <1>1, <2>1 DEF StackInv
\* Where t took a monitor, it was free or its owner waits with it.
<1>10. ASSUME NEW m \in Monitors, owner'[m] # owner[m], NEW u \in Threads, owner[m] = u
       PROVE  pc[u] = "waiting" /\ ~permit[u] /\ m \in node[u] \ ready[u]
  <2>1. u # None BY MonitorAssumption DEF MonitorAssumption
  <2>2. mask[m] # {} BY <1>2, <1>10, <2>1
  <2>3. u \in ToSet(signal_stack[m]) BY <1>10, <2>2 DEF MaskInv
  <2> QED BY <2>3 DEF StackInv
<1>11. ClaimInv'
  <2>1. ASSUME NEW m \in Monitors
        PROVE  /\ Entries(t, m)' > 0 /\ m \notin node'[t] => owner'[m] = t
               /\ owner'[m] = t /\ m \notin node'[t] =>
                    /\ recursion'[m] = Entries(t, m)' + Given(t, m)'
                    /\ Entries(t, m)' > 0 \/ (pc'[t] \in {"enter", "blocked"} /\ m \in todo'[t])
               /\ Given(t, m)' = 1 => owner'[m] = t /\ Entries(t, m)' = 0
               /\ t \in ToSet(entry_queue'[m]) => owner'[m] # t
    <3>1. Given(t, m)' = 0 BY <1>1 DEF Given
    <3>2. recursion'[m] \in Nat BY <1>3 DEF TypeOK
    <3> QED BY <1>1, <1>2, <1>4, <3>1, <3>2
  <2>2. ASSUME NEW u \in Threads \ {t}, NEW m \in Monitors
        PROVE  /\ Entries(u, m)' > 0 /\ m \notin node'[u] => owner'[m] = u
               /\ owner'[m] = u /\ m \notin node'[u] =>
                    /\ recursion'[m] = Entries(u, m)' + Given(u, m)'
                    /\ Entries(u, m)' > 0 \/ (pc'[u] \in {"enter", "blocked"} /\ m \in todo'[u])
               /\ Given(u, m)' = 1 => owner'[m] = u /\ Entries(u, m)' = 0
               /\ u \in ToSet(entry_queue'[m]) => owner'[m] # u
    <3>1. Entries(u, m)' = Entries(u, m) BY <1>1, EntriesFrame
    <3>2. Given(u, m)' = Given(u, m) BY <1>1, GivenFrame
    <3>3. /\ Entries(u, m) > 0 /\ m \notin node[u] => owner[m] = u
          /\ owner[m] = u /\ m \notin node[u] =>
               /\ recursion[m] = Entries(u, m) + Given(u, m)
               /\ Entries(u, m) > 0 \/ (pc[u] \in {"enter", "blocked"} /\ m \in todo[u])
          /\ Given(u, m) = 1 => owner[m] = u /\ Entries(u, m) = 0
          /\ u \in ToSet(entry_queue[m]) => owner[m] # u
      BY DEF ClaimInv, ClaimOk
    <3>4. pc[u] = "waiting" => Given(u, m) # 1 BY DEF Given
    <3>5. owner'[m] = owner[m] \/ owner'[m] = t BY <1>2
    <3>6. owner[m] = u /\ owner'[m] # owner[m] => pc[u] = "waiting" /\ m \in node[u] BY <1>10
    <3>7. owner'[m] = u => owner[m] = u /\ recursion'[m] = recursion[m] BY <1>2, <3>5
    <3> QED BY <1>1, <3>1, <3>2, <3>3, <3>4, <3>5, <3>6, <3>7
  <2> QED BY <2>1, <2>2 DEF ClaimInv, ClaimOk
<1>12. WaitInv'
  <2>1. ASSUME NEW u \in Threads
        PROVE  /\ \A m \in ready'[u] : owner'[m] = u
               /\ pc'[u] = "waiting" /\ permit'[u] => \A m \in node'[u] : owner'[m] = u
               /\ pc'[u] = "waiting" /\ ~permit'[u] =>
                    /\ ready'[u] # node'[u]
                    /\ \A m \in node'[u] : owner'[m] = u => m \in ready'[u] \/ mask'[m] # {}
               /\ \A m \in node'[u] : saved'[u][m].recursion = Entries(u, m)'
               /\ \A m \in Monitors : saved'[u][m].mask = {}
    <3>1. CASE u = t BY <1>1, <1>4, <3>1 DEF WaitInv, WaitOk
    <3>2. CASE u # t
      <4>1. /\ \A m \in ready[u] : owner[m] = u
            /\ pc[u] = "waiting" /\ permit[u] => \A m \in node[u] : owner[m] = u
            /\ pc[u] = "waiting" /\ ~permit[u] =>
                 /\ ready[u] # node[u]
                 /\ \A m \in node[u] : owner[m] = u => m \in ready[u] \/ mask[m] # {}
            /\ \A m \in node[u] : saved[u][m].recursion = Entries(u, m)
            /\ \A m \in Monitors : saved[u][m].mask = {}
        BY DEF WaitInv, WaitOk
      <4>2. node[u] \in SUBSET Monitors /\ ready[u] \in SUBSET Monitors BY DEF TypeOK
      <4>3. \A m \in Monitors : Entries(u, m)' = Entries(u, m) BY <1>1, <3>2, EntriesFrame
      <4>4. \A m \in ready[u] : owner'[m] = u BY <1>10, <4>1, <4>2
      <4>5. pc[u] = "waiting" /\ permit[u] => \A m \in node[u] : owner'[m] = u BY <1>10, <4>1, <4>2
      <4>6. \A m \in Monitors : owner'[m] = u => owner[m] = u /\ mask'[m] = mask[m] BY <1>2, <3>2
      <4> QED BY <1>1, <3>2, <4>1, <4>2, <4>3, <4>4, <4>5, <4>6
    <3> QED BY <3>1, <3>2
  <2> QED BY <2>1 DEF WaitInv, WaitOk
<1>13. MaskInv'
  <2>1. \A m \in Monitors : mask'[m] # {} => mask[m] = mask'[m] /\ owner'[m] = owner[m] BY <1>2
  <2> QED BY <1>1, <2>1 DEF MaskInv
<1>14. FreeInv'
  <2>1. t # None BY MonitorAssumption DEF MonitorAssumption
  <2>2. \A m \in Monitors : owner'[m] = None => owner[m] = None BY <1>2, <2>1
  <2> QED BY <1>1, <2>2 DEF FreeInv
<1> QED BY <1>3, <1>5, <1>6, <1>8, <1>9, <1>11, <1>12, <1>13, <1>14

(* What a thread that is in no queue has entered, and what it owns. *)
LEMMA OwnClaims ==
  ASSUME IInv, NEW t \in Threads, pc[t] \in {"run", "enter", "leave"}, NEW m \in Monitors
  PROVE  /\ Entries(t, m) \in Nat /\ recursion[m] \in Nat
         /\ Entries(t, m) > 0 => owner[m] = t
         /\ owner[m] = t =>
              /\ recursion[m] = Entries(t, m)
              /\ Entries(t, m) > 0 \/ (pc[t] = "enter" /\ m \in todo[t])
<1>1. Entries(t, m) \in Nat BY EntriesType DEF IInv
<1>2. recursion[m] \in Nat BY DEF IInv, TypeOK
<1>3. node[t] = {} /\ Given(t, m) = 0 BY Active
<1> QED BY <1>1, <1>2, <1>3 DEF IInv, ClaimInv, ClaimOk

LEMMA CallKeeps ==
  ASSUME IInv, NEW t \in Threads, NEW r \in Routines, Call(t, r)
  PROVE  IInv'
<1>1. /\ pc[t] = "run"
      /\ calls' = [calls EXCEPT ![t] = Append(calls[t], r)]
      /\ pc' = [pc EXCEPT ![t] = "enter"] /\ todo' = [todo EXCEPT ![t] = r.group]
      /\ UNCHANGED <<monVars, condVars, nodeVars, permit>>
  BY DEF Call, Set
<1>2. /\ calls \in [Threads -> Seq(Routines)] /\ pc \in [Threads -> Pcs]
      /\ todo \in [Threads -> SUBSET Monitors] /\ permit \in [Threads -> BOOLEAN]
      /\ owner \in [Monitors -> Threads \cup {None}] /\ recursion \in [Monitors -> Nat]
      /\ mask \in [Monitors -> SUBSET Routines]
  BY DEF IInv, TypeOK
<1>3. r.group \in SUBSET Monitors /\ r.group # {} BY GroupFacts
<1>4. /\ Append(calls[t], r) \in Seq(Routines) /\ Append(calls[t], r) # <<>>
      /\ Last(Append(calls[t], r)) = r
  BY <1>2, AppendProperties DEF Last
<1>5. /\ calls'[t] = Append(calls[t], r) /\ pc'[t] = "enter" /\ todo'[t] = r.group
      /\ permit'[t] = FALSE
  <2>1. permit[t] = FALSE BY <1>1, Active
  <2> QED BY <1>1, <1>2, <2>1
<1>6. ASSUME NEW m \in Monitors PROVE Entries(t, m)' = Entries(t, m)
  <2>1. Entries(t, m)' = Tally(Append(calls[t], r), "enter", r.group, m) BY <1>5, EntriesAreTallied
  <2>2. Entries(t, m) = Tally(calls[t], "run", todo[t], m) BY <1>1, EntriesAreTallied
  <2>3. calls[t] \in Seq(Routines) BY <1>2
  <2> QED BY <2>1, <2>2, <2>3, TallyCall
<1>7. Moved(t)
  <2>1. /\ calls' \in [Threads -> Seq(Routines)] /\ pc' \in [Threads -> Pcs]
        /\ todo' \in [Threads -> SUBSET Monitors]
    BY <1>1, <1>2, <1>3, <1>4 DEF Pcs
  <2>2. UNCHANGED <<owner, recursion, entry_queue, signal_stack, mask, condVars, nodeVars, permit>>
    BY <1>1 DEF monVars
  <2>3. \A u \in Threads \ {t} : calls'[u] = calls[u] /\ pc'[u] = pc[u] /\ todo'[u] = todo[u]
    BY <1>1, <1>2
  <2>4. ASSUME NEW m \in Monitors
        PROVE  /\ Entries(t, m)' > 0 => owner[m] = t
               /\ owner[m] = t =>
                    /\ recursion[m] = Entries(t, m)'
                    /\ Entries(t, m)' > 0
    <3>1. ~(pc[t] = "enter") BY <1>1
    <3> QED BY <1>1, <1>6, <3>1, OwnClaims
  <2> QED BY <1>2, <1>3, <1>4, <1>5, <2>1, <2>2, <2>3, <2>4 DEF Moved
<1> QED BY <1>1, <1>7, MovedKeeps

LEMMA StartLeaveKeeps ==
  ASSUME IInv, NEW t \in Threads, StartLeave(t)
  PROVE  IInv'
<1>1. /\ pc[t] = "run" /\ calls[t] # <<>>
      /\ pc' = [pc EXCEPT ![t] = "leave"] /\ todo' = [todo EXCEPT ![t] = Group(t)]
      /\ UNCHANGED <<monVars, condVars, calls, nodeVars, permit>>
  BY DEF StartLeave, Set
<1>2. /\ calls \in [Threads -> Seq(Routines)] /\ pc \in [Threads -> Pcs]
      /\ todo \in [Threads -> SUBSET Monitors] /\ permit \in [Threads -> BOOLEAN]
      /\ owner \in [Monitors -> Threads \cup {None}] /\ recursion \in [Monitors -> Nat]
      /\ mask \in [Monitors -> SUBSET Routines]
  BY DEF IInv, TypeOK
<1>3. /\ Group(t) \in SUBSET Monitors /\ Group(t) # {} /\ Group(t) = Last(calls[t]).group
      /\ calls[t] \in Seq(Routines)
  <2>1. TypeOK BY DEF IInv
  <2> QED BY <1>1, <2>1, OwnGroup DEF Group, Innermost
<1>4. /\ calls'[t] = calls[t] /\ pc'[t] = "leave" /\ todo'[t] = Group(t) /\ permit'[t] = FALSE
  <2>1. permit[t] = FALSE BY <1>1, Active
  <2> QED BY <1>1, <1>2, <2>1
<1>5. ASSUME NEW m \in Monitors PROVE Entries(t, m)' = Entries(t, m)
  <2>1. Entries(t, m)' = Tally(calls[t], "leave", Last(calls[t]).group, m)
    BY <1>3, <1>4, EntriesAreTallied
  <2>2. Entries(t, m) = Tally(calls[t], "run", todo[t], m) BY <1>1, EntriesAreTallied
  <2> QED BY <1>1, <1>3, <2>1, <2>2, TallyStay
<1>6. Moved(t)
  <2>1. pc' \in [Threads -> Pcs] /\ todo' \in [Threads -> SUBSET Monitors]
    BY <1>1, <1>2, <1>3 DEF Pcs
  <2>2. UNCHANGED <<owner, recursion, entry_queue, signal_stack, mask, condVars, nodeVars, permit, calls>>
    BY <1>1 DEF monVars
  <2>3. \A u \in Threads \ {t} : pc'[u] = pc[u] /\ todo'[u] = todo[u]
    BY <1>1, <1>2
  <2>4. ASSUME NEW m \in Monitors
        PROVE  /\ Entries(t, m)' > 0 => owner[m] = t
               /\ owner[m] = t =>
                    /\ recursion[m] = Entries(t, m)'
                    /\ Entries(t, m)' > 0
    <3>1. ~(pc[t] = "enter") BY <1>1
    <3> QED BY <1>1, <1>5, <3>1, OwnClaims
  <2> QED BY <1>1, <1>2, <1>3, <1>4, <2>1, <2>2, <2>3, <2>4 DEF Moved
<1> QED BY <1>1, <1>6, MovedKeeps

(* Entered takes one monitor off the list of those to enter. *)
LEMMA EnteredCounts ==
  ASSUME IInv, NEW t \in Threads, pc[t] \in {"enter", "blocked"}, Entered(t), calls' = calls
  PROVE  /\ pc' \in [Threads -> Pcs] /\ todo' \in [Threads -> SUBSET Monitors]
         /\ pc'[t] \in {"run", "enter"} /\ (pc'[t] = "run" <=> todo'[t] = {})
         /\ todo'[t] = todo[t] \ {Min(todo[t])}
         /\ calls[t] # <<>> /\ todo'[t] \subseteq Last(calls[t]).group
         /\ \A u \in Threads \ {t} : pc'[u] = pc[u] /\ todo'[u] = todo[u]
         /\ Min(todo[t]) \in Monitors
         /\ \A m \in Monitors : Entries(t, m)' = Entries(t, m) + IF m = Min(todo[t]) THEN 1 ELSE 0
<1>1. pc \in [Threads -> Pcs] /\ todo \in [Threads -> SUBSET Monitors] BY DEF IInv, TypeOK
<1>2. /\ calls[t] \in Seq(Routines) /\ calls[t] # <<>>
      /\ todo[t] \in SUBSET Monitors /\ todo[t] \subseteq Last(calls[t]).group
      /\ Min(todo[t]) \in todo[t]
  BY OwnTodo
<1>3. /\ todo' = [todo EXCEPT ![t] = todo[t] \ {Min(todo[t])}]
      /\ pc' = [pc EXCEPT ![t] = IF todo'[t] = {} THEN "run" ELSE "enter"]
  BY DEF Entered, Set
<1>4. /\ todo'[t] = todo[t] \ {Min(todo[t])}
      /\ pc'[t] = IF todo'[t] = {} THEN "run" ELSE "enter"
      /\ \A u \in Threads \ {t} : pc'[u] = pc[u] /\ todo'[u] = todo[u]
  BY <1>1, <1>3
<1>5. pc' \in [Threads -> Pcs] /\ todo' \in [Threads -> SUBSET Monitors]
  BY <1>1, <1>3 DEF Pcs
<1>6. pc'[t] \in {"run", "enter"} /\ (pc'[t] = "run" <=> todo[t] \ {Min(todo[t])} = {})
  BY <1>4
<1>7. ASSUME NEW m \in Monitors
      PROVE  Entries(t, m)' = Entries(t, m) + IF m = Min(todo[t]) THEN 1 ELSE 0
  <2>1. Entries(t, m)' = Tally(calls[t], pc'[t], todo[t] \ {Min(todo[t])}, m)
    BY <1>4, EntriesAreTallied
  <2>2. Entries(t, m) = Tally(calls[t], pc[t], todo[t], m) BY EntriesAreTallied
  <2>3. Tally(calls[t], pc'[t], todo[t] \ {Min(todo[t])}, m)
          = Tally(calls[t], pc[t], todo[t], m) + IF m = Min(todo[t]) THEN 1 ELSE 0
    <3>1. /\ pc[t] \in {"enter", "blocked"} /\ pc'[t] \in {"enter", "run"}
          /\ pc'[t] = "run" => todo[t] \subseteq {Min(todo[t])}
      BY <1>6
    <3>2. /\ calls[t] \in Seq(Routines) /\ calls[t] # <<>>
          /\ todo[t] \subseteq Last(calls[t]).group /\ Min(todo[t]) \in todo[t]
      BY <1>2
    <3> QED BY <3>1, <3>2, TallyEnter
  <2> QED BY <2>1, <2>2, <2>3
<1> QED BY <1>2, <1>4, <1>5, <1>6, <1>7

LEMMA EnterReturnsKeeps ==
  ASSUME IInv, NEW t \in Threads, EnterReturns(t)
  PROVE  IInv'
<1>1. /\ pc[t] = "blocked" /\ permit[t]
      /\ permit' = [permit EXCEPT ![t] = FALSE] /\ Entered(t)
      /\ UNCHANGED <<monVars, condVars, calls, nodeVars>>
  BY DEF EnterReturns, Set
<1>2. /\ calls \in [Threads -> Seq(Routines)] /\ permit \in [Threads -> BOOLEAN]
      /\ owner \in [Monitors -> Threads \cup {None}] /\ recursion \in [Monitors -> Nat]
      /\ mask \in [Monitors -> SUBSET Routines]
  BY DEF IInv, TypeOK
<1> DEFINE x == Min(todo[t])
<1>3. /\ pc' \in [Threads -> Pcs] /\ todo' \in [Threads -> SUBSET Monitors]
      /\ pc'[t] \in {"run", "enter"} /\ (pc'[t] = "run" <=> todo'[t] = {})
      /\ todo'[t] = todo[t] \ {x}
      /\ calls[t] # <<>> /\ todo'[t] \subseteq Last(calls[t]).group
      /\ \A u \in Threads \ {t} : pc'[u] = pc[u] /\ todo'[u] = todo[u]
      /\ x \in Monitors
      /\ \A m \in Monitors : Entries(t, m)' = Entries(t, m) + IF m = x THEN 1 ELSE 0
  BY <1>1, EnteredCounts
<1>4. Given(t, x) = 1 /\ \A m \in Monitors \ {x} : Given(t, m) = 0 BY <1>1 DEF Given
<1>5. node[t] = {} BY <1>1 DEF IInv, CallInv, CallOk
<1>6. ASSUME NEW m \in Monitors
      PROVE  /\ Entries(t, m) \in Nat
             /\ Entries(t, m) > 0 => owner[m] = t
             /\ owner[m] = t =>
                  /\ recursion[m] = Entries(t, m) + Given(t, m)
                  /\ Entries(t, m) > 0 \/ m \in todo[t]
             /\ m = x => owner[m] = t /\ Entries(t, m) = 0
  <2>1. Entries(t, m) \in Nat BY EntriesType DEF IInv
  <2> QED BY <1>1, <1>3, <1>4, <1>5, <2>1 DEF IInv, ClaimInv, ClaimOk
<1> HIDE DEF x
<1>7. ASSUME NEW m \in Monitors
      PROVE  /\ Entries(t, m)' > 0 => owner[m] = t
             /\ owner[m] = t =>
                  /\ recursion[m] = Entries(t, m)'
                  /\ Entries(t, m)' > 0 \/ (pc'[t] = "enter" /\ m \in todo'[t])
  <2>1. CASE m = x BY <1>3, <1>4, <1>6, <2>1
  <2>2. CASE m # x
    <3>1. m \in todo[t] => pc'[t] = "enter" /\ m \in todo'[t] BY <1>3, <2>2
    <3>2. Entries(t, m)' = Entries(t, m) BY <1>3, <1>6, <2>2
    <3> QED BY <1>4, <1>6, <2>2, <3>1, <3>2
  <2> QED BY <2>1, <2>2
<1>8. Moved(t)
  <2>1. UNCHANGED <<owner, recursion, entry_queue, signal_stack, mask, condVars, nodeVars, calls>>
    BY <1>1 DEF monVars
  <2>2. permit' \in [Threads -> BOOLEAN] /\ permit'[t] = FALSE /\ \A u \in Threads \ {t} : permit'[u] = permit[u]
    BY <1>1, <1>2
  <2> QED BY <1>2, <1>3, <1>7, <2>1, <2>2 DEF Moved
<1> QED BY <1>1, <1>8, MovedKeeps

(* Enter, when the monitor is free, the caller is accepted, or it is its own. *)
LEMMA EnterInKeeps ==
  ASSUME IInv, NEW t \in Threads, pc[t] = "enter", NEW x \in Monitors, x = Min(todo[t]),
         \/ /\ owner[x] = None \/ (owner[x] # t /\ IsAccepted(x, Innermost(t)))
            /\ owner' = [owner EXCEPT ![x] = t] /\ recursion' = [recursion EXCEPT ![x] = 1]
            /\ IF owner[x] = None THEN UNCHANGED mask ELSE mask' = [mask EXCEPT ![x] = {}]
         \/ /\ owner[x] = t
            /\ recursion' = [recursion EXCEPT ![x] = recursion[x] + 1]
            /\ UNCHANGED <<owner, mask>>,
         Entered(t),
         UNCHANGED <<entry_queue, signal_stack, condVars, calls, nodeVars, permit>>
  PROVE  IInv'
<1>1. /\ calls \in [Threads -> Seq(Routines)] /\ permit \in [Threads -> BOOLEAN]
      /\ owner \in [Monitors -> Threads \cup {None}] /\ recursion \in [Monitors -> Nat]
      /\ mask \in [Monitors -> SUBSET Routines]
  BY DEF IInv, TypeOK
<1>2. permit' = permit /\ permit[t] = FALSE /\ calls' = calls
  <2>1. pc[t] \in {"run", "enter", "leave"} OBVIOUS
  <2> QED BY <2>1, Active
<1>3. /\ pc' \in [Threads -> Pcs] /\ todo' \in [Threads -> SUBSET Monitors]
      /\ pc'[t] \in {"run", "enter"} /\ (pc'[t] = "run" <=> todo'[t] = {})
      /\ todo'[t] = todo[t] \ {x}
      /\ calls[t] # <<>> /\ todo'[t] \subseteq Last(calls[t]).group
      /\ \A u \in Threads \ {t} : pc'[u] = pc[u] /\ todo'[u] = todo[u]
      /\ \A m \in Monitors : Entries(t, m)' = Entries(t, m) + IF m = x THEN 1 ELSE 0
  <2>1. pc[t] \in {"enter", "blocked"} OBVIOUS
  <2> QED BY <1>2, <2>1, EnteredCounts
<1>4. ASSUME NEW m \in Monitors
      PROVE  /\ Entries(t, m) \in Nat /\ recursion[m] \in Nat
             /\ Entries(t, m) > 0 => owner[m] = t
             /\ owner[m] = t => recursion[m] = Entries(t, m) /\ (Entries(t, m) > 0 \/ m \in todo[t])
  BY OwnClaims
<1>5. ASSUME NEW m \in Monitors, m # x, Entries(t, m)' > 0 \/ owner[m] = t
      PROVE  /\ owner[m] = t /\ recursion[m] = Entries(t, m)'
             /\ Entries(t, m)' > 0 \/ (pc'[t] = "enter" /\ m \in todo'[t])
  <2>1. Entries(t, m)' = Entries(t, m) BY <1>3, <1>4, <1>5
  <2>2. m \in todo[t] => pc'[t] = "enter" /\ m \in todo'[t] BY <1>3, <1>5
  <2> QED BY <1>4, <1>5, <2>1, <2>2
<1>6. Entries(t, x)' = Entries(t, x) + 1 BY <1>3
<1>7. t # None BY MonitorAssumption DEF MonitorAssumption
<1>8. CASE /\ owner[x] = None \/ (owner[x] # t /\ IsAccepted(x, Innermost(t)))
           /\ owner' = [owner EXCEPT ![x] = t] /\ recursion' = [recursion EXCEPT ![x] = 1]
           /\ IF owner[x] = None THEN UNCHANGED mask ELSE mask' = [mask EXCEPT ![x] = {}]
  <2>1. owner[x] # t /\ Entries(t, x)' = 1
    <3>1. owner[x] # t BY <1>7, <1>8
    <3>2. Entries(t, x) = 0 BY <1>4, <3>1
    <3> QED BY <1>6, <3>1, <3>2
  <2>2. (owner[x] = None \/ mask[x] # {}) /\ mask'[x] = {}
    <3>1. CASE owner[x] = None
      <4>1. mask[x] = {} BY <3>1, MonitorAssumption DEF IInv, MaskInv, MonitorAssumption
      <4> QED BY <1>8, <3>1, <4>1
    <3>2. CASE owner[x] # None BY <1>1, <1>8, <3>2 DEF IsAccepted
    <3> QED BY <3>1, <3>2
  <2>3. /\ owner' \in [Monitors -> Threads \cup {None}] /\ recursion' \in [Monitors -> Nat]
        /\ owner'[x] = t /\ recursion'[x] = 1
        /\ \A m \in Monitors : m # x => owner'[m] = owner[m] /\ recursion'[m] = recursion[m]
    BY <1>1, <1>8
  <2>4. mask' \in [Monitors -> SUBSET Routines] /\ \A m \in Monitors : m # x => mask'[m] = mask[m]
    BY <1>1, <1>8
  <2>5. ASSUME NEW m \in Monitors
        PROVE  /\ \/ owner'[m] = owner[m] /\ mask'[m] = mask[m]
                  \/ owner'[m] = t /\ owner[m] # t /\ mask'[m] = {} /\ (owner[m] = None \/ mask[m] # {})
               /\ owner'[m] # t => recursion'[m] = recursion[m]
               /\ Entries(t, m)' > 0 => owner'[m] = t
               /\ owner'[m] = t =>
                    /\ recursion'[m] = Entries(t, m)'
                    /\ Entries(t, m)' > 0 \/ (pc'[t] = "enter" /\ m \in todo'[t])
    <3>1. CASE m = x BY <2>1, <2>2, <2>3, <3>1
    <3>2. CASE m # x BY <1>5, <2>3, <2>4, <3>2
    <3> QED BY <3>1, <3>2
  <2>6. Moved(t) BY <1>1, <1>2, <1>3, <2>3, <2>4, <2>5 DEF Moved
  <2>7. pc[t] \in {"run", "enter", "leave"} OBVIOUS
  <2> QED BY <2>6, <2>7, MovedKeeps
<1>9. CASE /\ owner[x] = t
           /\ recursion' = [recursion EXCEPT ![x] = recursion[x] + 1]
           /\ UNCHANGED <<owner, mask>>
  <2>1. recursion[x] = Entries(t, x) /\ recursion[x] \in Nat BY <1>4, <1>9
  <2>2. recursion[x] + 1 \in Nat BY <2>1
  <2>3. /\ recursion' \in [Monitors -> Nat]
        /\ recursion'[x] = recursion[x] + 1 /\ \A m \in Monitors : m # x => recursion'[m] = recursion[m]
    BY <1>1, <1>9, <2>2
  <2>4. recursion'[x] = Entries(t, x)' /\ Entries(t, x)' > 0 BY <1>6, <2>1, <2>3
  <2>5. ASSUME NEW m \in Monitors
        PROVE  /\ owner'[m] = owner[m] /\ mask'[m] = mask[m]
               /\ owner'[m] # t => recursion'[m] = recursion[m]
               /\ Entries(t, m)' > 0 => owner'[m] = t
               /\ owner'[m] = t =>
                    /\ recursion'[m] = Entries(t, m)'
                    /\ Entries(t, m)' > 0 \/ (pc'[t] = "enter" /\ m \in todo'[t])
    <3>1. CASE m = x BY <1>9, <2>4, <3>1
    <3>2. CASE m # x BY <1>5, <1>9, <2>3, <3>2
    <3> QED BY <3>1, <3>2
  <2>6. owner' \in [Monitors -> Threads \cup {None}] /\ mask' \in [Monitors -> SUBSET Routines]
    BY <1>1, <1>9
  <2>7. Moved(t) BY <1>1, <1>2, <1>3, <2>3, <2>5, <2>6 DEF Moved
  <2>8. pc[t] \in {"run", "enter", "leave"} OBVIOUS
  <2> QED BY <2>7, <2>8, MovedKeeps
<1> QED BY <1>8, <1>9

(* Enter, when the thread has to wait for the monitor in its entry queue. *)
LEMMA EnterBlocksKeeps ==
  ASSUME IInv, NEW t \in Threads, pc[t] = "enter", NEW x \in Monitors, x = Min(todo[t]),
         owner[x] \notin {None, t},
         entry_queue' = [entry_queue EXCEPT ![x] = Append(entry_queue[x], t)],
         pc' = [pc EXCEPT ![t] = "blocked"],
         UNCHANGED <<owner, recursion, mask, todo, signal_stack, condVars, calls, nodeVars, permit>>
  PROVE  IInv'
<1>1. UNCHANGED <<owner, recursion, mask, todo, signal_stack, cond_monitors, blocked,
                  calls, node, ready, saved, permit>>
  BY DEF condVars, nodeVars
<1>2. permit[t] = FALSE /\ node[t] = {} /\ ready[t] = {} /\ ~OnCondition(t)
      /\ \A m \in Monitors : t \notin ToSet(entry_queue[m]) /\ t \notin ToSet(signal_stack[m])
  <2>1. pc[t] \in {"run", "enter", "leave"} OBVIOUS
  <2> QED BY <2>1, Active
<1>3. \A m \in Monitors : Entries(t, m) \in Nat /\ (Entries(t, m) > 0 => owner[m] = t)
                          /\ (owner[m] = t => recursion[m] = Entries(t, m) /\ (Entries(t, m) > 0 \/ m \in todo[t]))
  <2>1. pc[t] \in {"run", "enter", "leave"} OBVIOUS
  <2> QED BY <2>1, OwnClaims
<1> USE DEF IInv
<1>4. pc'[t] = "blocked" /\ pc' \in [Threads -> Pcs] /\ \A u \in Threads \ {t} : pc'[u] = pc[u]
  BY DEF TypeOK, Pcs
<1>5. /\ Append(entry_queue[x], t) \in Seq(Threads)
      /\ ToSet(Append(entry_queue[x], t)) = ToSet(entry_queue[x]) \cup {t}
      /\ IsInjective(Append(entry_queue[x], t))
  <2>1. entry_queue[x] \in Seq(Threads) /\ IsInjective(entry_queue[x]) BY DEF TypeOK, EntryInv
  <2> QED BY <1>2, <2>1, AppendSet
<1>6. /\ entry_queue' \in [Monitors -> Seq(Threads)]
      /\ entry_queue'[x] = Append(entry_queue[x], t)
      /\ \A m \in Monitors \ {x} : entry_queue'[m] = entry_queue[m]
  BY <1>5 DEF TypeOK
<1>7. \A u \in Threads, m \in Monitors : u \in ToSet(entry_queue'[m]) <=>
        u \in ToSet(entry_queue[m]) \/ (u = t /\ m = x)
  BY <1>5, <1>6
<1>8. \A u \in Threads, m \in Monitors : Entries(u, m)' = Entries(u, m)
  <2>1. ASSUME NEW m \in Monitors PROVE Entries(t, m)' = Entries(t, m)
    <3>1. /\ Entries(t, m)' = Tally(calls[t], "blocked", todo[t], m)
          /\ Entries(t, m) = Tally(calls[t], "enter", todo[t], m)
      BY <1>1, <1>4, EntriesAreTallied
    <3>2. calls[t] \in Seq(Routines) BY DEF TypeOK
    <3> QED BY <3>1, <3>2, TallyStay
  <2>2. ASSUME NEW u \in Threads \ {t}, NEW m \in Monitors PROVE Entries(u, m)' = Entries(u, m)
    BY <1>1, <1>4, EntriesFrame
  <2> QED BY <2>1, <2>2
<1>9. \A u \in Threads, m \in Monitors : Given(u, m)' = Given(u, m)
  BY <1>1, <1>2, <1>4 DEF Given
<1>10. \A u \in Threads : OnCondition(u)' <=> OnCondition(u) BY <1>1 DEF OnCondition
<1>11. TypeOK' BY <1>1, <1>4, <1>6 DEF TypeOK
<1>12. CallInv'
  <2>1. \A u \in Threads : Group(u)' = Group(u) BY <1>1 DEF Group, Innermost
  <2> QED BY <1>1, <1>2, <1>4, <2>1 DEF CallInv, CallOk
<1>13. EntryInv'
  <2>1. \A m \in Monitors : IsInjective(entry_queue'[m]) BY <1>5, <1>6 DEF EntryInv
  <2>2. ASSUME NEW u \in Threads, NEW m \in Monitors
        PROVE  u \in ToSet(entry_queue'[m]) <=> pc'[u] = "blocked" /\ ~permit'[u] /\ m = Min(todo'[u])
    <3>1. CASE u = t BY <1>1, <1>2, <1>4, <1>7, <3>1
    <3>2. CASE u # t BY <1>1, <1>4, <1>7, <3>2 DEF EntryInv
    <3> QED BY <3>1, <3>2
  <2> QED BY <2>1, <2>2 DEF EntryInv
<1>14. CondInv'
  <2>1. \A u \in Threads, c \in Conditions : u \in ToSet(blocked[c]) => u # t
    BY <1>2 DEF OnCondition
  <2> QED BY <1>1, <1>4, <2>1 DEF CondInv
<1>15. StackInv'
  <2>1. ASSUME NEW u \in Threads, NEW m \in Monitors
        PROVE  u \in ToSet(signal_stack'[m]) <=>
                 pc'[u] = "waiting" /\ ~permit'[u] /\ m \in node'[u] \ ready'[u] /\ ~OnCondition(u)'
    <3>1. CASE u = t BY <1>1, <1>2, <1>4, <3>1
    <3>2. CASE u # t BY <1>1, <1>4, <1>10, <3>2 DEF StackInv
    <3> QED BY <3>1, <3>2
  <2> QED BY <1>1, <2>1 DEF StackInv
<1>16. ClaimInv'
  <2>1. ASSUME NEW u \in Threads, NEW m \in Monitors
        PROVE  /\ Entries(u, m)' > 0 /\ m \notin node'[u] => owner'[m] = u
               /\ owner'[m] = u /\ m \notin node'[u] =>
                    /\ recursion'[m] = Entries(u, m)' + Given(u, m)'
                    /\ Entries(u, m)' > 0 \/ (pc'[u] \in {"enter", "blocked"} /\ m \in todo'[u])
               /\ Given(u, m)' = 1 => owner'[m] = u /\ Entries(u, m)' = 0
               /\ u \in ToSet(entry_queue'[m]) => owner'[m] # u
    <3>1. pc[u] \in {"enter", "blocked"} => pc'[u] \in {"enter", "blocked"} BY <1>4
    <3> QED BY <1>1, <1>7, <1>8, <1>9, <3>1 DEF ClaimInv, ClaimOk
  <2> QED BY <2>1 DEF ClaimInv, ClaimOk
<1>17. WaitInv'
  <2>1. \A u \in Threads : pc'[u] = "waiting" => pc[u] = "waiting" BY <1>4
  <2>2. \A u \in Threads : node[u] \in SUBSET Monitors BY DEF TypeOK
  <2> QED BY <1>1, <1>8, <2>1, <2>2 DEF WaitInv, WaitOk
<1>18. MaskInv' BY <1>1 DEF MaskInv
<1>19. FreeInv' BY <1>1, <1>6 DEF FreeInv
<1> QED BY <1>11, <1>12, <1>13, <1>14, <1>15, <1>16, <1>17, <1>18, <1>19

LEMMA EnterKeeps ==
  ASSUME IInv, NEW t \in Threads, Enter(t)
  PROVE  IInv'
<1>1. pc[t] = "enter" BY DEF Enter
<1>2. PICK x \in Monitors : x = Min(todo[t])
  <2>1. pc[t] \in {"enter", "blocked", "leave"} BY <1>1
  <2> QED BY <2>1, OwnTodo
<1>3. \/ /\ owner[x] = None \/ (owner[x] # t /\ IsAccepted(x, Innermost(t)))
         /\ owner' = [owner EXCEPT ![x] = t] /\ recursion' = [recursion EXCEPT ![x] = 1]
         /\ IF owner[x] = None THEN UNCHANGED mask ELSE mask' = [mask EXCEPT ![x] = {}]
         /\ UNCHANGED entry_queue
         /\ Entered(t)
      \/ /\ owner[x] = t
         /\ recursion' = [recursion EXCEPT ![x] = recursion[x] + 1]
         /\ UNCHANGED <<owner, entry_queue, mask>>
         /\ Entered(t)
      \/ /\ owner[x] \notin {None, t}
         /\ entry_queue' = [entry_queue EXCEPT ![x] = Append(entry_queue[x], t)]
         /\ pc' = [pc EXCEPT ![t] = "blocked"]
         /\ UNCHANGED <<owner, recursion, mask, todo>>
  BY <1>2 DEF Enter, Set
<1>4. UNCHANGED <<signal_stack, condVars, calls, nodeVars, permit>> BY DEF Enter
<1>5. CASE /\ owner[x] = None \/ (owner[x] # t /\ IsAccepted(x, Innermost(t)))
           /\ owner' = [owner EXCEPT ![x] = t] /\ recursion' = [recursion EXCEPT ![x] = 1]
           /\ IF owner[x] = None THEN UNCHANGED mask ELSE mask' = [mask EXCEPT ![x] = {}]
           /\ UNCHANGED entry_queue
           /\ Entered(t)
  <2>1. UNCHANGED <<entry_queue, signal_stack, condVars, calls, nodeVars, permit>> BY <1>4, <1>5
  <2> QED BY <1>1, <1>2, <1>5, <2>1, EnterInKeeps
<1>6. CASE /\ owner[x] = t
           /\ recursion' = [recursion EXCEPT ![x] = recursion[x] + 1]
           /\ UNCHANGED <<owner, entry_queue, mask>>
           /\ Entered(t)
  <2>1. UNCHANGED <<entry_queue, signal_stack, condVars, calls, nodeVars, permit>> BY <1>4, <1>6
  <2>2. UNCHANGED <<owner, mask>> BY <1>6
  <2> QED BY <1>1, <1>2, <1>6, <2>1, <2>2, EnterInKeeps
<1>7. CASE /\ owner[x] \notin {None, t}
           /\ entry_queue' = [entry_queue EXCEPT ![x] = Append(entry_queue[x], t)]
           /\ pc' = [pc EXCEPT ![t] = "blocked"]
           /\ UNCHANGED <<owner, recursion, mask, todo>>
  <2>1. UNCHANGED <<owner, recursion, mask, todo, signal_stack, condVars, calls, nodeVars, permit>>
    BY <1>4, <1>7
  <2> QED BY <1>1, <1>2, <1>7, <2>1, EnterBlocksKeeps
<1> QED BY <1>3, <1>5, <1>6, <1>7, Zenon

-----------------------------------------------------------------------------
(***************************************************************************)
(* Leaving.                                                                *)
(***************************************************************************)

(* What the threads that t passes monitors on to, and all others, keep. *)
LEMMA PassedOnOthers ==
  ASSUME IInv, NEW t \in Threads, pc[t] \in {"run", "leave"},
         NEW ms \in SUBSET Monitors, \A m \in ms : owner[m] = t,
         PassedOn(t, ms), mask' = mask,
         \A u \in Threads \ {t} :
           /\ calls'[u] = calls[u] /\ pc'[u] = pc[u] /\ todo'[u] = todo[u]
           /\ node'[u] = node[u] /\ saved'[u] = saved[u]
           /\ OnCondition(u)' <=> OnCondition(u)
  PROVE  /\ MaskInv' /\ FreeInv'
         /\ \A m \in Monitors : IsInjective(entry_queue'[m]) /\ IsInjective(signal_stack'[m])
         /\ \A u \in Threads \ {t} :
              /\ CallOk(u)' /\ WaitOk(u)'
              /\ \A m \in Monitors :
                   /\ ClaimOk(u, m)'
                   /\ u \in ToSet(entry_queue'[m]) <=>
                        pc'[u] = "blocked" /\ ~permit'[u] /\ m = Min(todo'[u])
                   /\ u \in ToSet(signal_stack'[m]) <=>
                        pc'[u] = "waiting" /\ ~permit'[u] /\ m \in node'[u] \ ready'[u] /\ ~OnCondition(u)'
         /\ \A m \in Monitors : t \notin ToSet(entry_queue'[m]) /\ t \notin ToSet(signal_stack'[m])
<1>1. /\ \A m \in Monitors \ ms :
           /\ owner'[m] = owner[m] /\ recursion'[m] = recursion[m]
           /\ entry_queue'[m] = entry_queue[m] /\ signal_stack'[m] = signal_stack[m]
      /\ \A m \in ms :
           /\ owner'[m] # t
           /\ recursion'[m] = IF owner'[m] = None THEN 0 ELSE 1
           /\ owner'[m] = None => entry_queue'[m] = <<>> /\ signal_stack'[m] = <<>>
      /\ \A m \in Monitors : IsInjective(entry_queue'[m]) /\ IsInjective(signal_stack'[m])
  BY DEF PassedOn
<1>2. \A u \in Threads, m \in Monitors :
        /\ u \in ToSet(entry_queue'[m]) <=> pc[u] = "blocked" /\ ~permit'[u] /\ m = Min(todo[u])
        /\ u \in ToSet(signal_stack'[m]) <=>
             pc[u] = "waiting" /\ ~permit'[u] /\ m \in node[u] \ ready'[u] /\ ~OnCondition(u)
  BY DEF PassedOn
<1>3. \A u \in Threads :
        /\ permit'[u] => permit[u] \/ (pc[u] \in {"blocked", "waiting"} /\ ~OnCondition(u))
        /\ permit[u] => permit'[u]
        /\ pc[u] # "waiting" => ready'[u] = {}
        /\ ready[u] \subseteq ready'[u] /\ ready'[u] \subseteq node[u]
        /\ OnCondition(u) => ready'[u] = {}
  BY DEF PassedOn
<1>4. \A u \in Threads :
        /\ \A m \in ready'[u] : owner'[m] = u
        /\ pc[u] = "waiting" /\ permit'[u] => \A m \in node[u] : owner'[m] = u
        /\ pc[u] = "waiting" /\ ~permit'[u] => ready'[u] # node[u]
  BY DEF PassedOn
<1>5. \A u \in Threads, m \in ms : owner'[m] = u =>
        \/ pc[u] = "waiting" /\ m \in ready'[u]
        \/ pc[u] = "blocked" /\ permit'[u] /\ m = Min(todo[u]) /\ m \in todo[u] /\ Entries(u, m) = 0
  BY DEF PassedOn
<1>6. \A u \in Threads, m \in Monitors : pc[u] = "blocked" /\ permit'[u] /\ m = Min(todo[u]) =>
        owner'[m] = u /\ Entries(u, m) = 0
  BY DEF PassedOn
<1>7. t # None BY MonitorAssumption DEF MonitorAssumption
<1>8. \A m \in Monitors : t \notin ToSet(entry_queue[m]) /\ t \notin ToSet(signal_stack[m])
  <2>1. pc[t] \in {"run", "enter", "leave"} OBVIOUS
  <2> QED BY <2>1, Active
<1>9. MaskInv'
  <2>1. ASSUME NEW m \in Monitors, mask[m] # {}
        PROVE  \E u \in Threads : owner'[m] = u /\ u \in ToSet(signal_stack'[m])
    <3>1. PICK u \in Threads : owner[m] = u /\ u \in ToSet(signal_stack[m])
      BY <2>1 DEF IInv, MaskInv
    <3>2. m \notin ms BY <1>8, <3>1
    <3> QED BY <1>1, <3>1, <3>2
  <2> QED BY <2>1 DEF MaskInv
<1>10. FreeInv'
  <2>1. \A m \in Monitors : owner[m] = None => entry_queue[m] = <<>> /\ signal_stack[m] = <<>>
    BY DEF IInv, FreeInv
  <2> QED BY <1>1, <2>1 DEF FreeInv
<1>11. ASSUME NEW u \in Threads \ {t} PROVE CallOk(u)'
  <2>1. Group(u)' = Group(u) BY DEF Group, Innermost
  <2>2. CallOk(u) BY DEF IInv, CallInv
  <2> QED BY <1>3, <2>1, <2>2 DEF CallOk
<1>12. ASSUME NEW u \in Threads \ {t} PROVE WaitOk(u)'
  <2>1. WaitOk(u) BY DEF IInv, WaitInv
  <2>2. node[u] \in SUBSET Monitors BY DEF IInv, TypeOK
  <2>3. \A m \in Monitors : Entries(u, m)' = Entries(u, m) BY EntriesFrame
  <2>4. ASSUME pc[u] = "waiting", ~permit'[u], NEW m \in node[u], owner'[m] = u
        PROVE  m \in ready'[u] \/ mask[m] # {}
    <3>1. CASE m \in ms BY <1>5, <2>4, <3>1
    <3>2. CASE m \notin ms
      <4>1. owner[m] = u BY <1>1, <2>2, <2>4, <3>2
      <4>2. m \in ready[u] \/ mask[m] # {} BY <1>3, <2>1, <2>4, <4>1 DEF WaitOk
      <4> QED BY <1>3, <4>2
    <3> QED BY <3>1, <3>2
  <2>5. /\ \A m \in node[u] : saved[u][m].recursion = Entries(u, m)
        /\ \A m \in Monitors : saved[u][m].mask = {}
    BY <2>1 DEF WaitOk
  <2> QED BY <1>4, <2>2, <2>3, <2>4, <2>5 DEF WaitOk
<1>13. ASSUME NEW u \in Threads \ {t}, NEW m \in Monitors PROVE ClaimOk(u, m)'
  <2>1. ClaimOk(u, m) BY DEF IInv, ClaimInv
  <2>2. Entries(u, m)' = Entries(u, m) BY EntriesFrame
  <2>3. Given(u, m)' = 1 <=> pc[u] = "blocked" /\ permit'[u] /\ m = Min(todo[u]) BY DEF Given
  <2>4. Given(u, m) = 1 <=> pc[u] = "blocked" /\ permit[u] /\ m = Min(todo[u]) BY DEF Given
  <2>5. Given(u, m) \in {0, 1} /\ Given(u, m)' \in {0, 1} BY DEF Given
  <2>6. u \in ToSet(entry_queue'[m]) => owner'[m] # u
    <3>1. CASE m \in ms BY <1>2, <1>5, <3>1
    <3>2. CASE m \notin ms BY <1>1, <2>1, <3>2 DEF ClaimOk
    <3> QED BY <3>1, <3>2
  <2>7. Given(u, m)' = 1 => owner'[m] = u /\ Entries(u, m) = 0 BY <1>6, <2>3
  <2>8. CASE m \in ms
    <3>1. owner[m] # u BY <2>8
    <3>2. ~(Entries(u, m) > 0 /\ m \notin node[u]) BY <2>1, <3>1 DEF ClaimOk
    <3>3. ASSUME owner'[m] = u, m \notin node[u]
          PROVE  /\ recursion'[m] = Entries(u, m) + Given(u, m)'
                 /\ pc[u] = "blocked" /\ m \in todo[u]
      <4>1. m \notin ready'[u] BY <1>3, <3>3
      <4>2. pc[u] = "blocked" /\ permit'[u] /\ m = Min(todo[u]) /\ m \in todo[u] /\ Entries(u, m) = 0
        BY <1>5, <2>8, <3>3, <4>1
      <4>3. u # None BY MonitorAssumption DEF MonitorAssumption
      <4>4. recursion'[m] = 1 BY <1>1, <2>8, <3>3, <4>3
      <4> QED BY <2>3, <4>2, <4>4
    <3> QED BY <2>2, <2>6, <2>7, <3>2, <3>3 DEF ClaimOk
  <2>9. CASE m \notin ms
    <3>1. owner'[m] = owner[m] /\ recursion'[m] = recursion[m] /\ entry_queue'[m] = entry_queue[m]
      BY <1>1, <2>9
    <3>2. owner[m] = u => Given(u, m)' = Given(u, m)
      <4>1. ASSUME pc[u] = "blocked", ~permit[u], m = Min(todo[u]) PROVE owner[m] # u
        <5>1. u \in ToSet(entry_queue[m]) BY <4>1 DEF IInv, EntryInv
        <5> QED BY <2>1, <5>1 DEF ClaimOk
      <4> QED BY <1>3, <2>3, <2>4, <2>5, <4>1
    <3> QED BY <2>1, <2>2, <2>6, <2>7, <3>1, <3>2 DEF ClaimOk
  <2> QED BY <2>8, <2>9
<1>14. \A m \in Monitors : t \notin ToSet(entry_queue'[m]) /\ t \notin ToSet(signal_stack'[m])
  BY <1>2
<1>15. ASSUME NEW u \in Threads \ {t}, NEW m \in Monitors
       PROVE  /\ u \in ToSet(entry_queue'[m]) <=> pc'[u] = "blocked" /\ ~permit'[u] /\ m = Min(todo'[u])
              /\ u \in ToSet(signal_stack'[m]) <=>
                   pc'[u] = "waiting" /\ ~permit'[u] /\ m \in node'[u] \ ready'[u] /\ ~OnCondition(u)'
  BY <1>2
<1> QED BY <1>1, <1>9, <1>10, <1>11, <1>12, <1>13, <1>14, <1>15

(* A step of leaving takes one monitor off the list of those to leave. *)
LEMMA LeaveCounts ==
  ASSUME IInv, NEW t \in Threads, Leave(t), NEW x, x = Max(todo[t])
  PROVE  /\ pc[t] = "leave" /\ x \in Monitors /\ x \in todo[t]
         /\ calls' \in [Threads -> Seq(Routines)] /\ pc' \in [Threads -> Pcs]
         /\ todo' \in [Threads -> SUBSET Monitors]
         /\ \A u \in Threads \ {t} : calls'[u] = calls[u] /\ pc'[u] = pc[u] /\ todo'[u] = todo[u]
         /\ pc'[t] \in {"run", "leave"}
         /\ pc'[t] = "leave" => calls'[t] # <<>> /\ todo'[t] # {} /\ todo'[t] \subseteq Last(calls'[t]).group
         /\ \A m \in Monitors : Entries(t, m) = Entries(t, m)' + IF m = x THEN 1 ELSE 0
         /\ \A m \in Monitors : Entries(t, m)' \in Nat
         /\ UNCHANGED <<mask, condVars, node, saved>>
<1>1. /\ pc[t] = "leave"
      /\ todo' = [todo EXCEPT ![t] = todo[t] \ {x}]
      /\ IF todo'[t] = {} THEN /\ pc' = [pc EXCEPT ![t] = "run"]
                               /\ calls' = [calls EXCEPT ![t] = Front(calls[t])]
                          ELSE UNCHANGED <<pc, calls>>
      /\ UNCHANGED <<mask, condVars, node, saved>>
  BY DEF Leave, Set
<1>2. /\ calls \in [Threads -> Seq(Routines)] /\ pc \in [Threads -> Pcs] /\ todo \in [Threads -> SUBSET Monitors]
  BY DEF IInv, TypeOK
<1>3. /\ calls[t] \in Seq(Routines) /\ calls[t] # <<>>
      /\ todo[t] \in SUBSET Monitors /\ todo[t] \subseteq Last(calls[t]).group
      /\ x \in todo[t]
  <2>1. pc[t] \in {"enter", "blocked", "leave"} BY <1>1
  <2> QED BY <2>1, OwnTodo
<1>4. /\ todo' \in [Threads -> SUBSET Monitors] /\ todo'[t] = todo[t] \ {x}
      /\ \A u \in Threads \ {t} : todo'[u] = todo[u]
  BY <1>1, <1>2
<1>5. Front(calls[t]) \in Seq(Routines) BY <1>3, TallyReturn
<1>6. /\ calls' \in [Threads -> Seq(Routines)] /\ pc' \in [Threads -> Pcs]
      /\ \A u \in Threads \ {t} : calls'[u] = calls[u] /\ pc'[u] = pc[u]
      /\ IF todo'[t] = {} THEN pc'[t] = "run" /\ calls'[t] = Front(calls[t])
                          ELSE pc'[t] = "leave" /\ calls'[t] = calls[t]
  <2>1. CASE todo'[t] = {} BY <1>1, <1>2, <1>5, <2>1 DEF Pcs
  <2>2. CASE todo'[t] # {} BY <1>1, <1>2, <2>2
  <2> QED BY <2>1, <2>2
<1>7. ASSUME NEW m \in Monitors
      PROVE  /\ Entries(t, m) = Entries(t, m)' + IF m = x THEN 1 ELSE 0
             /\ Entries(t, m)' \in Nat
  <2>1. Entries(t, m)' = Tally(calls[t], "leave", todo[t] \ {x}, m)
    <3>1. Entries(t, m)' = Tally(calls'[t], pc'[t], todo[t] \ {x}, m) BY <1>4, EntriesAreTallied
    <3>2. CASE todo'[t] = {}
      <4>1. calls'[t] = Front(calls[t]) /\ pc'[t] = "run" /\ todo[t] \ {x} = {} BY <1>4, <1>6, <3>2
      <4>2. Tally(Front(calls[t]), "run", {}, m) = Tally(calls[t], "leave", {}, m) BY <1>3, TallyReturn
      <4> QED BY <3>1, <4>1, <4>2
    <3>3. CASE todo'[t] # {} BY <1>6, <3>1, <3>3
    <3> QED BY <3>2, <3>3
  <2>2. Entries(t, m) = Tally(calls[t], "leave", todo[t], m) BY <1>1, EntriesAreTallied
  <2>3. Tally(calls[t], "leave", todo[t], m) = Tally(calls[t], "leave", todo[t] \ {x}, m) + IF m = x THEN 1 ELSE 0
    BY <1>3, TallyLeave
  <2>4. Tally(calls[t], "leave", todo[t] \ {x}, m) \in Nat BY <1>3, TallyValue
  <2> QED BY <2>1, <2>2, <2>3, <2>4
<1> QED BY <1>1, <1>3, <1>4, <1>6, <1>7

LEMMA LeaveKeeps ==
  ASSUME IInv, NEW t \in Threads, Leave(t)
  PROVE  IInv'
<1>0. PICK x \in Monitors : x = Max(todo[t])
  <2>1. pc[t] \in {"enter", "blocked", "leave"} BY DEF Leave
  <2> QED BY <2>1, OwnTodo
<1>1. /\ pc[t] = "leave" /\ x \in Monitors /\ x \in todo[t]
      /\ calls' \in [Threads -> Seq(Routines)] /\ pc' \in [Threads -> Pcs]
      /\ todo' \in [Threads -> SUBSET Monitors]
      /\ \A u \in Threads \ {t} : calls'[u] = calls[u] /\ pc'[u] = pc[u] /\ todo'[u] = todo[u]
      /\ pc'[t] \in {"run", "leave"}
      /\ pc'[t] = "leave" => calls'[t] # <<>> /\ todo'[t] # {} /\ todo'[t] \subseteq Last(calls'[t]).group
      /\ \A m \in Monitors : Entries(t, m) = Entries(t, m)' + IF m = x THEN 1 ELSE 0
      /\ \A m \in Monitors : Entries(t, m)' \in Nat
      /\ UNCHANGED <<mask, condVars, node, saved>>
  BY <1>0, LeaveCounts
<1>2. IF recursion[x] # 1
        THEN /\ recursion' = [recursion EXCEPT ![x] = recursion[x] - 1]
             /\ UNCHANGED <<owner, entry_queue, signal_stack, ready, permit>>
        ELSE PassOn({x}, ready)
  BY <1>0 DEF Leave, Set, PassOn, At
<1>3. Entries(t, x) \in Nat \ {0} /\ owner[x] = t /\ recursion[x] = Entries(t, x)
  BY <1>1, Holds
<1>4. /\ owner \in [Monitors -> Threads \cup {None}] /\ recursion \in [Monitors -> Nat]
      /\ mask \in [Monitors -> SUBSET Routines] /\ permit \in [Threads -> BOOLEAN]
  BY DEF IInv, TypeOK
<1>5. pc[t] \in {"run", "enter", "leave"} /\ pc[t] # "enter" BY <1>1
<1>6. /\ permit[t] = FALSE /\ node[t] = {} /\ ready[t] = {} /\ ~OnCondition(t)
  BY <1>5, Active
<1>7. ASSUME NEW m \in Monitors, m # x
      PROVE  /\ Entries(t, m)' > 0 => owner[m] = t
             /\ owner[m] = t => recursion[m] = Entries(t, m)' /\ Entries(t, m)' > 0
  <2>1. Entries(t, m)' = Entries(t, m) BY <1>1, <1>7
  <2> QED BY <1>5, <2>1, OwnClaims
<1>8. CASE recursion[x] # 1
  <2>1. recursion[x] - 1 \in Nat /\ recursion[x] - 1 = Entries(t, x)' /\ Entries(t, x)' > 0
    <3>1. Entries(t, x) = Entries(t, x)' + 1 /\ Entries(t, x)' \in Nat BY <1>1
    <3> QED BY <1>3, <1>8, <3>1
  <2>2. /\ recursion' \in [Monitors -> Nat]
        /\ recursion'[x] = Entries(t, x)' /\ \A m \in Monitors : m # x => recursion'[m] = recursion[m]
    BY <1>1, <1>2, <1>4, <1>8, <2>1
  <2>3. UNCHANGED <<owner, entry_queue, signal_stack, ready, permit, mask, condVars, node, saved>>
    BY <1>1, <1>2, <1>8
  <2>4. ASSUME NEW m \in Monitors
        PROVE  /\ owner[m] # t => recursion'[m] = recursion[m]
               /\ Entries(t, m)' > 0 => owner[m] = t
               /\ owner[m] = t => recursion'[m] = Entries(t, m)' /\ Entries(t, m)' > 0
    <3>1. CASE m = x
      <4>1. owner[m] = t /\ recursion'[m] = Entries(t, m)' /\ Entries(t, m)' > 0 BY <1>3, <2>1, <2>2, <3>1
      <4> QED BY <4>1
    <3>2. CASE m # x BY <1>7, <2>2, <3>2
    <3> QED BY <3>1, <3>2
  <2>5. Moved(t)
    <3>1. UNCHANGED <<entry_queue, signal_stack, condVars, nodeVars>> BY <2>3 DEF nodeVars
    <3> QED BY <1>1, <1>4, <1>6, <2>2, <2>3, <2>4, <3>1 DEF Moved
  <2> QED BY <1>5, <2>5, MovedKeeps
<1>9. CASE recursion[x] = 1
  <2>1. PICK ms \in SUBSET Monitors : ms = {x} BY <1>1
  <2>2. PassedOn(t, ms)
    <3>1. PassOn(ms, ready) BY <1>2, <1>9, <2>1
    <3>2. pc[t] \in {"run", "leave"} BY <1>1
    <3>3. \A m \in ms : owner[m] = t BY <1>3, <2>1
    <3> QED BY <3>1, <3>2, <3>3, PassOnPasses
  <2>3. UNCHANGED <<mask, cond_monitors, blocked, node, saved>> BY <1>1 DEF condVars
  <2>4. \A u \in Threads : OnCondition(u)' <=> OnCondition(u) BY <2>3 DEF OnCondition
  <2>5. /\ MaskInv' /\ FreeInv'
        /\ \A m \in Monitors : IsInjective(entry_queue'[m]) /\ IsInjective(signal_stack'[m])
        /\ \A u \in Threads \ {t} :
             /\ CallOk(u)' /\ WaitOk(u)'
             /\ \A m \in Monitors :
                  /\ ClaimOk(u, m)'
                  /\ u \in ToSet(entry_queue'[m]) <=>
                       pc'[u] = "blocked" /\ ~permit'[u] /\ m = Min(todo'[u])
                  /\ u \in ToSet(signal_stack'[m]) <=>
                       pc'[u] = "waiting" /\ ~permit'[u] /\ m \in node'[u] \ ready'[u] /\ ~OnCondition(u)'
        /\ \A m \in Monitors : t \notin ToSet(entry_queue'[m]) /\ t \notin ToSet(signal_stack'[m])
    <3>1. pc[t] \in {"run", "leave"} /\ mask' = mask BY <1>1
    <3>2. \A u \in Threads \ {t} :
           /\ calls'[u] = calls[u] /\ pc'[u] = pc[u] /\ todo'[u] = todo[u]
           /\ node'[u] = node[u] /\ saved'[u] = saved[u]
           /\ OnCondition(u)' <=> OnCondition(u)
      BY <1>1, <2>3, <2>4
    <3>3. \A m \in ms : owner[m] = t BY <1>3, <2>1
    <3> QED BY <2>2, <3>1, <3>2, <3>3, PassedOnOthers
  <2>6. /\ owner' \in [Monitors -> Threads \cup {None}] /\ recursion' \in [Monitors -> Nat]
        /\ entry_queue' \in [Monitors -> Seq(Threads)] /\ signal_stack' \in [Monitors -> Seq(Threads)]
        /\ ready' \in [Threads -> SUBSET Monitors] /\ permit' \in [Threads -> BOOLEAN]
        /\ permit'[t] = FALSE /\ ready'[t] = {} /\ owner'[x] # t
        /\ \A m \in Monitors : m # x => owner'[m] = owner[m] /\ recursion'[m] = recursion[m]
    <3>1. pc[t] \notin {"blocked", "waiting"} BY <1>1
    <3>2. (permit'[t] => permit[t] \/ pc[t] \in {"blocked", "waiting"}) /\ (pc[t] # "waiting" => ready'[t] = {})
      BY <2>2 DEF PassedOn
    <3>3. /\ owner' \in [Monitors -> Threads \cup {None}] /\ recursion' \in [Monitors -> Nat]
          /\ entry_queue' \in [Monitors -> Seq(Threads)] /\ signal_stack' \in [Monitors -> Seq(Threads)]
          /\ ready' \in [Threads -> SUBSET Monitors] /\ permit' \in [Threads -> BOOLEAN]
      BY <2>2 DEF PassedOn
    <3>4. permit'[t] = FALSE
      <4>1. ~permit'[t] BY <1>6, <3>1, <3>2
      <4>2. permit'[t] \in BOOLEAN BY <3>3
      <4> QED BY <4>1, <4>2
    <3>5. ready'[t] = {} BY <3>1, <3>2
    <3>6. \A m \in ms : owner'[m] # t BY <2>2 DEF PassedOn
    <3>7. \A m \in Monitors \ ms : owner'[m] = owner[m] /\ recursion'[m] = recursion[m]
      BY <2>2 DEF PassedOn
    <3> QED BY <2>1, <3>3, <3>4, <3>5, <3>6, <3>7
  <2>7. TypeOK'
    <3>1. /\ mask' \in [Monitors -> SUBSET Routines]
          /\ cond_monitors' \in [Conditions -> SUBSET Monitors]
          /\ blocked' \in [Conditions -> Seq(Threads)]
          /\ node' \in [Threads -> SUBSET Monitors]
          /\ saved' \in [Threads -> [Monitors -> [recursion : Nat, mask : SUBSET Routines]]]
      BY <2>3 DEF IInv, TypeOK
    <3> QED BY <1>1, <2>6, <3>1 DEF TypeOK
  <2>8. CallOk(t)' BY <1>1, <1>6, <2>3, <2>6 DEF CallOk, Group, Innermost
  <2>9. \A m \in Monitors : ClaimOk(t, m)'
    <3> SUFFICES ASSUME NEW m \in Monitors PROVE ClaimOk(t, m)' OBVIOUS
    <3>1. Given(t, m)' = 0 BY <1>1 DEF Given
    <3>2. t \notin ToSet(entry_queue'[m]) BY <2>5
    <3>3. CASE m = x
      <4>1. Entries(t, x) = Entries(t, x)' + 1 /\ Entries(t, x)' \in Nat BY <1>1
      <4>2. Entries(t, m)' = 0
        <5>1. Entries(t, x) = 1 BY <1>3, <1>9
        <5>2. Entries(t, x)' = 0 BY <4>1, <5>1
        <5> QED BY <3>3, <5>2
      <4>3. owner'[m] # t BY <2>6, <3>3
      <4> QED BY <3>1, <3>2, <4>2, <4>3 DEF ClaimOk
    <3>4. CASE m # x
      <4>1. /\ Entries(t, m)' > 0 => owner'[m] = t
            /\ owner'[m] = t => recursion'[m] = Entries(t, m)' /\ Entries(t, m)' > 0
        BY <1>7, <2>6, <3>4
      <4>2. Entries(t, m)' \in Nat BY <1>1
      <4> QED BY <3>1, <3>2, <4>1, <4>2 DEF ClaimOk
    <3> QED BY <3>3, <3>4
  <2>10. WaitOk(t)'
    <3>1. WaitOk(t) BY DEF IInv, WaitInv
    <3>2. pc'[t] # "waiting" /\ node'[t] = {} /\ saved' = saved BY <1>1, <1>6, <2>3
    <3> QED BY <2>6, <3>1, <3>2 DEF WaitOk
  <2>11. CondInv'
    <3>1. ASSUME NEW u \in Threads, NEW c \in Conditions, u \in ToSet(blocked[c])
          PROVE  u # t /\ pc'[u] = pc[u] /\ (permit'[u] => permit[u]) /\ ready'[u] = {}
      <4>1. OnCondition(u) BY <3>1 DEF OnCondition
      <4>2. u # t BY <1>6, <4>1
      <4>3. (permit'[u] => permit[u] \/ ~OnCondition(u)) /\ (OnCondition(u) => ready'[u] = {})
        BY <2>2, <3>1 DEF PassedOn
      <4> QED BY <1>1, <4>1, <4>2, <4>3
    <3>2. CondInv BY DEF IInv
    <3> QED BY <2>3, <3>1, <3>2 DEF CondInv
  <2>12. EntryInv'
    <3>1. pc'[t] # "blocked" BY <1>1
    <3> QED BY <2>5, <3>1 DEF EntryInv
  <2>13. StackInv'
    <3>1. pc'[t] # "waiting" BY <1>1
    <3> QED BY <2>5, <3>1 DEF StackInv
  <2>14. CallInv' /\ ClaimInv' /\ WaitInv'
    BY <2>5, <2>8, <2>9, <2>10 DEF CallInv, ClaimInv, WaitInv
  <2> QED BY <2>5, <2>7, <2>11, <2>12, <2>13, <2>14 DEF IInv
<1> QED BY <1>8, <1>9

-----------------------------------------------------------------------------
(***************************************************************************)
(* Waiting, with the monitors of a group.                                  *)
(***************************************************************************)

\* Thread t, which has the monitors g, has saved what it will restore.
SetAside(t, g) ==
  /\ g \in SUBSET Monitors /\ g # {} /\ Min(g) \in g
  /\ permit[t] = FALSE /\ node[t] = {} /\ ready[t] = {} /\ ~OnCondition(t)
  /\ \A m \in Monitors : t \notin ToSet(entry_queue[m]) /\ t \notin ToSet(signal_stack[m])
  /\ \A m \in g : owner[m] = t /\ mask[m] = {} /\ recursion[m] = Entries(t, m)
  /\ pc' \in [Threads -> Pcs] /\ node' \in [Threads -> SUBSET Monitors]
  /\ saved' \in [Threads -> [Monitors -> [recursion : Nat, mask : SUBSET Routines]]]
  /\ pc'[t] = "waiting" /\ node'[t] = g /\ Group(t)' = g
  /\ \A m \in g : saved'[t][m].recursion = Entries(t, m)
  /\ \A m \in Monitors : saved'[t][m].mask = {}
  /\ \A m \in Monitors : Entries(t, m)' = Entries(t, m)
  /\ \A v \in Threads \ {t} : pc'[v] = pc[v] /\ node'[v] = node[v] /\ saved'[v] = saved[v]

(* What a thread saves before it waits is what it will restore. *)
LEMMA SaveFacts ==
  ASSUME IInv, NEW t \in Threads, pc[t] = "run", calls[t] # <<>>, Save(t), calls' = calls, todo' = todo,
         NEW g, g = Group(t)
  PROVE  SetAside(t, g)
<1>1. g \in SUBSET Monitors /\ g # {} /\ Min(g) \in g
  <2>1. TypeOK BY DEF IInv
  <2> QED BY <2>1, OwnGroup
<1>2. /\ permit[t] = FALSE /\ node[t] = {} /\ ready[t] = {} /\ ~OnCondition(t)
      /\ \A m \in Monitors : t \notin ToSet(entry_queue[m]) /\ t \notin ToSet(signal_stack[m])
  <2>1. pc[t] \in {"run", "enter", "leave"} OBVIOUS
  <2> QED BY <2>1, Active
<1>3. \A m \in g : owner[m] = t /\ mask[m] = {} /\ recursion[m] = Entries(t, m)
  <2> SUFFICES ASSUME NEW m \in g
               PROVE  owner[m] = t /\ mask[m] = {} /\ recursion[m] = Entries(t, m)
    OBVIOUS
  <2>1. m \in Monitors /\ m \in Group(t) BY <1>1
  <2> QED BY <2>1, Holds
<1>4. /\ pc' = [pc EXCEPT ![t] = "waiting"] /\ node' = [node EXCEPT ![t] = g]
      /\ saved' = [saved EXCEPT ![t] = [m \in Monitors |->
           IF m \in g THEN [recursion |-> recursion[m], mask |-> mask[m]] ELSE saved[t][m]]]
  BY DEF Save, Set
<1>5. /\ pc \in [Threads -> Pcs] /\ node \in [Threads -> SUBSET Monitors]
      /\ saved \in [Threads -> [Monitors -> [recursion : Nat, mask : SUBSET Routines]]]
      /\ recursion \in [Monitors -> Nat] /\ mask \in [Monitors -> SUBSET Routines]
      /\ calls[t] \in Seq(Routines)
  BY DEF IInv, TypeOK
<1>6. /\ pc' \in [Threads -> Pcs] /\ node' \in [Threads -> SUBSET Monitors]
      /\ pc'[t] = "waiting" /\ node'[t] = g
      /\ \A v \in Threads \ {t} : pc'[v] = pc[v] /\ node'[v] = node[v]
  BY <1>1, <1>4, <1>5 DEF Pcs
<1>7. /\ saved' \in [Threads -> [Monitors -> [recursion : Nat, mask : SUBSET Routines]]]
      /\ \A m \in Monitors : saved'[t][m] =
           IF m \in g THEN [recursion |-> recursion[m], mask |-> mask[m]] ELSE saved[t][m]
      /\ \A v \in Threads \ {t} : saved'[v] = saved[v]
  <2> DEFINE f == [m \in Monitors |->
                     IF m \in g THEN [recursion |-> recursion[m], mask |-> mask[m]] ELSE saved[t][m]]
  <2>1. f \in [Monitors -> [recursion : Nat, mask : SUBSET Routines]] BY <1>5
  <2>2. \A m \in Monitors : f[m] =
           IF m \in g THEN [recursion |-> recursion[m], mask |-> mask[m]] ELSE saved[t][m]
    OBVIOUS
  <2>3. saved' = [saved EXCEPT ![t] = f] BY <1>4
  <2> HIDE DEF f
  <2>4. saved'[t] = f /\ \A v \in Threads \ {t} : saved'[v] = saved[v] BY <1>5, <2>3
  <2>5. saved' \in [Threads -> [Monitors -> [recursion : Nat, mask : SUBSET Routines]]]
    BY <1>5, <2>1, <2>3
  <2> QED BY <2>2, <2>4, <2>5
<1>8. \A m \in g : saved'[t][m].recursion = Entries(t, m)
  <2> SUFFICES ASSUME NEW m \in g PROVE saved'[t][m].recursion = Entries(t, m) OBVIOUS
  <2>1. saved'[t][m] = [recursion |-> recursion[m], mask |-> mask[m]] BY <1>1, <1>7
  <2>2. saved'[t][m].recursion = recursion[m] BY <2>1
  <2> QED BY <1>3, <2>2
<1>9. \A m \in Monitors : saved'[t][m].mask = {}
  <2> SUFFICES ASSUME NEW m \in Monitors PROVE saved'[t][m].mask = {} OBVIOUS
  <2>1. saved[t][m].mask = {} BY DEF IInv, WaitInv, WaitOk
  <2>2. CASE m \in g
    <3>1. saved'[t][m] = [recursion |-> recursion[m], mask |-> mask[m]] BY <1>7, <2>2
    <3>2. saved'[t][m].mask = mask[m] BY <3>1
    <3> QED BY <1>3, <2>2, <3>2
  <2>3. CASE m \notin g BY <1>7, <2>1, <2>3
  <2> QED BY <2>2, <2>3
<1>10. \A m \in Monitors : Entries(t, m)' = Entries(t, m)
  <2> SUFFICES ASSUME NEW m \in Monitors PROVE Entries(t, m)' = Entries(t, m) OBVIOUS
  <2>1. /\ Entries(t, m)' = Tally(calls[t], "waiting", todo[t], m)
        /\ Entries(t, m) = Tally(calls[t], "run", todo[t], m)
    BY <1>6, EntriesAreTallied
  <2> QED BY <1>5, <2>1, TallyStay
<1>11. Group(t)' = g BY DEF Group, Innermost
<1> QED BY <1>1, <1>2, <1>3, <1>6, <1>7, <1>8, <1>9, <1>10, <1>11 DEF SetAside

(* Push puts the criteria of a thread that has none on the stacks. *)
LEMMA PushFacts ==
  ASSUME TypeOK, \A m \in Monitors : IsInjective(signal_stack[m]),
         NEW g \in SUBSET Monitors, NEW u \in Threads,
         \A m \in Monitors : u \notin ToSet(signal_stack[m]), Push(g, u)
  PROVE  /\ signal_stack' \in [Monitors -> Seq(Threads)]
         /\ \A m \in Monitors :
              /\ IsInjective(signal_stack'[m])
              /\ ToSet(signal_stack'[m]) = ToSet(signal_stack[m]) \cup (IF m \in g THEN {u} ELSE {})
              /\ m \notin g => signal_stack'[m] = signal_stack[m]
<1>1. signal_stack' = [m \in Monitors |-> IF m \in g THEN <<u>> \o signal_stack[m] ELSE signal_stack[m]]
  BY DEF Push, At
<1>2. signal_stack \in [Monitors -> Seq(Threads)] BY DEF TypeOK
<1>3. \A m \in Monitors :
        /\ <<u>> \o signal_stack[m] \in Seq(Threads)
        /\ ToSet(<<u>> \o signal_stack[m]) = ToSet(signal_stack[m]) \cup {u}
        /\ IsInjective(<<u>> \o signal_stack[m])
  <2> SUFFICES ASSUME NEW m \in Monitors
               PROVE  /\ <<u>> \o signal_stack[m] \in Seq(Threads)
                      /\ ToSet(<<u>> \o signal_stack[m]) = ToSet(signal_stack[m]) \cup {u}
                      /\ IsInjective(<<u>> \o signal_stack[m])
    OBVIOUS
  <2>1. signal_stack[m] \in Seq(Threads) /\ IsInjective(signal_stack[m]) /\ u \notin ToSet(signal_stack[m])
    BY <1>2
  <2> QED BY <2>1, PushSet
<1>4. signal_stack' \in [Monitors -> Seq(Threads)] BY <1>1, <1>2, <1>3, Zenon
<1>5. \A m \in Monitors : signal_stack'[m] = IF m \in g THEN <<u>> \o signal_stack[m] ELSE signal_stack[m]
  BY <1>1, Zenon
<1>6. ASSUME NEW m \in Monitors
      PROVE  /\ IsInjective(signal_stack'[m])
             /\ ToSet(signal_stack'[m]) = ToSet(signal_stack[m]) \cup (IF m \in g THEN {u} ELSE {})
             /\ m \notin g => signal_stack'[m] = signal_stack[m]
  <2>1. CASE m \in g BY <1>3, <1>5, <2>1
  <2>2. CASE m \notin g BY <1>5, <2>2
  <2> QED BY <2>1, <2>2
<1> QED BY <1>4, <1>6

(* Wait: the thread waits on the condition, and passes all its monitors on. *)
LEMMA WaitKeeps ==
  ASSUME IInv, NEW t \in Threads, NEW c \in Conditions, Wait(t, c)
  PROVE  IInv'
<1>1. /\ pc[t] = "run" /\ calls[t] # <<>> /\ cond_monitors[c] \in {{}, Group(t)}
      /\ cond_monitors' = [cond_monitors EXCEPT ![c] = Group(t)]
      /\ blocked' = [blocked EXCEPT ![c] = Append(blocked[c], t)]
      /\ Save(t) /\ UNCHANGED <<mask, calls, todo>>
  BY DEF Wait, MayUse, Set
<1>2. PICK g : g = Group(t) OBVIOUS
<1>3. /\ g \in SUBSET Monitors /\ g # {} /\ Min(g) \in g
      /\ permit[t] = FALSE /\ node[t] = {} /\ ready[t] = {} /\ ~OnCondition(t)
      /\ \A m \in Monitors : t \notin ToSet(entry_queue[m]) /\ t \notin ToSet(signal_stack[m])
      /\ \A m \in g : owner[m] = t /\ mask[m] = {} /\ recursion[m] = Entries(t, m)
      /\ pc' \in [Threads -> Pcs] /\ node' \in [Threads -> SUBSET Monitors]
      /\ saved' \in [Threads -> [Monitors -> [recursion : Nat, mask : SUBSET Routines]]]
      /\ pc'[t] = "waiting" /\ node'[t] = g /\ Group(t)' = g
      /\ \A m \in g : saved'[t][m].recursion = Entries(t, m)
      /\ \A m \in Monitors : saved'[t][m].mask = {}
      /\ \A m \in Monitors : Entries(t, m)' = Entries(t, m)
      /\ \A v \in Threads \ {t} : pc'[v] = pc[v] /\ node'[v] = node[v] /\ saved'[v] = saved[v]
  <2>1. pc[t] = "run" /\ calls[t] # <<>> /\ Save(t) /\ calls' = calls /\ todo' = todo BY <1>1
  <2>2. SetAside(t, g) BY <1>2, <2>1, SaveFacts
  <2> QED BY <2>2 DEF SetAside
<1>4. PassedOn(t, g)
  <2>1. ready \in [Threads -> SUBSET Monitors] BY DEF IInv, TypeOK
  <2>2. [ready EXCEPT ![t] = {}] = ready BY <1>3, <2>1
  <2>3. PassOn(g, ready) BY <1>2, <2>2 DEF Wait, PassOn, At
  <2>4. pc[t] \in {"run", "leave"} /\ \A m \in g : owner[m] = t BY <1>1, <1>3
  <2>5. g \in SUBSET Monitors BY <1>3
  <2> QED BY <2>3, <2>4, <2>5, PassOnPasses
\* The queue of the condition.
<1>5. /\ cond_monitors \in [Conditions -> SUBSET Monitors] /\ blocked \in [Conditions -> Seq(Threads)]
  BY DEF IInv, TypeOK
<1>6. /\ Append(blocked[c], t) \in Seq(Threads)
      /\ ToSet(Append(blocked[c], t)) = ToSet(blocked[c]) \cup {t}
      /\ IsInjective(Append(blocked[c], t))
  <2>1. blocked[c] \in Seq(Threads) /\ IsInjective(blocked[c]) /\ t \notin ToSet(blocked[c])
    BY <1>3, <1>5 DEF IInv, CondInv, OnCondition
  <2> QED BY <2>1, AppendSet
<1>7. /\ cond_monitors' \in [Conditions -> SUBSET Monitors] /\ blocked' \in [Conditions -> Seq(Threads)]
      /\ cond_monitors'[c] = g /\ blocked'[c] = Append(blocked[c], t)
      /\ \A d \in Conditions \ {c} : cond_monitors'[d] = cond_monitors[d] /\ blocked'[d] = blocked[d]
  BY <1>1, <1>2, <1>3, <1>5, <1>6
<1>8. \A v \in Threads, d \in Conditions :
        v \in ToSet(blocked'[d]) <=> v \in ToSet(blocked[d]) \/ (v = t /\ d = c)
  BY <1>6, <1>7
<1>9. OnCondition(t)' /\ \A v \in Threads \ {t} : OnCondition(v)' <=> OnCondition(v)
  BY <1>8 DEF OnCondition
<1>10. /\ MaskInv' /\ FreeInv'
       /\ \A m \in Monitors : IsInjective(entry_queue'[m]) /\ IsInjective(signal_stack'[m])
       /\ \A u \in Threads \ {t} :
            /\ CallOk(u)' /\ WaitOk(u)'
            /\ \A m \in Monitors :
                 /\ ClaimOk(u, m)'
                 /\ u \in ToSet(entry_queue'[m]) <=>
                      pc'[u] = "blocked" /\ ~permit'[u] /\ m = Min(todo'[u])
                 /\ u \in ToSet(signal_stack'[m]) <=>
                      pc'[u] = "waiting" /\ ~permit'[u] /\ m \in node'[u] \ ready'[u] /\ ~OnCondition(u)'
       /\ \A m \in Monitors : t \notin ToSet(entry_queue'[m]) /\ t \notin ToSet(signal_stack'[m])
  <2>1. pc[t] \in {"run", "leave"} /\ g \in SUBSET Monitors /\ mask' = mask /\ \A m \in g : owner[m] = t
    BY <1>1, <1>3
  <2>2. \A u \in Threads \ {t} :
           /\ calls'[u] = calls[u] /\ pc'[u] = pc[u] /\ todo'[u] = todo[u]
           /\ node'[u] = node[u] /\ saved'[u] = saved[u]
           /\ OnCondition(u)' <=> OnCondition(u)
    BY <1>1, <1>3, <1>9
  <2> QED BY <1>4, <2>1, <2>2, PassedOnOthers
<1>11. /\ owner' \in [Monitors -> Threads \cup {None}] /\ recursion' \in [Monitors -> Nat]
       /\ entry_queue' \in [Monitors -> Seq(Threads)] /\ signal_stack' \in [Monitors -> Seq(Threads)]
       /\ ready' \in [Threads -> SUBSET Monitors] /\ permit' \in [Threads -> BOOLEAN]
  BY <1>4 DEF PassedOn
<1>12. /\ permit'[t] = FALSE /\ ready'[t] = {}
  <2>1. pc[t] \notin {"blocked", "waiting"} BY <1>1
  <2>2. (permit'[t] => permit[t] \/ pc[t] \in {"blocked", "waiting"}) /\ (pc[t] # "waiting" => ready'[t] = {})
    BY <1>4 DEF PassedOn
  <2>3. ~permit'[t] /\ ready'[t] = {} BY <1>3, <2>1, <2>2
  <2>4. permit'[t] \in BOOLEAN BY <1>11
  <2> QED BY <2>3, <2>4
<1>13. /\ \A m \in g : owner'[m] # t
       /\ \A m \in Monitors \ g : owner'[m] = owner[m] /\ recursion'[m] = recursion[m]
  BY <1>4 DEF PassedOn
<1>14. TypeOK'
  <2>1. /\ mask' \in [Monitors -> SUBSET Routines] /\ calls' \in [Threads -> Seq(Routines)]
        /\ todo' \in [Threads -> SUBSET Monitors]
    BY <1>1 DEF IInv, TypeOK
  <2> QED BY <1>3, <1>7, <1>11, <2>1 DEF TypeOK
<1>15. CallOk(t)' BY <1>1, <1>3, <1>12 DEF CallOk
<1>16. \A m \in Monitors : ClaimOk(t, m)'
  <2> SUFFICES ASSUME NEW m \in Monitors PROVE ClaimOk(t, m)' OBVIOUS
  <2>1. Given(t, m)' = 0 BY <1>3 DEF Given
  <2>2. t \notin ToSet(entry_queue'[m]) BY <1>10
  <2>3. CASE m \in g BY <1>3, <2>1, <2>2, <2>3 DEF ClaimOk
  <2>4. CASE m \notin g
    <3>1. ClaimOk(t, m) BY DEF IInv, ClaimInv
    <3>2. Given(t, m) = 0 BY <1>1 DEF Given
    <3>3. ~(pc[t] \in {"enter", "blocked"}) BY <1>1
    <3>4. owner'[m] = owner[m] /\ recursion'[m] = recursion[m] BY <1>13, <2>4
    <3>5. Entries(t, m)' = Entries(t, m) /\ node[t] = {} BY <1>3
    <3> QED BY <2>1, <2>2, <3>1, <3>2, <3>3, <3>4, <3>5 DEF ClaimOk
  <2> QED BY <2>3, <2>4
<1>17. WaitOk(t)'
  <2>1. \A m \in g : m \in Monitors BY <1>3
  <2> QED BY <1>3, <1>12, <1>13, <2>1 DEF WaitOk
<1>18. CondInv'
  <2>1. ASSUME NEW d \in Conditions PROVE IsInjective(blocked'[d])
    BY <1>6, <1>7 DEF IInv, CondInv
  <2>2. ASSUME NEW u \in Threads, NEW d \in Conditions, u \in ToSet(blocked'[d])
        PROVE  /\ pc'[u] = "waiting" /\ ~permit'[u]
               /\ node'[u] = cond_monitors'[d] /\ ready'[u] = {}
               /\ \A e \in Conditions : u \in ToSet(blocked'[e]) => e = d
    <3>1. CASE u = t
      <4>1. \A e \in Conditions : t \in ToSet(blocked'[e]) => e = c
        BY <1>3, <1>8 DEF OnCondition
      <4>2. d = c BY <2>2, <3>1, <4>1
      <4> QED BY <1>3, <1>7, <1>12, <3>1, <4>1, <4>2
    <3>2. CASE u # t
      <4>1. u \in ToSet(blocked[d]) BY <1>8, <2>2, <3>2
      <4>2. /\ pc[u] = "waiting" /\ ~permit[u] /\ node[u] = cond_monitors[d] /\ ready[u] = {}
            /\ \A e \in Conditions : u \in ToSet(blocked[e]) => e = d
        BY <4>1 DEF IInv, CondInv
      <4>3. OnCondition(u) BY <4>1 DEF OnCondition
      <4>4. (permit'[u] => permit[u] \/ ~OnCondition(u)) /\ (OnCondition(u) => ready'[u] = {})
        BY <1>4 DEF PassedOn
      <4>5. node[u] # {}
        <5>1. calls[u] # <<>> /\ node[u] = Group(u) BY <4>2 DEF IInv, CallInv, CallOk
        <5>2. TypeOK BY DEF IInv
        <5> QED BY <5>1, <5>2, OwnGroup
      <4>6. cond_monitors'[d] = cond_monitors[d] BY <1>1, <1>2, <1>7, <4>2, <4>5
      <4>7. \A e \in Conditions : u \in ToSet(blocked'[e]) => e = d BY <1>8, <3>2, <4>2
      <4> QED BY <1>3, <3>2, <4>2, <4>3, <4>4, <4>6, <4>7
    <3> QED BY <3>1, <3>2
  <2> QED BY <2>1, <2>2 DEF CondInv
<1>19. EntryInv'
  <2>1. pc'[t] # "blocked" BY <1>3
  <2> QED BY <1>10, <2>1 DEF EntryInv
<1>20. StackInv'
  <2>1. t \in Threads /\ \A m \in Monitors : t \notin ToSet(signal_stack'[m]) BY <1>10
  <2> QED BY <1>9, <1>10, <2>1 DEF StackInv
<1>21. CallInv' /\ ClaimInv' /\ WaitInv'
  BY <1>10, <1>15, <1>16, <1>17 DEF CallInv, ClaimInv, WaitInv
<1> QED BY <1>10, <1>14, <1>18, <1>19, <1>20, <1>21 DEF IInv

(* A group is handed over to a thread that waits for all of it: signalled *)
(* on a condition, or at the first monitor's entry queue.                 *)
LEMMA HandOverKeeps ==
  ASSUME IInv, NEW t \in Threads, pc[t] = "run", calls[t] # <<>>,
         NEW u \in Threads, u # t, NEW g, g = Group(t), HandOver(t, u), UNCHANGED <<mask, calls, todo>>,
         \/ pc[u] = "waiting" /\ node[u] = g /\ ready[u] = {} /\ OnCondition(u)
         \/ pc[u] = "blocked" /\ Min(todo[u]) = Min(g) /\ todo[u] = g,
         permit[u] = FALSE,
         entry_queue' \in [Monitors -> Seq(Threads)],
         \A m \in Monitors :
           /\ IsInjective(entry_queue'[m]) /\ u \notin ToSet(entry_queue'[m])
           /\ m \notin g => entry_queue'[m] = entry_queue[m]
           /\ \A v \in Threads \ {u} : v \in ToSet(entry_queue'[m]) <=> v \in ToSet(entry_queue[m]),
         cond_monitors' \in [Conditions -> SUBSET Monitors], blocked' \in [Conditions -> Seq(Threads)],
         CondInv', ~OnCondition(u)', \A v \in Threads \ {u} : OnCondition(v)' <=> OnCondition(v)
  PROVE  IInv'
<1>1. /\ Save(t) /\ Push(g, t)
      /\ ready' = [ready EXCEPT ![t] = {}]
      /\ owner' = [m \in Monitors |-> IF m \in g THEN u ELSE owner[m]]
      /\ recursion' = [m \in Monitors |->
           IF m \in g THEN IF m = Min(g) THEN 1 ELSE 0 ELSE recursion[m]]
      /\ permit' = [permit EXCEPT ![u] = TRUE]
  BY DEF HandOver, Set, At, Push
<1>2. SetAside(t, g)
  <2>1. calls' = calls /\ todo' = todo OBVIOUS
  <2> QED BY <1>1, <2>1, SaveFacts
<1>3. /\ g \in SUBSET Monitors /\ g # {} /\ Min(g) \in g
      /\ permit[t] = FALSE /\ node[t] = {} /\ ready[t] = {} /\ ~OnCondition(t)
      /\ \A m \in Monitors : t \notin ToSet(entry_queue[m]) /\ t \notin ToSet(signal_stack[m])
      /\ \A m \in g : owner[m] = t /\ mask[m] = {}
  BY <1>2 DEF SetAside
<1>4. /\ pc' \in [Threads -> Pcs] /\ node' \in [Threads -> SUBSET Monitors]
      /\ saved' \in [Threads -> [Monitors -> [recursion : Nat, mask : SUBSET Routines]]]
      /\ pc'[t] = "waiting" /\ node'[t] = g /\ Group(t)' = g
      /\ \A m \in g : saved'[t][m].recursion = Entries(t, m)
      /\ \A m \in Monitors : saved'[t][m].mask = {}
      /\ \A m \in Monitors : Entries(t, m)' = Entries(t, m)
      /\ \A v \in Threads \ {t} : pc'[v] = pc[v] /\ node'[v] = node[v] /\ saved'[v] = saved[v]
  BY <1>2 DEF SetAside
<1>5. /\ signal_stack' \in [Monitors -> Seq(Threads)]
      /\ \A m \in Monitors :
           /\ IsInjective(signal_stack'[m])
           /\ ToSet(signal_stack'[m]) = ToSet(signal_stack[m]) \cup (IF m \in g THEN {t} ELSE {})
           /\ m \notin g => signal_stack'[m] = signal_stack[m]
  <2>1. TypeOK /\ \A m \in Monitors : IsInjective(signal_stack[m]) BY DEF IInv, StackInv
  <2>2. g \in SUBSET Monitors /\ Push(g, t) /\ \A m \in Monitors : t \notin ToSet(signal_stack[m])
    BY <1>1, <1>3
  <2> QED BY <2>1, <2>2, PushFacts
<1>6. /\ owner \in [Monitors -> Threads \cup {None}] /\ recursion \in [Monitors -> Nat]
      /\ ready \in [Threads -> SUBSET Monitors] /\ permit \in [Threads -> BOOLEAN]
      /\ mask \in [Monitors -> SUBSET Routines] /\ calls \in [Threads -> Seq(Routines)]
      /\ todo \in [Threads -> SUBSET Monitors]
  BY DEF IInv, TypeOK
<1>7. /\ owner' \in [Monitors -> Threads \cup {None}] /\ recursion' \in [Monitors -> Nat]
      /\ ready' \in [Threads -> SUBSET Monitors] /\ permit' \in [Threads -> BOOLEAN]
      /\ \A m \in g : owner'[m] = u /\ recursion'[m] = IF m = Min(g) THEN 1 ELSE 0
      /\ \A m \in Monitors \ g : owner'[m] = owner[m] /\ recursion'[m] = recursion[m]
      /\ ready'[t] = {} /\ \A v \in Threads \ {t} : ready'[v] = ready[v]
      /\ permit'[u] = TRUE /\ \A v \in Threads \ {u} : permit'[v] = permit[v]
  BY <1>1, <1>3, <1>6
<1>8. \A v \in Threads : calls'[v] = calls[v] /\ todo'[v] = todo[v] OBVIOUS
<1>9. pc[u] \in {"waiting", "blocked"} OBVIOUS
<1>10. ASSUME NEW m \in Monitors PROVE u \notin ToSet(signal_stack[m])
  BY DEF IInv, StackInv
<1>11. ASSUME NEW v \in Threads \ {t}, NEW m \in Monitors PROVE Entries(v, m)' = Entries(v, m)
  BY <1>4, <1>8, EntriesFrame
<1>12. TypeOK'
  BY <1>4, <1>5, <1>6, <1>7 DEF TypeOK
<1>13. CallInv'
  <2>1. \A v \in Threads : CallOk(v) BY DEF IInv, CallInv
  <2>2. \A v \in Threads : Group(v)' = Group(v) BY DEF Group, Innermost
  <2>3. CallOk(t)' BY <1>3, <1>4, <1>7 DEF CallOk
  <2>4. ASSUME NEW v \in Threads \ {t} PROVE CallOk(v)'
    <3>1. permit'[v] => pc[v] \in {"blocked", "waiting"} BY <1>7, <1>9, <2>1 DEF CallOk
    <3>2. /\ pc'[v] = pc[v] /\ node'[v] = node[v] /\ ready'[v] = ready[v]
          /\ calls'[v] = calls[v] /\ todo'[v] = todo[v] /\ Group(v)' = Group(v) /\ CallOk(v)
      BY <1>4, <1>7, <1>8, <2>1, <2>2
    <3> QED BY <3>1, <3>2 DEF CallOk
  <2> QED BY <2>3, <2>4 DEF CallInv
<1>14. EntryInv'
  <2>1. ASSUME NEW v \in Threads, NEW m \in Monitors
        PROVE  v \in ToSet(entry_queue'[m]) <=> pc'[v] = "blocked" /\ ~permit'[v] /\ m = Min(todo'[v])
    <3>1. CASE v = u BY <1>7, <3>1
    <3>2. CASE v = t BY <1>3, <1>4, <3>2
    <3>3. CASE v \notin {t, u}
      <4>1. v \in ToSet(entry_queue[m]) <=> pc[v] = "blocked" /\ ~permit[v] /\ m = Min(todo[v])
        BY DEF IInv, EntryInv
      <4> QED BY <1>4, <1>7, <1>8, <3>3, <4>1
    <3> QED BY <3>1, <3>2, <3>3
  <2> QED BY <2>1 DEF EntryInv
<1>15. StackInv'
  <2>1. ASSUME NEW v \in Threads, NEW m \in Monitors
        PROVE  v \in ToSet(signal_stack'[m]) <=>
                 pc'[v] = "waiting" /\ ~permit'[v] /\ m \in node'[v] \ ready'[v] /\ ~OnCondition(v)'
    <3>1. CASE v = u BY <1>5, <1>7, <1>10, <3>1
    <3>2. CASE v = t
      <4>1. t \in ToSet(signal_stack'[m]) <=> m \in g BY <1>3, <1>5
      <4>2. ~OnCondition(t)' /\ permit'[t] = FALSE BY <1>3, <1>7
      <4> QED BY <1>4, <1>7, <3>2, <4>1, <4>2
    <3>3. CASE v \notin {t, u}
      <4>1. v \in ToSet(signal_stack'[m]) <=> v \in ToSet(signal_stack[m]) BY <1>5, <3>3
      <4>2. v \in ToSet(signal_stack[m]) <=>
              pc[v] = "waiting" /\ ~permit[v] /\ m \in node[v] \ ready[v] /\ ~OnCondition(v)
        BY DEF IInv, StackInv
      <4>3. OnCondition(v)' <=> OnCondition(v) BY <3>3
      <4> QED BY <1>4, <1>7, <3>3, <4>1, <4>2, <4>3
    <3> QED BY <3>1, <3>2, <3>3
  <2>2. \A m \in Monitors : IsInjective(signal_stack'[m]) BY <1>5
  <2> QED BY <2>1, <2>2 DEF StackInv
<1>16. ASSUME NEW v \in Threads, NEW m \in Monitors PROVE ClaimOk(v, m)'
  <2>1. ClaimOk(v, m) BY DEF IInv, ClaimInv
  <2>2. Given(v, m)' \in {0, 1} /\ Given(v, m) \in {0, 1} BY DEF Given
  <2>3. Entries(v, m)' = Entries(v, m) BY <1>4, <1>11
  <2>4. Entries(v, m) \in Nat BY EntriesType DEF IInv
  <2>5. CASE v = t
    <3>1. Given(t, m)' = 0 /\ Given(t, m) = 0 BY <1>4 DEF Given
    <3>2. t \notin ToSet(entry_queue'[m]) BY <1>3
    <3>3. CASE m \in g BY <1>4, <2>5, <3>1, <3>2, <3>3 DEF ClaimOk
    <3>4. CASE m \notin g
      <4>1. ~(pc[t] \in {"enter", "blocked"}) OBVIOUS
      <4>2. owner'[m] = owner[m] /\ recursion'[m] = recursion[m] /\ m \notin node[t] BY <1>3, <1>7, <3>4
      <4> QED BY <2>1, <2>3, <2>5, <3>1, <3>2, <4>1, <4>2 DEF ClaimOk
    <3> QED BY <3>3, <3>4
  <2>6. CASE v = u
    <3>1. u \notin ToSet(entry_queue'[m]) OBVIOUS
    <3>2. CASE pc[u] = "waiting" /\ node[u] = g
      <4>1. Given(u, m)' = 0 /\ Given(u, m) = 0 BY <1>4, <3>2 DEF Given
      <4>2. CASE m \in g BY <1>4, <2>6, <3>1, <3>2, <4>1, <4>2 DEF ClaimOk
      <4>3. CASE m \notin g
        <5>1. owner'[m] = owner[m] /\ recursion'[m] = recursion[m] BY <1>7, <4>3
        <5>2. pc'[u] = pc[u] /\ node'[u] = node[u] /\ todo'[u] = todo[u] BY <1>4, <1>8
        <5> QED BY <2>1, <2>3, <2>6, <3>1, <4>1, <5>1, <5>2 DEF ClaimOk
      <4> QED BY <4>2, <4>3
    <3>3. CASE pc[u] = "blocked" /\ Min(todo[u]) = Min(g) /\ todo[u] = g
      <4>1. pc'[u] = pc[u] /\ node'[u] = node[u] /\ todo'[u] = todo[u] /\ permit'[u] = TRUE
        BY <1>4, <1>7, <1>8
      <4>2. Given(u, m)' = (IF m = Min(g) THEN 1 ELSE 0) /\ Given(u, m) = 0
        BY <3>3, <4>1 DEF Given
      <4>3. node[u] = {} BY <3>3 DEF IInv, CallInv, CallOk
      <4>4. CASE m \in g
        <5>1. owner[m] # u BY <1>3, <4>4
        <5>2. Entries(u, m) = 0 BY <2>1, <2>4, <2>6, <4>3, <5>1 DEF ClaimOk
        <5>3. owner'[m] = u /\ recursion'[m] = IF m = Min(g) THEN 1 ELSE 0 BY <1>7, <4>4
        <5>4. m \in todo'[u] /\ pc'[u] = "blocked" BY <3>3, <4>1, <4>4
        <5> QED BY <2>3, <2>6, <3>1, <4>2, <5>2, <5>3, <5>4 DEF ClaimOk
      <4>5. CASE m \notin g
        <5>1. owner'[m] = owner[m] /\ recursion'[m] = recursion[m] BY <1>7, <4>5
        <5>2. Given(u, m)' = 0 BY <1>3, <4>2, <4>5
        <5> QED BY <2>1, <2>3, <2>6, <3>1, <4>1, <4>2, <5>1, <5>2 DEF ClaimOk
      <4> QED BY <4>4, <4>5
    <3> QED BY <3>2, <3>3
  <2>7. CASE v \notin {t, u}
    <3>1. pc'[v] = pc[v] /\ node'[v] = node[v] /\ todo'[v] = todo[v] /\ permit'[v] = permit[v]
      BY <1>4, <1>7, <1>8, <2>7
    <3>2. Given(v, m)' = Given(v, m) BY <3>1, GivenFrame
    <3>3. v \in ToSet(entry_queue'[m]) <=> v \in ToSet(entry_queue[m]) BY <2>7
    <3>4. CASE m \in g
      <4>1. owner[m] = t /\ owner'[m] = u BY <1>3, <1>7, <3>4
      <4> QED BY <2>1, <2>3, <2>7, <3>1, <3>2, <4>1 DEF ClaimOk
    <3>5. CASE m \notin g
      <4>1. owner'[m] = owner[m] /\ recursion'[m] = recursion[m] BY <1>7, <3>5
      <4> QED BY <2>1, <2>3, <3>1, <3>2, <3>3, <4>1 DEF ClaimOk
    <3> QED BY <3>4, <3>5
  <2> QED BY <2>5, <2>6, <2>7
<1>17. ASSUME NEW v \in Threads PROVE WaitOk(v)'
  <2>1. WaitOk(v) BY DEF IInv, WaitInv
  <2>2. node[v] \in SUBSET Monitors /\ ready[v] \in SUBSET Monitors BY DEF IInv, TypeOK
  <2>3. CASE v = t
    <3>1. \A m \in g : m \in Monitors /\ owner'[m] # t BY <1>3, <1>7
    <3> QED BY <1>3, <1>4, <1>7, <2>3, <3>1 DEF WaitOk
  <2>4. CASE v # t
    <3>1. pc'[v] = pc[v] /\ node'[v] = node[v] /\ saved'[v] = saved[v] /\ ready'[v] = ready[v]
      BY <1>4, <1>7, <2>4
    <3>2. \A m \in Monitors : Entries(v, m)' = Entries(v, m) BY <1>11, <2>4
    <3>3. \A m \in Monitors : owner[m] = v => m \notin g /\ owner'[m] = v BY <1>3, <1>7, <2>4
    <3>4. \A m \in ready[v] : owner'[m] = v BY <2>1, <2>2, <3>3 DEF WaitOk
    <3>5. CASE v = u
      <4>1. pc[u] = "waiting" => \A m \in node[u] : owner'[m] = u BY <1>7
      <4> QED BY <1>7, <2>1, <2>2, <3>1, <3>2, <3>4, <3>5, <4>1 DEF WaitOk
    <3>6. CASE v # u
      <4>1. permit'[v] = permit[v] /\ mask' = mask BY <1>7, <3>6
      <4>2. pc[v] = "waiting" /\ permit[v] => \A m \in node[v] : owner'[m] = v
        BY <2>1, <2>2, <3>3 DEF WaitOk
      <4>3. ASSUME pc[v] = "waiting", ~permit[v], NEW m \in node[v], owner'[m] = v
            PROVE  m \in ready[v] \/ mask[m] # {}
        <5>1. owner[m] = v BY <1>7, <2>2, <3>6, <4>3
        <5> QED BY <2>1, <4>3, <5>1 DEF WaitOk
      <4>4. pc[v] = "waiting" /\ ~permit[v] => ready[v] # node[v] BY <2>1 DEF WaitOk
      <4>5. /\ \A m \in node[v] : saved[v][m].recursion = Entries(v, m)'
            /\ \A m \in Monitors : saved[v][m].mask = {}
        BY <2>1, <2>2, <3>2 DEF WaitOk
      <4> QED BY <3>1, <3>4, <4>1, <4>2, <4>3, <4>4, <4>5 DEF WaitOk
    <3> QED BY <3>5, <3>6
  <2> QED BY <2>3, <2>4
<1>18. MaskInv'
  <2>1. ASSUME NEW m \in Monitors, mask[m] # {}
        PROVE  \E v \in Threads : owner'[m] = v /\ v \in ToSet(signal_stack'[m])
    <3>1. m \notin g BY <1>3, <2>1
    <3>2. PICK v \in Threads : owner[m] = v /\ v \in ToSet(signal_stack[m])
      BY <2>1 DEF IInv, MaskInv
    <3> QED BY <1>5, <1>7, <3>1, <3>2
  <2> QED BY <2>1 DEF MaskInv
<1>19. FreeInv'
  <2>1. u # None BY MonitorAssumption DEF MonitorAssumption
  <2>2. ASSUME NEW m \in Monitors, owner'[m] = None
        PROVE  entry_queue'[m] = <<>> /\ signal_stack'[m] = <<>>
    <3>1. m \notin g BY <1>7, <2>1, <2>2
    <3>2. owner[m] = None BY <1>7, <2>2, <3>1
    <3>3. entry_queue[m] = <<>> /\ signal_stack[m] = <<>> BY <3>2 DEF IInv, FreeInv
    <3> QED BY <1>5, <3>1, <3>3
  <2> QED BY <2>2 DEF FreeInv
<1> QED
  <2>1. ClaimInv' /\ WaitInv' BY <1>16, <1>17 DEF ClaimInv, WaitInv
  <2> QED BY <1>12, <1>13, <1>14, <1>15, <1>18, <1>19, <2>1 DEF IInv

\* Thread u is the first to wait on condition c, with the monitors g of t,
\* and is taken off its queue.
Signalled(t, u, c, g) ==
  /\ u \in Threads \ {t} /\ u \in ToSet(blocked[c])
  /\ pc[u] = "waiting" /\ permit[u] = FALSE /\ node[u] = g /\ ready[u] = {} /\ OnCondition(u)
  /\ \A m \in Monitors : u \notin ToSet(entry_queue[m]) /\ u \notin ToSet(signal_stack[m])
  /\ blocked' \in [Conditions -> Seq(Threads)]
  /\ \A d \in Conditions : IsInjective(blocked'[d])
  /\ \A v \in Threads, d \in Conditions : v \in ToSet(blocked'[d]) <=> v \in ToSet(blocked[d]) /\ v # u
  /\ ~OnCondition(u)'
  /\ \A v \in Threads \ {u} : OnCondition(v)' <=> OnCondition(v)

LEMMA SignalFacts ==
  ASSUME IInv, NEW t \in Threads, NEW c \in Conditions, MayUse(t, c), blocked[c] # <<>>,
         NEW u, u = Head(blocked[c]), NEW g, g = Group(t),
         blocked' = [blocked EXCEPT ![c] = Tail(blocked[c])]
  PROVE  Signalled(t, u, c, g)
<1>1. pc[t] = "run" /\ calls[t] # <<>> /\ cond_monitors[c] \in {{}, g} BY DEF MayUse
<1>2. blocked \in [Conditions -> Seq(Threads)] /\ \A d \in Conditions : IsInjective(blocked[d])
  BY DEF IInv, TypeOK, CondInv
<1>3. /\ u \in Threads /\ u \in ToSet(blocked[c]) /\ Tail(blocked[c]) \in Seq(Threads)
      /\ IsInjective(Tail(blocked[c])) /\ ToSet(Tail(blocked[c])) = ToSet(blocked[c]) \ {u}
  <2>1. blocked[c] \in Seq(Threads) /\ IsInjective(blocked[c]) BY <1>2
  <2> QED BY <2>1, TailSet
<1>4. /\ pc[u] = "waiting" /\ ~permit[u] /\ permit[u] \in BOOLEAN /\ node[u] = cond_monitors[c] /\ ready[u] = {}
      /\ \A d \in Conditions : u \in ToSet(blocked[d]) => d = c
  BY <1>3 DEF IInv, CondInv, TypeOK
<1>5. permit[u] = FALSE /\ u # t BY <1>1, <1>4
<1>6. OnCondition(u) BY <1>3 DEF OnCondition
<1>7. node[u] = g
  <2>1. calls[u] # <<>> /\ node[u] = Group(u) BY <1>3, <1>4 DEF IInv, CallInv, CallOk
  <2>2. TypeOK BY DEF IInv
  <2>3. node[u] # {} BY <1>3, <2>1, <2>2, OwnGroup
  <2> QED BY <1>1, <1>4, <2>3
<1>8. \A m \in Monitors : u \notin ToSet(entry_queue[m]) /\ u \notin ToSet(signal_stack[m])
  BY <1>3, <1>4, <1>6 DEF IInv, EntryInv, StackInv
<1>9. /\ blocked' \in [Conditions -> Seq(Threads)]
      /\ blocked'[c] = Tail(blocked[c]) /\ \A d \in Conditions \ {c} : blocked'[d] = blocked[d]
  BY <1>2, <1>3
<1>10. \A d \in Conditions : IsInjective(blocked'[d]) BY <1>2, <1>3, <1>9
<1>11. \A v \in Threads, d \in Conditions : v \in ToSet(blocked'[d]) <=> v \in ToSet(blocked[d]) /\ v # u
  <2> SUFFICES ASSUME NEW v \in Threads, NEW d \in Conditions
               PROVE  v \in ToSet(blocked'[d]) <=> v \in ToSet(blocked[d]) /\ v # u
    OBVIOUS
  <2>1. CASE d = c BY <1>3, <1>9, <2>1
  <2>2. CASE d # c BY <1>4, <1>9, <2>2
  <2> QED BY <2>1, <2>2
<1>12. ~OnCondition(u)' /\ \A v \in Threads \ {u} : OnCondition(v)' <=> OnCondition(v)
  BY <1>3, <1>11 DEF OnCondition
<1> QED BY <1>3, <1>4, <1>5, <1>6, <1>7, <1>8, <1>9, <1>10, <1>11, <1>12 DEF Signalled

LEMMA SignalBlockKeeps ==
  ASSUME IInv, NEW t \in Threads, NEW c \in Conditions, SignalBlock(t, c)
  PROVE  IInv'
<1>1. /\ MayUse(t, c) /\ blocked[c] # <<>>
      /\ blocked' = [blocked EXCEPT ![c] = Tail(blocked[c])]
      /\ UNCHANGED <<entry_queue, mask, cond_monitors, calls, todo>>
  BY DEF SignalBlock, Set
<1>2. pc[t] = "run" /\ calls[t] # <<>> BY <1>1 DEF MayUse
<1>3. PICK u : u = Head(blocked[c]) OBVIOUS
<1>4. PICK g : g = Group(t) OBVIOUS
<1>5. Signalled(t, u, c, g) BY <1>1, <1>3, <1>4, SignalFacts
<1>6. HandOver(t, u) BY <1>3 DEF SignalBlock, HandOver, Save, Push, Set, At
<1>7. /\ u \in Threads /\ u # t
      /\ pc[u] = "waiting" /\ node[u] = g /\ ready[u] = {} /\ OnCondition(u)
      /\ permit[u] = FALSE
      /\ blocked' \in [Conditions -> Seq(Threads)]
      /\ ~OnCondition(u)' /\ \A v \in Threads \ {u} : OnCondition(v)' <=> OnCondition(v)
      /\ \A d \in Conditions : IsInjective(blocked'[d])
      /\ \A v \in Threads, d \in Conditions : v \in ToSet(blocked'[d]) <=> v \in ToSet(blocked[d]) /\ v # u
      /\ \A m \in Monitors : u \notin ToSet(entry_queue[m])
  BY <1>5 DEF Signalled
<1>8. /\ entry_queue' \in [Monitors -> Seq(Threads)]
      /\ \A m \in Monitors :
           /\ IsInjective(entry_queue'[m]) /\ u \notin ToSet(entry_queue'[m])
           /\ m \notin g => entry_queue'[m] = entry_queue[m]
           /\ \A v \in Threads \ {u} : v \in ToSet(entry_queue'[m]) <=> v \in ToSet(entry_queue[m])
      /\ cond_monitors' \in [Conditions -> SUBSET Monitors]
  BY <1>1, <1>7 DEF IInv, TypeOK, EntryInv
<1>9. CondInv'
  <2>1. /\ \A v \in Threads \ {t} : pc'[v] = pc[v] /\ node'[v] = node[v]
        /\ ~OnCondition(t)
    <3>1. Save(t) /\ calls' = calls /\ todo' = todo BY <1>1, <1>6 DEF HandOver
    <3>2. SetAside(t, g) BY <1>2, <1>4, <3>1, SaveFacts
    <3> QED BY <3>2 DEF SetAside
  <2>2. /\ \A v \in Threads \ {u} : permit'[v] = permit[v]
        /\ \A v \in Threads \ {t} : ready'[v] = ready[v]
    BY <1>6, <1>7 DEF HandOver, Set, IInv, TypeOK
  <2>3. ASSUME NEW v \in Threads, NEW d \in Conditions, v \in ToSet(blocked'[d])
        PROVE  /\ pc'[v] = "waiting" /\ ~permit'[v]
               /\ node'[v] = cond_monitors'[d] /\ ready'[v] = {}
               /\ \A e \in Conditions : v \in ToSet(blocked'[e]) => e = d
    <3>1. v \in ToSet(blocked[d]) /\ v # u BY <1>7, <2>3
    <3>2. v # t BY <2>1, <3>1 DEF OnCondition
    <3>3. /\ pc[v] = "waiting" /\ ~permit[v] /\ node[v] = cond_monitors[d] /\ ready[v] = {}
          /\ \A e \in Conditions : v \in ToSet(blocked[e]) => e = d
      BY <3>1 DEF IInv, CondInv
    <3>4. \A e \in Conditions : v \in ToSet(blocked'[e]) => e = d BY <1>7, <3>3
    <3> QED BY <1>1, <2>1, <2>2, <3>1, <3>2, <3>3, <3>4
  <2>4. \A d \in Conditions : IsInjective(blocked'[d]) BY <1>7
  <2> QED BY <2>3, <2>4 DEF CondInv
<1>10. UNCHANGED <<mask, calls, todo>> BY <1>1
<1>11. /\ u \in Threads /\ u # t /\ permit[u] = FALSE
       /\ pc[u] = "waiting" /\ node[u] = g /\ ready[u] = {} /\ OnCondition(u)
       /\ blocked' \in [Conditions -> Seq(Threads)]
       /\ ~OnCondition(u)' /\ \A v \in Threads \ {u} : OnCondition(v)' <=> OnCondition(v)
  BY <1>7
<1> QED BY <1>2, <1>4, <1>6, <1>8, <1>9, <1>10, <1>11, HandOverKeeps

(* Signal: the signalled thread has all criteria of its node on the stacks. *)
LEMMA SignalsKeep ==
  ASSUME IInv, NEW t \in Threads, NEW c \in Conditions, Signal(t, c)
  PROVE  IInv'
<1>1. /\ MayUse(t, c) /\ blocked[c] # <<>>
      /\ blocked' = [blocked EXCEPT ![c] = Tail(blocked[c])]
      /\ UNCHANGED <<owner, recursion, entry_queue, mask, cond_monitors, calls, pc, todo, node, ready, saved, permit>>
  BY DEF Signal, Set, nodeVars
<1>2. pc[t] = "run" /\ calls[t] # <<>> BY <1>1 DEF MayUse
<1>3. PICK u : u = Head(blocked[c]) OBVIOUS
<1>4. PICK g : g = Group(t) OBVIOUS
<1>5. Signalled(t, u, c, g) BY <1>1, <1>3, <1>4, SignalFacts
<1>6. Push(g, u) BY <1>3, <1>4 DEF Signal, Push, At
<1>7. /\ u \in Threads /\ u # t
      /\ pc[u] = "waiting" /\ permit[u] = FALSE /\ node[u] = g /\ ready[u] = {}
      /\ \A m \in Monitors : u \notin ToSet(signal_stack[m])
      /\ blocked' \in [Conditions -> Seq(Threads)]
      /\ \A d \in Conditions : IsInjective(blocked'[d])
      /\ \A v \in Threads, d \in Conditions : v \in ToSet(blocked'[d]) <=> v \in ToSet(blocked[d]) /\ v # u
      /\ ~OnCondition(u)' /\ \A v \in Threads \ {u} : OnCondition(v)' <=> OnCondition(v)
  BY <1>5 DEF Signalled
<1>8. g \in SUBSET Monitors /\ \A m \in g : owner[m] = t
  <2>1. TypeOK BY DEF IInv
  <2>2. g \in SUBSET Monitors BY <1>2, <1>4, <2>1, OwnGroup
  <2>3. ASSUME NEW m \in g PROVE owner[m] = t
    <3>1. m \in Monitors /\ m \in Group(t) BY <1>4, <2>2
    <3> QED BY <1>2, <3>1, Holds
  <2> QED BY <2>2, <2>3
<1>9. /\ signal_stack' \in [Monitors -> Seq(Threads)]
      /\ \A m \in Monitors :
           /\ IsInjective(signal_stack'[m])
           /\ ToSet(signal_stack'[m]) = ToSet(signal_stack[m]) \cup (IF m \in g THEN {u} ELSE {})
           /\ m \notin g => signal_stack'[m] = signal_stack[m]
  <2>1. TypeOK /\ \A m \in Monitors : IsInjective(signal_stack[m]) BY DEF IInv, StackInv
  <2>2. g \in SUBSET Monitors BY <1>8
  <2>3. u \in Threads /\ \A m \in Monitors : u \notin ToSet(signal_stack[m]) BY <1>7
  <2> QED BY <1>6, <2>1, <2>2, <2>3, PushFacts
<1>10. \A v \in Threads, m \in Monitors : Entries(v, m)' = Entries(v, m) /\ Given(v, m)' = Given(v, m)
  BY <1>1, EntriesFrame, GivenFrame
<1>11. TypeOK' BY <1>1, <1>7, <1>9 DEF IInv, TypeOK
<1>12. CallInv'
  <2>1. \A v \in Threads : Group(v)' = Group(v) BY <1>1 DEF Group, Innermost
  <2> QED BY <1>1, <2>1 DEF IInv, CallInv, CallOk
<1>13. EntryInv' BY <1>1 DEF IInv, EntryInv
<1>14. CondInv' BY <1>1, <1>7 DEF IInv, CondInv
<1>15. StackInv'
  <2>1. ASSUME NEW v \in Threads, NEW m \in Monitors
        PROVE  v \in ToSet(signal_stack'[m]) <=>
                 pc'[v] = "waiting" /\ ~permit'[v] /\ m \in node'[v] \ ready'[v] /\ ~OnCondition(v)'
    <3>1. CASE v = u
      <4>1. u \in ToSet(signal_stack'[m]) <=> m \in g BY <1>7, <1>9
      <4>2. pc'[u] = "waiting" /\ permit'[u] = FALSE /\ node'[u] = g /\ ready'[u] = {} BY <1>1, <1>7
      <4> QED BY <1>7, <3>1, <4>1, <4>2
    <3>2. CASE v # u
      <4>1. v \in ToSet(signal_stack'[m]) <=> v \in ToSet(signal_stack[m]) BY <1>9, <3>2
      <4>2. v \in ToSet(signal_stack[m]) <=>
              pc[v] = "waiting" /\ ~permit[v] /\ m \in node[v] \ ready[v] /\ ~OnCondition(v)
        BY DEF IInv, StackInv
      <4>3. OnCondition(v)' <=> OnCondition(v) BY <1>7, <3>2
      <4> QED BY <1>1, <4>1, <4>2, <4>3
    <3> QED BY <3>1, <3>2
  <2>2. \A m \in Monitors : IsInjective(signal_stack'[m]) BY <1>9
  <2> QED BY <2>1, <2>2 DEF StackInv
<1>16. ClaimInv' BY <1>1, <1>10 DEF IInv, ClaimInv, ClaimOk
<1>17. WaitInv'
  <2>1. \A v \in Threads : node[v] \in SUBSET Monitors BY DEF IInv, TypeOK
  <2> QED BY <1>1, <1>10, <2>1 DEF IInv, WaitInv, WaitOk
<1>18. MaskInv'
  <2>1. \A v \in Threads, m \in Monitors : v \in ToSet(signal_stack[m]) => v \in ToSet(signal_stack'[m])
    BY <1>9
  <2> QED BY <1>1, <2>1 DEF IInv, MaskInv
<1>19. FreeInv'
  <2>1. t # None BY MonitorAssumption DEF MonitorAssumption
  <2> QED BY <1>1, <1>8, <1>9, <2>1 DEF IInv, FreeInv
<1> QED BY <1>11, <1>12, <1>13, <1>14, <1>15, <1>16, <1>17, <1>18, <1>19 DEF IInv

(* waitfor, with a caller at hand: it waits for all of the group. *)
LEMMA WaitforPresentKeeps ==
  ASSUME IInv, NEW t \in Threads, NEW accepted \in SUBSET Routines, WaitforPresent(t, accepted)
  PROVE  IInv'
<1>1. pc[t] = "run" /\ calls[t] # <<>> /\ \A r \in accepted : r.group = Group(t)
  BY DEF WaitforPresent, MayAccept
<1>2. PICK r \in accepted :
        /\ Callers(r) # {}
        /\ HandOver(t, entry_queue[Min(r.group)][Min(Callers(r))])
        /\ entry_queue' = [entry_queue EXCEPT ![Min(r.group)] =
                             RemoveAt(entry_queue[Min(r.group)], Min(Callers(r)))]
  BY DEF WaitforPresent, Set
<1>3. PICK g : g = Group(t) OBVIOUS
<1>4. g \in SUBSET Monitors /\ Min(g) \in g /\ r.group = g
  <2>1. TypeOK BY DEF IInv
  <2> QED BY <1>1, <1>3, <2>1, OwnGroup
<1>5. PICK x \in Monitors : x = Min(g) BY <1>4
<1>6. entry_queue \in [Monitors -> Seq(Threads)] /\ \A m \in Monitors : IsInjective(entry_queue[m])
  BY DEF IInv, TypeOK, EntryInv
<1>7. PICK i \in DOMAIN entry_queue[x] : i = Min(Callers(r)) /\ Innermost(entry_queue[x][i]) = r
  <2>1. Callers(r) = {j \in DOMAIN entry_queue[x] : Innermost(entry_queue[x][j]) = r}
    BY <1>4, <1>5 DEF Callers
  <2>2. entry_queue[x] \in Seq(Threads) BY <1>6
  <2>3. DOMAIN entry_queue[x] \in SUBSET Nat BY <2>2, LenProperties
  <2>4. Callers(r) \in SUBSET Nat BY <2>1, <2>3
  <2>5. Min(Callers(r)) \in Callers(r) BY <1>2, <2>4, MinIsThere
  <2> QED BY <2>1, <2>5
<1>8. PICK u : u = entry_queue[x][i] OBVIOUS
<1>9. u \in Threads /\ u \in ToSet(entry_queue[x])
  <2>1. entry_queue[x] \in Seq(Threads) BY <1>6
  <2>2. DOMAIN entry_queue[x] = 1 .. Len(entry_queue[x]) BY <2>1, LenProperties
  <2>3. u \in Threads BY <1>8, <2>1, <2>2, ElementOfSeq
  <2> QED BY <1>8, <2>3 DEF ToSet
<1>10. HandOver(t, u)
  BY <1>2, <1>4, <1>5, <1>7, <1>8 DEF HandOver, Save, Push, Set, At
<1>11. /\ pc[u] = "blocked" /\ permit[u] = FALSE /\ x = Min(todo[u])
       /\ node[u] = {} /\ owner[x] # u
  BY <1>9, Queued
<1>12. \A m \in g : owner[m] = t
  <2> SUFFICES ASSUME NEW m \in g PROVE owner[m] = t OBVIOUS
  <2>1. m \in Monitors /\ m \in Group(t) BY <1>3, <1>4
  <2> QED BY <1>1, <2>1, Holds
<1>13. u # t BY <1>1, <1>11
\* The caller has entered none of the group, of which it waits for the first.
<1>14. todo[u] = g
  <2>1. /\ calls[u] \in Seq(Routines) /\ calls[u] # <<>> /\ todo[u] \subseteq Last(calls[u]).group
    <3>1. pc[u] \in {"enter", "blocked", "leave"} BY <1>11
    <3> QED BY <1>9, <3>1, OwnTodo
  <2>2. Last(calls[u]).group = g BY <1>4, <1>7, <1>8 DEF Innermost
  <2>3. ASSUME NEW m \in g, m \notin todo[u] PROVE FALSE
    <3>1. m \in Monitors BY <1>4
    <3>2. Counts(pc[u], todo[u], m) BY <1>11, <2>3 DEF Counts
    <3>3. Entries(u, m) = Outer(calls[u], m) + 1 /\ Outer(calls[u], m) \in Nat
      <4>1. Entries(u, m) = Tally(calls[u], pc[u], todo[u], m) BY <1>9, <3>1, EntriesAreTallied
      <4>2. m \in Last(calls[u]).group BY <2>2
      <4> QED BY <2>1, <3>2, <4>1, <4>2, TallyValue
    <3>4. Entries(u, m) > 0 BY <3>3
    <3>5. ClaimOk(u, m) BY <1>9, <3>1 DEF IInv, ClaimInv
    <3>6. owner[m] = u BY <1>11, <3>4, <3>5 DEF ClaimOk
    <3> QED BY <1>12, <1>13, <3>6
  <2> QED BY <2>1, <2>2, <2>3
<1>15. /\ entry_queue' = [entry_queue EXCEPT ![x] = RemoveAt(entry_queue[x], i)]
       /\ RemoveAt(entry_queue[x], i) \in Seq(Threads)
       /\ IsInjective(RemoveAt(entry_queue[x], i))
       /\ ToSet(RemoveAt(entry_queue[x], i)) = ToSet(entry_queue[x]) \ {u}
  <2>1. entry_queue' = [entry_queue EXCEPT ![x] = RemoveAt(entry_queue[x], i)]
    BY <1>2, <1>4, <1>5, <1>7
  <2>2. entry_queue[x] \in Seq(Threads) /\ IsInjective(entry_queue[x]) BY <1>6
  <2>3. /\ RemoveAt(entry_queue[x], i) \in Seq(Threads)
        /\ IsInjective(RemoveAt(entry_queue[x], i))
        /\ ToSet(RemoveAt(entry_queue[x], i)) = ToSet(entry_queue[x]) \ {entry_queue[x][i]}
    BY <2>2, RemoveSet
  <2> QED BY <1>8, <2>1, <2>3
<1>16. /\ entry_queue' \in [Monitors -> Seq(Threads)]
       /\ entry_queue'[x] = RemoveAt(entry_queue[x], i)
       /\ \A m \in Monitors \ {x} : entry_queue'[m] = entry_queue[m]
  BY <1>6, <1>15
<1>17. \A m \in Monitors :
         /\ IsInjective(entry_queue'[m]) /\ u \notin ToSet(entry_queue'[m])
         /\ m \notin g => entry_queue'[m] = entry_queue[m]
         /\ \A v \in Threads \ {u} : v \in ToSet(entry_queue'[m]) <=> v \in ToSet(entry_queue[m])
  <2> SUFFICES ASSUME NEW m \in Monitors
               PROVE  /\ IsInjective(entry_queue'[m]) /\ u \notin ToSet(entry_queue'[m])
                      /\ m \notin g => entry_queue'[m] = entry_queue[m]
                      /\ \A v \in Threads \ {u} : v \in ToSet(entry_queue'[m]) <=> v \in ToSet(entry_queue[m])
    OBVIOUS
  <2>1. CASE m = x BY <1>4, <1>5, <1>15, <1>16, <2>1
  <2>2. CASE m # x
    <3>1. u \notin ToSet(entry_queue[m])
      <4>1. u \in ToSet(entry_queue[m]) => m = Min(todo[u]) BY <1>9, Queued
      <4> QED BY <1>11, <2>2, <4>1
    <3> QED BY <1>6, <1>16, <2>2, <3>1
  <2> QED BY <2>1, <2>2
<1>18. UNCHANGED <<mask, cond_monitors, blocked, calls, todo>> BY DEF WaitforPresent, condVars
<1>19. \A v \in Threads : OnCondition(v)' <=> OnCondition(v) BY <1>18 DEF OnCondition
<1>20. ~OnCondition(u) /\ ~OnCondition(t)
  <2>1. pc[u] # "waiting" /\ pc[t] # "waiting" BY <1>1, <1>11
  <2>2. CondInv BY DEF IInv
  <2> QED BY <1>9, <2>1, <2>2 DEF CondInv, OnCondition
<1>21. CondInv'
  <2>1. \A v \in Threads \ {t} : pc'[v] = pc[v] /\ node'[v] = node[v]
    <3>1. Save(t) /\ calls' = calls /\ todo' = todo BY <1>10, <1>18 DEF HandOver
    <3>2. SetAside(t, g) BY <1>1, <1>3, <3>1, SaveFacts
    <3> QED BY <3>2 DEF SetAside
  <2>2. /\ \A v \in Threads \ {u} : permit'[v] = permit[v]
        /\ \A v \in Threads \ {t} : ready'[v] = ready[v]
    BY <1>9, <1>10 DEF HandOver, Set, IInv, TypeOK
  <2>3. \A v \in Threads, c \in Conditions : v \in ToSet(blocked[c]) => v \notin {t, u}
    BY <1>20 DEF OnCondition
  <2>4. CondInv BY DEF IInv
  <2> QED BY <1>18, <2>1, <2>2, <2>3, <2>4 DEF CondInv
<1>22. cond_monitors' \in [Conditions -> SUBSET Monitors] /\ blocked' \in [Conditions -> Seq(Threads)]
  BY <1>18 DEF IInv, TypeOK
<1>23. ~OnCondition(u)' /\ \A v \in Threads \ {u} : OnCondition(v)' <=> OnCondition(v)
  BY <1>9, <1>19, <1>20
<1>24. UNCHANGED <<mask, calls, todo>> BY <1>18
<1>25. pc[u] = "blocked" /\ Min(todo[u]) = Min(g) /\ todo[u] = g BY <1>11, <1>14
<1>26. entry_queue' \in [Monitors -> Seq(Threads)] BY <1>16
<1>27. permit[u] = FALSE BY <1>11
<1> QED BY <1>1, <1>3, <1>9, <1>10, <1>13, <1>17, <1>21, <1>22, <1>23, <1>24, <1>25, <1>26, <1>27, HandOverKeeps

(* waitfor, with no caller at hand: the thread keeps its monitors, with a mask. *)
LEMMA WaitforBlocksKeeps ==
  ASSUME IInv, NEW t \in Threads, NEW accepted \in SUBSET Routines, WaitforBlocks(t, accepted)
  PROVE  IInv'
<1>1. /\ pc[t] = "run" /\ calls[t] # <<>> /\ accepted # {}
      /\ Save(t) /\ ready' = [ready EXCEPT ![t] = {}]
      /\ mask' = [m \in Monitors |-> IF m \in Group(t) THEN accepted ELSE mask[m]]
      /\ UNCHANGED <<owner, recursion, entry_queue, cond_monitors, blocked, calls, todo, permit>>
  BY DEF WaitforBlocks, MayAccept, Set, At, condVars
<1>2. PICK g : g = Group(t) OBVIOUS
<1>3. SetAside(t, g)
  <2>1. pc[t] = "run" /\ calls[t] # <<>> /\ Save(t) /\ calls' = calls /\ todo' = todo BY <1>1
  <2> QED BY <1>2, <2>1, SaveFacts
<1>4. /\ g \in SUBSET Monitors /\ g # {}
      /\ permit[t] = FALSE /\ node[t] = {} /\ ready[t] = {} /\ ~OnCondition(t)
      /\ \A m \in Monitors : t \notin ToSet(entry_queue[m]) /\ t \notin ToSet(signal_stack[m])
      /\ \A m \in g : owner[m] = t /\ mask[m] = {}
  BY <1>3 DEF SetAside
<1>5. /\ pc' \in [Threads -> Pcs] /\ node' \in [Threads -> SUBSET Monitors]
      /\ saved' \in [Threads -> [Monitors -> [recursion : Nat, mask : SUBSET Routines]]]
      /\ pc'[t] = "waiting" /\ node'[t] = g /\ Group(t)' = g
      /\ \A m \in g : saved'[t][m].recursion = Entries(t, m)
      /\ \A m \in Monitors : saved'[t][m].mask = {}
      /\ \A m \in Monitors : Entries(t, m)' = Entries(t, m)
      /\ \A v \in Threads \ {t} : pc'[v] = pc[v] /\ node'[v] = node[v] /\ saved'[v] = saved[v]
  BY <1>3 DEF SetAside
<1>6. /\ signal_stack' \in [Monitors -> Seq(Threads)]
      /\ \A m \in Monitors :
           /\ IsInjective(signal_stack'[m])
           /\ ToSet(signal_stack'[m]) = ToSet(signal_stack[m]) \cup (IF m \in g THEN {t} ELSE {})
           /\ m \notin g => signal_stack'[m] = signal_stack[m]
  <2>1. TypeOK /\ \A m \in Monitors : IsInjective(signal_stack[m]) BY DEF IInv, StackInv
  <2>2. Push(g, t) BY <1>2 DEF WaitforBlocks, Push, At
  <2>3. g \in SUBSET Monitors /\ \A m \in Monitors : t \notin ToSet(signal_stack[m]) BY <1>4
  <2> QED BY <2>1, <2>2, <2>3, PushFacts
<1>7. ready \in [Threads -> SUBSET Monitors] /\ mask \in [Monitors -> SUBSET Routines]
  BY DEF IInv, TypeOK
<1>8. /\ ready' = ready
      /\ mask' \in [Monitors -> SUBSET Routines]
      /\ \A m \in g : mask'[m] = accepted /\ \A n \in Monitors \ g : mask'[n] = mask[n]
  BY <1>1, <1>2, <1>4, <1>7
<1>9. \A m \in Monitors \ g : mask'[m] = mask[m] BY <1>4, <1>8
<1>10. \A v \in Threads : OnCondition(v)' <=> OnCondition(v) BY <1>1 DEF OnCondition
<1>11. \A v \in Threads, m \in Monitors : Entries(v, m)' = Entries(v, m)
  <2>1. ASSUME NEW v \in Threads \ {t}, NEW m \in Monitors PROVE Entries(v, m)' = Entries(v, m)
    <3>1. calls'[v] = calls[v] /\ pc'[v] = pc[v] /\ todo'[v] = todo[v] BY <1>1, <1>5
    <3> QED BY <3>1, EntriesFrame
  <2> QED BY <1>5, <2>1
<1>12. \A v \in Threads, m \in Monitors : Given(v, m)' = Given(v, m)
  BY <1>1, <1>5 DEF Given
<1>13. TypeOK' BY <1>1, <1>5, <1>6, <1>7, <1>8 DEF IInv, TypeOK
<1>14. CallInv'
  <2>1. \A v \in Threads : Group(v)' = Group(v) BY <1>1 DEF Group, Innermost
  <2>2. CallOk(t)' BY <1>1, <1>4, <1>5, <1>8 DEF CallOk
  <2>3. ASSUME NEW v \in Threads \ {t} PROVE CallOk(v)'
    <3>1. CallOk(v) BY DEF IInv, CallInv
    <3>2. /\ pc'[v] = pc[v] /\ node'[v] = node[v] /\ ready' = ready /\ permit' = permit
          /\ calls' = calls /\ todo' = todo /\ Group(v)' = Group(v)
      BY <1>1, <1>5, <1>8, <2>1
    <3> QED BY <3>1, <3>2 DEF CallOk
  <2> QED BY <2>2, <2>3 DEF CallInv
<1>15. EntryInv'
  <2>1. ASSUME NEW v \in Threads, NEW m \in Monitors
        PROVE  v \in ToSet(entry_queue'[m]) <=> pc'[v] = "blocked" /\ ~permit'[v] /\ m = Min(todo'[v])
    <3>1. CASE v = t BY <1>1, <1>4, <1>5, <3>1
    <3>2. CASE v # t BY <1>1, <1>5, <3>2 DEF IInv, EntryInv
    <3> QED BY <3>1, <3>2
  <2> QED BY <1>1, <2>1 DEF IInv, EntryInv
<1>16. CondInv'
  <2>1. \A v \in Threads, c \in Conditions : v \in ToSet(blocked[c]) => v # t BY <1>4 DEF OnCondition
  <2>2. CondInv BY DEF IInv
  <2> QED BY <1>1, <1>5, <1>8, <2>1, <2>2 DEF CondInv
<1>17. StackInv'
  <2>1. ASSUME NEW v \in Threads, NEW m \in Monitors
        PROVE  v \in ToSet(signal_stack'[m]) <=>
                 pc'[v] = "waiting" /\ ~permit'[v] /\ m \in node'[v] \ ready'[v] /\ ~OnCondition(v)'
    <3>1. CASE v = t
      <4>1. t \in ToSet(signal_stack'[m]) <=> m \in g BY <1>4, <1>6
      <4>2. ~OnCondition(t)' /\ permit'[t] = FALSE /\ ready'[t] = {} BY <1>1, <1>4, <1>8, <1>10
      <4> QED BY <1>5, <3>1, <4>1, <4>2
    <3>2. CASE v # t
      <4>1. v \in ToSet(signal_stack'[m]) <=> v \in ToSet(signal_stack[m]) BY <1>6, <3>2
      <4>2. v \in ToSet(signal_stack[m]) <=>
              pc[v] = "waiting" /\ ~permit[v] /\ m \in node[v] \ ready[v] /\ ~OnCondition(v)
        BY DEF IInv, StackInv
      <4> QED BY <1>1, <1>5, <1>8, <1>10, <3>2, <4>1, <4>2
    <3> QED BY <3>1, <3>2
  <2>2. \A m \in Monitors : IsInjective(signal_stack'[m]) BY <1>6
  <2> QED BY <2>1, <2>2 DEF StackInv
<1>18. ASSUME NEW v \in Threads, NEW m \in Monitors PROVE ClaimOk(v, m)'
  <2>1. ClaimOk(v, m) BY DEF IInv, ClaimInv
  <2>2. Entries(v, m)' = Entries(v, m) /\ Given(v, m)' = Given(v, m) BY <1>11, <1>12
  <2>3. CASE v = t
    <3>1. Given(t, m)' = 0 BY <1>5 DEF Given
    <3>2. t \notin ToSet(entry_queue'[m]) BY <1>1, <1>4
    <3>3. CASE m \in g BY <1>5, <2>3, <3>1, <3>2, <3>3 DEF ClaimOk
    <3>4. CASE m \notin g
      <4>1. ~(pc[t] \in {"enter", "blocked"}) /\ m \notin node[t] BY <1>1, <1>4
      <4>2. owner' = owner /\ recursion' = recursion BY <1>1
      <4> QED BY <2>1, <2>2, <2>3, <3>1, <3>2, <4>1, <4>2 DEF ClaimOk
    <3> QED BY <3>3, <3>4
  <2>4. CASE v # t
    <3>1. /\ pc'[v] = pc[v] /\ node'[v] = node[v] /\ todo' = todo
          /\ owner' = owner /\ recursion' = recursion /\ entry_queue' = entry_queue
      BY <1>1, <1>5, <2>4
    <3> QED BY <2>1, <2>2, <3>1 DEF ClaimOk
  <2> QED BY <2>3, <2>4
<1>19. ASSUME NEW v \in Threads PROVE WaitOk(v)'
  <2>1. WaitOk(v) BY DEF IInv, WaitInv
  <2>2. node[v] \in SUBSET Monitors /\ ready[v] \in SUBSET Monitors BY DEF IInv, TypeOK
  <2>3. CASE v = t
    <3>1. \A m \in g : m \in Monitors /\ mask'[m] # {} BY <1>1, <1>4, <1>8
    <3>2. permit'[t] = FALSE /\ ready'[t] = {} BY <1>1, <1>4, <1>8
    <3> QED BY <1>4, <1>5, <2>3, <3>1, <3>2 DEF WaitOk
  <2>4. CASE v # t
    <3>1. /\ pc'[v] = pc[v] /\ node'[v] = node[v] /\ saved'[v] = saved[v]
          /\ ready' = ready /\ permit' = permit /\ owner' = owner
      BY <1>1, <1>5, <1>8, <2>4
    <3>2. \A m \in node[v] : Entries(v, m)' = Entries(v, m) BY <1>11, <2>2
    <3>3. \A m \in Monitors : owner[m] = v => mask'[m] = mask[m] BY <1>4, <1>9, <2>4
    <3> QED BY <2>1, <2>2, <3>1, <3>2, <3>3 DEF WaitOk
  <2> QED BY <2>3, <2>4
<1>20. MaskInv'
  <2>1. ASSUME NEW m \in Monitors, mask'[m] # {}
        PROVE  \E v \in Threads : owner'[m] = v /\ v \in ToSet(signal_stack'[m])
    <3>1. CASE m \in g BY <1>1, <1>4, <1>6, <3>1
    <3>2. CASE m \notin g
      <4>1. mask[m] # {} BY <1>9, <2>1, <3>2
      <4>2. PICK v \in Threads : owner[m] = v /\ v \in ToSet(signal_stack[m])
        BY <4>1 DEF IInv, MaskInv
      <4> QED BY <1>1, <1>6, <3>2, <4>2
    <3> QED BY <3>1, <3>2
  <2> QED BY <2>1 DEF MaskInv
<1>21. FreeInv'
  <2>1. t # None BY MonitorAssumption DEF MonitorAssumption
  <2>2. \A m \in Monitors : owner[m] = None => m \notin g BY <1>4, <2>1
  <2>3. FreeInv BY DEF IInv
  <2> QED BY <1>1, <1>6, <2>2, <2>3 DEF FreeInv
<1> QED
  <2>1. ClaimInv' /\ WaitInv' BY <1>18, <1>19 DEF ClaimInv, WaitInv
  <2> QED BY <1>13, <1>14, <1>15, <1>16, <1>17, <1>20, <1>21, <2>1 DEF IInv

(* A thread that has all its monitors again restores what it saved. *)
LEMMA ResumeKeeps ==
  ASSUME IInv, NEW t \in Threads, Resume(t)
  PROVE  IInv'
<1>1. /\ pc[t] = "waiting" /\ permit[t]
      /\ permit' = [permit EXCEPT ![t] = FALSE] /\ pc' = [pc EXCEPT ![t] = "run"]
      /\ recursion' = [m \in Monitors |-> IF m \in node[t] THEN saved[t][m].recursion ELSE recursion[m]]
      /\ mask' = [m \in Monitors |-> IF m \in node[t] THEN saved[t][m].mask ELSE mask[m]]
      /\ node' = [node EXCEPT ![t] = {}] /\ ready' = [ready EXCEPT ![t] = {}]
      /\ saved' = [saved EXCEPT ![t] = NothingSaved]
      /\ UNCHANGED <<owner, entry_queue, signal_stack, cond_monitors, blocked, calls, todo>>
  BY DEF Resume, Set, At, condVars
<1>2. PICK g \in SUBSET Monitors : g = node[t] BY DEF IInv, TypeOK
<1>3. /\ permit \in [Threads -> BOOLEAN] /\ pc \in [Threads -> Pcs]
      /\ recursion \in [Monitors -> Nat] /\ mask \in [Monitors -> SUBSET Routines]
      /\ node \in [Threads -> SUBSET Monitors] /\ ready \in [Threads -> SUBSET Monitors]
      /\ saved \in [Threads -> [Monitors -> [recursion : Nat, mask : SUBSET Routines]]]
      /\ calls[t] \in Seq(Routines)
  BY DEF IInv, TypeOK
<1>4. /\ \A m \in g : owner[m] = t /\ saved[t][m].recursion = Entries(t, m)
      /\ \A m \in Monitors : saved[t][m].mask = {}
  BY <1>1, <1>2 DEF IInv, WaitInv, WaitOk
<1>5. \A m \in Monitors : Entries(t, m) \in Nat BY EntriesType DEF IInv
<1>6. /\ recursion' \in [Monitors -> Nat] /\ mask' \in [Monitors -> SUBSET Routines]
      /\ \A m \in g : recursion'[m] = Entries(t, m) /\ mask'[m] = {}
      /\ \A m \in Monitors : m \notin g => recursion'[m] = recursion[m] /\ mask'[m] = mask[m]
  <2>1. \A m \in Monitors : saved[t][m].recursion \in Nat /\ saved[t][m].mask \in SUBSET Routines BY <1>3
  <2> QED BY <1>1, <1>2, <1>3, <1>4, <2>1
<1>7. NothingSaved \in [Monitors -> [recursion : Nat, mask : SUBSET Routines]]
      /\ \A m \in Monitors : NothingSaved[m].mask = {}
  BY DEF NothingSaved
<1>8. /\ permit' \in [Threads -> BOOLEAN] /\ pc' \in [Threads -> Pcs]
      /\ node' \in [Threads -> SUBSET Monitors] /\ ready' \in [Threads -> SUBSET Monitors]
      /\ permit'[t] = FALSE /\ pc'[t] = "run" /\ node'[t] = {} /\ ready'[t] = {}
      /\ \A v \in Threads \ {t} :
           permit'[v] = permit[v] /\ pc'[v] = pc[v] /\ node'[v] = node[v] /\ ready'[v] = ready[v]
  BY <1>1, <1>3 DEF Pcs
<1>9. /\ saved' \in [Threads -> [Monitors -> [recursion : Nat, mask : SUBSET Routines]]]
      /\ saved'[t] = NothingSaved /\ \A v \in Threads \ {t} : saved'[v] = saved[v]
  BY <1>1, <1>3, <1>7
<1>10. /\ ~OnCondition(t) /\ \A m \in Monitors : t \notin ToSet(entry_queue[m]) /\ t \notin ToSet(signal_stack[m])
  BY <1>1 DEF IInv, CondInv, EntryInv, StackInv, OnCondition
<1>11. \A v \in Threads : OnCondition(v)' <=> OnCondition(v) BY <1>1 DEF OnCondition
<1>12. \A m \in Monitors : Entries(t, m)' = Entries(t, m)
  <2> SUFFICES ASSUME NEW m \in Monitors PROVE Entries(t, m)' = Entries(t, m) OBVIOUS
  <2>1. /\ Entries(t, m)' = Tally(calls[t], "run", todo[t], m)
        /\ Entries(t, m) = Tally(calls[t], "waiting", todo[t], m)
    BY <1>1, <1>8, EntriesAreTallied
  <2> QED BY <1>3, <2>1, TallyStay
<1>13. ASSUME NEW v \in Threads \ {t}, NEW m \in Monitors
       PROVE  Entries(v, m)' = Entries(v, m) /\ Given(v, m)' = Given(v, m)
  <2>1. calls'[v] = calls[v] /\ pc'[v] = pc[v] /\ todo'[v] = todo[v] /\ permit'[v] = permit[v]
    BY <1>1, <1>8
  <2> QED BY <2>1, EntriesFrame, GivenFrame
<1>14. TypeOK' BY <1>1, <1>6, <1>8, <1>9 DEF IInv, TypeOK
<1>15. CallInv'
  <2>1. \A v \in Threads : Group(v)' = Group(v) BY <1>1 DEF Group, Innermost
  <2>2. CallOk(t)' BY <1>8 DEF CallOk
  <2>3. ASSUME NEW v \in Threads \ {t} PROVE CallOk(v)'
    <3>1. CallOk(v) BY DEF IInv, CallInv
    <3>2. /\ pc'[v] = pc[v] /\ node'[v] = node[v] /\ ready'[v] = ready[v] /\ permit'[v] = permit[v]
          /\ calls' = calls /\ todo' = todo /\ Group(v)' = Group(v)
      BY <1>1, <1>8, <2>1
    <3> QED BY <3>1, <3>2 DEF CallOk
  <2> QED BY <2>2, <2>3 DEF CallInv
<1>16. EntryInv'
  <2>1. ASSUME NEW v \in Threads, NEW m \in Monitors
        PROVE  v \in ToSet(entry_queue'[m]) <=> pc'[v] = "blocked" /\ ~permit'[v] /\ m = Min(todo'[v])
    <3>1. CASE v = t BY <1>1, <1>8, <1>10, <3>1
    <3>2. CASE v # t BY <1>1, <1>8, <3>2 DEF IInv, EntryInv
    <3> QED BY <3>1, <3>2
  <2> QED BY <1>1, <2>1 DEF IInv, EntryInv
<1>17. CondInv'
  <2>1. \A v \in Threads, c \in Conditions : v \in ToSet(blocked[c]) => v # t BY <1>10 DEF OnCondition
  <2>2. CondInv BY DEF IInv
  <2> QED BY <1>1, <1>8, <2>1, <2>2 DEF CondInv
<1>18. StackInv'
  <2>1. ASSUME NEW v \in Threads, NEW m \in Monitors
        PROVE  v \in ToSet(signal_stack'[m]) <=>
                 pc'[v] = "waiting" /\ ~permit'[v] /\ m \in node'[v] \ ready'[v] /\ ~OnCondition(v)'
    <3>1. CASE v = t BY <1>1, <1>8, <1>10, <3>1
    <3>2. CASE v # t
      <4>1. v \in ToSet(signal_stack[m]) <=>
              pc[v] = "waiting" /\ ~permit[v] /\ m \in node[v] \ ready[v] /\ ~OnCondition(v)
        BY DEF IInv, StackInv
      <4> QED BY <1>1, <1>8, <1>11, <3>2, <4>1
    <3> QED BY <3>1, <3>2
  <2> QED BY <1>1, <2>1 DEF IInv, StackInv
<1>19. ASSUME NEW v \in Threads, NEW m \in Monitors PROVE ClaimOk(v, m)'
  <2>1. ClaimOk(v, m) BY DEF IInv, ClaimInv
  <2>2. CASE v = t
    <3>1. Given(t, m)' = 0 /\ Given(t, m) = 0 BY <1>1, <1>8 DEF Given
    <3>2. t \notin ToSet(entry_queue'[m]) BY <1>1, <1>10
    <3>3. m \notin node'[t] /\ Entries(t, m)' = Entries(t, m) /\ Entries(t, m) \in Nat /\ owner' = owner
      BY <1>1, <1>5, <1>8, <1>12
    <3>4. CASE m \in g
      <4>1. owner'[m] = t /\ recursion'[m] = Entries(t, m) BY <1>1, <1>4, <1>6, <3>4
      <4>2. Entries(t, m) > 0
        <5>1. calls[t] # <<>> /\ m \in Last(calls[t]).group
          BY <1>1, <1>2, <3>4 DEF IInv, CallInv, CallOk, Group, Innermost
        <5>2. Counts(pc[t], todo[t], m) BY <1>1 DEF Counts
        <5>3. Entries(t, m) = Outer(calls[t], m) + 1 /\ Outer(calls[t], m) \in Nat
          BY <1>3, <5>1, <5>2, TallyValue, EntriesAreTallied
        <5> QED BY <5>3
      <4> QED BY <2>2, <3>1, <3>2, <3>3, <4>1, <4>2 DEF ClaimOk
    <3>5. CASE m \notin g
      <4>1. recursion'[m] = recursion[m] /\ m \notin node[t] BY <1>2, <1>6, <3>5
      <4>2. ~(pc[t] \in {"enter", "blocked"}) BY <1>1
      <4> QED BY <2>1, <2>2, <3>1, <3>2, <3>3, <4>1, <4>2 DEF ClaimOk
    <3> QED BY <3>4, <3>5
  <2>3. CASE v # t
    <3>1. /\ pc'[v] = pc[v] /\ node'[v] = node[v] /\ todo' = todo
          /\ owner' = owner /\ entry_queue' = entry_queue
          /\ Entries(v, m)' = Entries(v, m) /\ Given(v, m)' = Given(v, m)
      BY <1>1, <1>8, <1>13, <2>3
    <3>2. owner[m] = v => recursion'[m] = recursion[m] BY <1>4, <1>6, <2>3
    <3> QED BY <2>1, <3>1, <3>2 DEF ClaimOk
  <2> QED BY <2>2, <2>3
<1>20. ASSUME NEW v \in Threads PROVE WaitOk(v)'
  <2>1. WaitOk(v) BY DEF IInv, WaitInv
  <2>2. node[v] \in SUBSET Monitors /\ ready[v] \in SUBSET Monitors BY DEF IInv, TypeOK
  <2>3. CASE v = t BY <1>7, <1>8, <1>9, <2>3 DEF WaitOk
  <2>4. CASE v # t
    <3>1. /\ pc'[v] = pc[v] /\ node'[v] = node[v] /\ saved'[v] = saved[v]
          /\ ready'[v] = ready[v] /\ permit'[v] = permit[v] /\ owner' = owner
      BY <1>1, <1>8, <1>9, <2>4
    <3>2. \A m \in node[v] : Entries(v, m)' = Entries(v, m) BY <1>13, <2>2, <2>4
    <3>3. \A m \in Monitors : owner[m] = v => mask'[m] = mask[m] BY <1>4, <1>6, <2>4
    <3> QED BY <2>1, <2>2, <3>1, <3>2, <3>3 DEF WaitOk
  <2> QED BY <2>3, <2>4
<1>21. MaskInv'
  <2>1. \A m \in Monitors : mask'[m] # {} => mask[m] # {} BY <1>6
  <2> QED BY <1>1, <2>1 DEF IInv, MaskInv
<1>22. FreeInv' BY <1>1 DEF IInv, FreeInv
<1> QED
  <2>1. ClaimInv' /\ WaitInv' BY <1>19, <1>20 DEF ClaimInv, WaitInv
  <2> QED BY <1>14, <1>15, <1>16, <1>17, <1>18, <1>21, <1>22, <2>1 DEF IInv

-----------------------------------------------------------------------------
(***************************************************************************)
(* The theorems.                                                           *)
(***************************************************************************)

LEMMA Initially == Init => IInv
<1> SUFFICES ASSUME Init PROVE IInv OBVIOUS
<1> USE DEF Init
<1>1. <<>> \in Seq(Threads) /\ <<>> \in Seq(Routines) /\ ToSet(<<>>) = {} /\ IsInjective(<<>>)
  BY DEF ToSet, IsInjective
<1>2. None \notin Threads BY MonitorAssumption DEF MonitorAssumption
<1>3. TypeOK BY <1>1 DEF TypeOK, Pcs, NothingSaved
<1>4. CallInv BY DEF CallInv, CallOk
<1>5. EntryInv BY <1>1 DEF EntryInv
<1>6. CondInv BY <1>1 DEF CondInv
<1>7. StackInv BY <1>1 DEF StackInv
<1>8. ClaimInv
  <2> SUFFICES ASSUME NEW t \in Threads, NEW m \in Monitors PROVE ClaimOk(t, m) BY DEF ClaimInv
  <2>1. Entries(t, m) = 0
    <3>1. \A p, td : Tally(<<>>, p, td, m) = 0 BY <1>1, TallyValue
    <3>2. Tally(calls[t], pc[t], todo[t], m) = 0 BY <3>1 DEF Tally
    <3> QED BY <3>2, EntriesAreTallied
  <2>2. Given(t, m) = 0 BY DEF Given
  <2> QED BY <1>1, <1>2, <2>1, <2>2 DEF ClaimOk
<1>9. WaitInv BY DEF WaitInv, WaitOk, NothingSaved
<1>10. MaskInv /\ FreeInv BY DEF MaskInv, FreeInv
<1> QED BY <1>3, <1>4, <1>5, <1>6, <1>7, <1>8, <1>9, <1>10 DEF IInv

LEMMA Stuttering == IInv /\ UNCHANGED vars => IInv'
<1> SUFFICES ASSUME IInv, UNCHANGED vars PROVE IInv' OBVIOUS
<1>1. UNCHANGED <<owner, recursion, entry_queue, signal_stack, mask, cond_monitors, blocked,
                  calls, pc, todo, node, ready, saved, permit>>
  BY DEF vars, monVars, condVars, nodeVars
<1>2. \A t \in Threads, m \in Monitors : Entries(t, m)' = Entries(t, m) /\ Given(t, m)' = Given(t, m)
  BY <1>1, EntriesFrame, GivenFrame
<1>3. \A t \in Threads : Group(t)' = Group(t) /\ (OnCondition(t)' <=> OnCondition(t))
  BY <1>1 DEF Group, Innermost, OnCondition
<1>4. TypeOK' BY <1>1 DEF IInv, TypeOK
<1>5. CallInv' BY <1>1, <1>3 DEF IInv, CallInv, CallOk
<1>6. EntryInv' BY <1>1 DEF IInv, EntryInv
<1>7. CondInv' BY <1>1 DEF IInv, CondInv
<1>8. StackInv' BY <1>1, <1>3 DEF IInv, StackInv
<1>9. ClaimInv' BY <1>1, <1>2 DEF IInv, ClaimInv, ClaimOk
<1>10. WaitInv'
  <2>1. \A t \in Threads : node[t] \in SUBSET Monitors BY DEF IInv, TypeOK
  <2> QED BY <1>1, <1>2, <2>1 DEF IInv, WaitInv, WaitOk
<1>11. MaskInv' /\ FreeInv' BY <1>1 DEF IInv, MaskInv, FreeInv
<1> QED BY <1>4, <1>5, <1>6, <1>7, <1>8, <1>9, <1>10, <1>11 DEF IInv

LEMMA NextKeeps == IInv /\ [Next]_vars => IInv'
<1> SUFFICES ASSUME IInv, [Next]_vars PROVE IInv' OBVIOUS
<1>1. CASE UNCHANGED vars BY <1>1, Stuttering
<1>2. CASE Next
  <2>1. PICK t \in Threads :
          \/ \E r \in Routines : Call(t, r)
          \/ Enter(t) \/ EnterReturns(t) \/ StartLeave(t) \/ Leave(t)
          \/ \E c \in Conditions : Wait(t, c) \/ Signal(t, c) \/ SignalBlock(t, c)
          \/ \E accepted \in SUBSET Routines : WaitforPresent(t, accepted) \/ WaitforBlocks(t, accepted)
          \/ Resume(t)
    BY <1>2 DEF Next
  <2>2. CASE \E r \in Routines : Call(t, r) BY <2>2, CallKeeps
  <2>3. CASE Enter(t) BY <2>3, EnterKeeps
  <2>4. CASE EnterReturns(t) BY <2>4, EnterReturnsKeeps
  <2>5. CASE StartLeave(t) BY <2>5, StartLeaveKeeps
  <2>6. CASE Leave(t) BY <2>6, LeaveKeeps
  <2>7. CASE \E c \in Conditions : Wait(t, c) BY <2>7, WaitKeeps
  <2>8. CASE \E c \in Conditions : Signal(t, c) BY <2>8, SignalsKeep
  <2>9. CASE \E c \in Conditions : SignalBlock(t, c) BY <2>9, SignalBlockKeeps
  <2>10. CASE \E accepted \in SUBSET Routines : WaitforPresent(t, accepted) BY <2>10, WaitforPresentKeeps
  <2>11. CASE \E accepted \in SUBSET Routines : WaitforBlocks(t, accepted) BY <2>11, WaitforBlocksKeeps
  <2>12. CASE Resume(t) BY <2>12, ResumeKeeps
  <2> QED BY <2>1, <2>2, <2>3, <2>4, <2>5, <2>6, <2>7, <2>8, <2>9, <2>10, <2>11, <2>12
<1> QED BY <1>1, <1>2

(* The inductive invariant holds in every reachable state: what a thread's *)
(* calls count, the queues and stacks it is in, and what it owns agree     *)
(* through every entry, leave, wait, signal and waitfor of monitor.cfa.    *)
THEOREM Invariance == Spec => []IInv
<1>1. Init => IInv BY Initially
<1>2. IInv /\ [Next]_vars => IInv' BY NextKeeps
<1> QED BY <1>1, <1>2, PTL DEF Spec

(* Mutual exclusion: who has entered a monitor and not left it or waited   *)
(* with it owns it, and the recursion count is the number of its calls     *)
(* (monitor.cfa:264, :749-760).                                            *)
THEOREM MonitorsExclude == Spec => []HoldersOwn
<1>1. IInv => HoldersOwn
  <2> SUFFICES ASSUME IInv, NEW t \in Threads, NEW m \in Monitors, Entries(t, m) > 0, m \notin node[t]
               PROVE  owner[m] = t /\ recursion[m] = Entries(t, m)
    BY DEF HoldersOwn
  <2>1. Entries(t, m) \in Nat BY EntriesType DEF IInv
  <2>2. ClaimOk(t, m) BY DEF IInv, ClaimInv
  <2>3. Given(t, m) \in {0, 1} BY DEF Given
  <2> QED BY <2>1, <2>2, <2>3 DEF ClaimOk
<1> QED BY <1>1, Invariance, PTL

LEMMA PlaceOf ==
  ASSUME NEW w, NEW t, NEW p
  PROVE  p \in Places(w, t) <=> \E x \in DOMAIN w : \E i \in DOMAIN w[x] : w[x][i] = t /\ p = <<x, i>>
BY DEF Places

LEMMA NoPlace ==
  ASSUME NEW w, NEW t, \A x \in DOMAIN w : t \notin ToSet(w[x])
  PROVE  Places(w, t) = {} /\ Cardinality(Places(w, t)) = 0
<1>1. \A p : p \notin Places(w, t) BY PlaceOf DEF ToSet
<1>2. Places(w, t) = {} BY <1>1
<1> QED BY <1>2, FS_EmptySet

LEMMA OnePlace ==
  ASSUME NEW w, NEW t, NEW x \in DOMAIN w, IsInjective(w[x]), t \in ToSet(w[x]),
         \A y \in DOMAIN w : t \in ToSet(w[y]) => y = x
  PROVE  Cardinality(Places(w, t)) = 1
<1>1. PICK i \in DOMAIN w[x] : w[x][i] = t BY DEF ToSet
<1>2. <<x, i>> \in Places(w, t) BY <1>1, PlaceOf
<1>3. ASSUME NEW p \in Places(w, t) PROVE p = <<x, i>>
  <2>0. PICK y \in DOMAIN w : \E j \in DOMAIN w[y] : w[y][j] = t /\ p = <<y, j>> BY PlaceOf
  <2>1. PICK j \in DOMAIN w[y] : w[y][j] = t /\ p = <<y, j>> BY <2>0
  <2>2. y = x BY <2>1 DEF ToSet
  <2>3. j = i BY <1>1, <2>1, <2>2 DEF IsInjective
  <2> QED BY <2>1, <2>2, <2>3
<1>4. Places(w, t) = {<<x, i>>} BY <1>2, <1>3
<1> QED BY <1>4, FS_Singleton

LEMMA CountOnce ==
  ASSUME NEW q, NEW t, IsInjective(q)
  PROVE  Count(q, t) = IF t \in ToSet(q) THEN 1 ELSE 0
<1>1. CASE t \in ToSet(q)
  <2>1. PICK i \in DOMAIN q : q[i] = t BY <1>1 DEF ToSet
  <2>2. {j \in DOMAIN q : q[j] = t} = {i} BY <2>1 DEF IsInjective
  <2> QED BY <1>1, <2>2, FS_Singleton DEF Count
<1>2. CASE t \notin ToSet(q)
  <2>1. {j \in DOMAIN q : q[j] = t} = {} BY <1>2 DEF ToSet
  <2> QED BY <1>2, <2>1, FS_EmptySet DEF Count
<1> QED BY <1>1, <1>2

(* Nobody is lost in a queue or a stack: who is blocked is in one entry    *)
(* queue, on one condition, or has one criterion for each monitor that it  *)
(* does not have yet.                                                      *)
THEOREM NobodyIsLost == Spec => []FoundOnce
<1>1. IInv => FoundOnce
  <2> SUFFICES ASSUME IInv, NEW t \in Threads
               PROVE  /\ Cardinality(Places(entry_queue, t)) = IF pc[t] = "blocked" /\ ~permit[t] THEN 1 ELSE 0
                      /\ pc[t] # "waiting" => Places(blocked, t) = {} /\ Places(signal_stack, t) = {}
                      /\ pc[t] = "waiting" /\ ~permit[t] =>
                           \/ Cardinality(Places(blocked, t)) = 1 /\ Places(signal_stack, t) = {}
                           \/ Places(blocked, t) = {} /\ \A m \in Monitors :
                                Count(signal_stack[m], t) = IF m \in node[t] \ ready[t] THEN 1 ELSE 0
    BY DEF FoundOnce
  <2>1. DOMAIN entry_queue = Monitors /\ DOMAIN signal_stack = Monitors /\ DOMAIN blocked = Conditions
    BY DEF IInv, TypeOK
  <2>2. /\ \A m \in Monitors : IsInjective(entry_queue[m]) /\ IsInjective(signal_stack[m])
        /\ \A c \in Conditions : IsInjective(blocked[c])
    BY DEF IInv, EntryInv, StackInv, CondInv
  <2>3. /\ \A m \in Monitors :
             t \in ToSet(entry_queue[m]) <=> pc[t] = "blocked" /\ ~permit[t] /\ m = Min(todo[t])
        /\ \A m \in Monitors :
             t \in ToSet(signal_stack[m]) <=>
               pc[t] = "waiting" /\ ~permit[t] /\ m \in node[t] \ ready[t] /\ ~OnCondition(t)
    BY DEF IInv, EntryInv, StackInv
  <2>4. \A c \in Conditions : t \in ToSet(blocked[c]) =>
          pc[t] = "waiting" /\ \A d \in Conditions : t \in ToSet(blocked[d]) => d = c
    BY DEF IInv, CondInv
  <2>5. Cardinality(Places(entry_queue, t)) = IF pc[t] = "blocked" /\ ~permit[t] THEN 1 ELSE 0
    <3>1. CASE pc[t] = "blocked" /\ ~permit[t]
      <4>1. PICK m \in Monitors : m = Min(todo[t])
        <5>1. pc[t] \in {"enter", "blocked", "leave"} BY <3>1
        <5> QED BY <5>1, OwnTodo
      <4>2. /\ m \in DOMAIN entry_queue /\ IsInjective(entry_queue[m]) /\ t \in ToSet(entry_queue[m])
            /\ \A y \in DOMAIN entry_queue : t \in ToSet(entry_queue[y]) => y = m
        BY <2>1, <2>2, <2>3, <3>1, <4>1
      <4> QED BY <3>1, <4>2, OnePlace
    <3>2. CASE ~(pc[t] = "blocked" /\ ~permit[t])
      <4>1. \A x \in DOMAIN entry_queue : t \notin ToSet(entry_queue[x]) BY <2>1, <2>3, <3>2
      <4>2. Cardinality(Places(entry_queue, t)) = 0 BY <4>1, NoPlace
      <4> QED BY <3>2, <4>2
    <3> QED BY <3>1, <3>2
  <2>6. ~OnCondition(t) => Places(blocked, t) = {}
    <3>1. ASSUME ~OnCondition(t) PROVE \A x \in DOMAIN blocked : t \notin ToSet(blocked[x])
      BY <2>1, <3>1 DEF OnCondition
    <3> QED BY <3>1, NoPlace
  <2>7. pc[t] # "waiting" \/ OnCondition(t) => Places(signal_stack, t) = {}
    <3>1. ASSUME pc[t] # "waiting" \/ OnCondition(t)
          PROVE  \A x \in DOMAIN signal_stack : t \notin ToSet(signal_stack[x])
      BY <2>1, <2>3, <3>1
    <3> QED BY <3>1, NoPlace
  <2>8. OnCondition(t) => Cardinality(Places(blocked, t)) = 1
    <3> SUFFICES ASSUME OnCondition(t) PROVE Cardinality(Places(blocked, t)) = 1 OBVIOUS
    <3>1. PICK c \in Conditions : t \in ToSet(blocked[c]) BY DEF OnCondition
    <3>2. /\ c \in DOMAIN blocked /\ IsInjective(blocked[c])
          /\ \A y \in DOMAIN blocked : t \in ToSet(blocked[y]) => y = c
      BY <2>1, <2>2, <2>4, <3>1
    <3> QED BY <3>1, <3>2, OnePlace
  <2>9. ASSUME pc[t] = "waiting", ~permit[t], ~OnCondition(t), NEW m \in Monitors
        PROVE  Count(signal_stack[m], t) = IF m \in node[t] \ ready[t] THEN 1 ELSE 0
    <3>1. IsInjective(signal_stack[m]) BY <2>2
    <3>2. t \in ToSet(signal_stack[m]) <=> m \in node[t] \ ready[t] BY <2>3, <2>9
    <3>3. Count(signal_stack[m], t) = IF t \in ToSet(signal_stack[m]) THEN 1 ELSE 0 BY <3>1, CountOnce
    <3> QED BY <3>2, <3>3
  <2>10. pc[t] # "waiting" => ~OnCondition(t) BY <2>4 DEF OnCondition
  <2> QED BY <2>5, <2>6, <2>7, <2>8, <2>9, <2>10
<1> QED BY <1>1, Invariance, PTL

(* A monitor that somebody waits for is owned by a thread that can go on,  *)
(* waits for another monitor, or accepts callers.                          *)
THEOREM NobodyIsStranded == Spec => []NobodyStranded
<1>1. IInv => NobodyStranded
  <2> SUFFICES ASSUME IInv, NEW m \in Monitors
               PROVE  /\ owner[m] = None => entry_queue[m] = <<>> /\ signal_stack[m] = <<>>
                      /\ \A t \in Threads : owner[m] = t /\ pc[t] = "waiting" /\ ~permit[t] =>
                           \/ m \notin node[t] \/ mask[m] # {}
                           \/ m \in ready[t] /\ ready[t] # node[t]
                      /\ \A t \in Threads : owner[m] = t /\ pc[t] = "blocked" /\ ~permit[t] =>
                           \E n \in Monitors \ {m} : t \in ToSet(entry_queue[n])
    BY DEF NobodyStranded
  <2>1. owner[m] = None => entry_queue[m] = <<>> /\ signal_stack[m] = <<>> BY DEF IInv, FreeInv
  <2>2. ASSUME NEW t \in Threads, owner[m] = t, pc[t] = "waiting", ~permit[t]
        PROVE  m \notin node[t] \/ mask[m] # {} \/ (m \in ready[t] /\ ready[t] # node[t])
    BY <2>2 DEF IInv, WaitInv, WaitOk
  <2>3. ASSUME NEW t \in Threads, owner[m] = t, pc[t] = "blocked", ~permit[t]
        PROVE  \E n \in Monitors \ {m} : t \in ToSet(entry_queue[n])
    <3>1. PICK n \in Monitors : n = Min(todo[t])
      <4>1. pc[t] \in {"enter", "blocked", "leave"} BY <2>3
      <4> QED BY <4>1, OwnTodo
    <3>2. t \in ToSet(entry_queue[n]) BY <2>3, <3>1 DEF IInv, EntryInv
    <3>3. owner[n] # t BY <3>2, Queued
    <3> QED BY <2>3, <3>2, <3>3
  <2> QED BY <2>1, <2>2, <2>3
<1> QED BY <1>1, Invariance, PTL

(* A step that passes on or hands over monitors changes no owner but of    *)
(* those that the thread owns, and these have no mask.                     *)
LEMMA OwnNoMask ==
  ASSUME IInv, NEW t \in Threads, NEW m \in Monitors,
         \/ pc[t] = "run" /\ calls[t] # <<>> /\ m \in Group(t)
         \/ pc[t] = "leave" /\ m \in todo[t]
  PROVE  mask[m] = {}
BY Holds

(* While a thread accepts, the owner of its monitors changes only to a     *)
(* caller of what it accepts, as far as the code looks, which is at the    *)
(* first monitor of the caller's group (monitor.cfa:111, :841-857).        *)
THEOREM OnlyTheAcceptedEnter == Spec => AcceptsOnly
<1> DEFINE Accepts(m) == mask[m] # {} /\ owner'[m] # owner[m] =>
                           LET r == Innermost(owner'[m]) IN r \in mask[m] \/ m # Min(r.group)
<1>1. IInv /\ [Next]_vars => [\A m \in Monitors : Accepts(m)]_vars
  <2> SUFFICES ASSUME IInv, Next PROVE \A m \in Monitors : Accepts(m) OBVIOUS
  <2> SUFFICES ASSUME NEW m \in Monitors, mask[m] # {}, owner'[m] # owner[m]
               PROVE  Innermost(owner'[m]) \in mask[m] \/ m # Min(Innermost(owner'[m]).group)
    OBVIOUS
  <2>1. owner \in [Monitors -> Threads \cup {None}] BY DEF IInv, TypeOK
  <2>2. owner[m] # None BY MonitorAssumption DEF IInv, MaskInv, MonitorAssumption
  <2>3. PICK t \in Threads :
          \/ \E r \in Routines : Call(t, r)
          \/ Enter(t) \/ EnterReturns(t) \/ StartLeave(t) \/ Leave(t)
          \/ \E c \in Conditions : Wait(t, c) \/ Signal(t, c) \/ SignalBlock(t, c)
          \/ \E accepted \in SUBSET Routines : WaitforPresent(t, accepted) \/ WaitforBlocks(t, accepted)
          \/ Resume(t)
    BY DEF Next
  <2>4. CASE Enter(t)
    <3>1. \/ /\ owner[Min(todo[t])] = None \/ IsAccepted(Min(todo[t]), Innermost(t))
             /\ owner' = [owner EXCEPT ![Min(todo[t])] = t]
          \/ owner' = owner
      BY <2>4 DEF Enter, Set
    <3>2. m = Min(todo[t]) /\ owner'[m] = t /\ IsAccepted(m, Innermost(t)) BY <2>1, <2>2, <3>1
    <3> QED BY <3>2 DEF IsAccepted
  <2>5. CASE Leave(t)
    <3>1. pc[t] = "leave" BY <2>5 DEF Leave
    <3>2. PICK x \in Monitors : x = Max(todo[t]) /\ x \in todo[t]
      <4>1. pc[t] \in {"enter", "blocked", "leave"} BY <3>1
      <4> QED BY <4>1, OwnTodo
    <3>3. mask[x] = {} BY <3>1, <3>2, OwnNoMask
    <3>4. m # x BY <3>3
    <3>5. CASE recursion[x] # 1 BY <2>5, <3>2, <3>5 DEF Leave
    <3>6. CASE recursion[x] = 1
      <4>1. PassOn({x}, ready) BY <2>5, <3>2, <3>6 DEF Leave, PassOn, At
      <4>2. owner' = [k \in DOMAIN owner |->
                       IF k \in {x} THEN owner'[k] ELSE owner[k]]
        BY <4>1, <2>1 DEF PassOn, At
      <4> QED BY <4>2, <3>4, <2>1
    <3> QED BY <3>5, <3>6
  <2>6. ASSUME NEW c \in Conditions, Wait(t, c) PROVE FALSE
    <3>1. pc[t] = "run" /\ calls[t] # <<>> BY <2>6 DEF Wait, MayUse
    <3>2. m \notin Group(t) BY <3>1, OwnNoMask
    <3> QED BY <2>6, <3>2 DEF Wait, PassOn, At
  <2>8. ASSUME NEW c \in Conditions, SignalBlock(t, c) PROVE FALSE
    <3>1. pc[t] = "run" /\ calls[t] # <<>> BY <2>8 DEF SignalBlock, MayUse
    <3>2. m \notin Group(t) BY <3>1, OwnNoMask
    <3> QED BY <2>8, <3>2 DEF SignalBlock, HandOver, At
  <2>9. ASSUME NEW accepted \in SUBSET Routines, WaitforPresent(t, accepted) PROVE FALSE
    <3>1. pc[t] = "run" /\ calls[t] # <<>> BY <2>9 DEF WaitforPresent, MayAccept
    <3>2. m \notin Group(t) BY <3>1, OwnNoMask
    <3> QED BY <2>9, <3>2 DEF WaitforPresent, HandOver, At
  <2>10. CASE \E r \in Routines : Call(t, r) BY <2>10 DEF Call, monVars
  <2>11. CASE EnterReturns(t) \/ StartLeave(t) BY <2>11 DEF EnterReturns, StartLeave, monVars
  <2>12. CASE \E c \in Conditions : Signal(t, c) BY <2>12 DEF Signal
  <2>13. CASE \E accepted \in SUBSET Routines : WaitforBlocks(t, accepted) BY <2>13 DEF WaitforBlocks
  <2>14. CASE Resume(t) BY <2>14 DEF Resume
  <2> QED BY <2>3, <2>4, <2>5, <2>6, <2>8, <2>9, <2>10, <2>11, <2>12, <2>13, <2>14
<1> QED BY <1>1, Invariance, PTL DEF Spec, AcceptsOnly
=============================================================================
