---------------------------- MODULE CondVarProofs ----------------------------
(***************************************************************************)
(* Proofs about CondVar for any number of threads and any depth.           *)
(*                                                                         *)
(* The inductive invariant IInv says that a thread is in at most one of    *)
(* the queue of the lock, the queue of the condition variable and the      *)
(* hands of a notifier, and in one of them exactly while it is blocked and *)
(* nobody has woken it; that the owner holds the lock or was handed it     *)
(* after having been blocked; and what a thread knows at each point of its *)
(* wait.                                                                   *)
(***************************************************************************)
EXTENDS CondVar, FiniteSetTheorems, SequenceTheorems, TLAPS

-----------------------------------------------------------------------------
(* The inductive invariant.                                                *)

\* A notifier has taken t out of the queue and not passed it on.
Holding(t) == \E n \in Notifiers : popped[n] = t

\* Where the blocked threads are: nowhere twice, and somewhere until woken.
PlaceInv ==
  /\ IsInjective(blocked_threads) /\ IsInjective(waiters)
  /\ wait_count = Len(blocked_threads) /\ count = Len(waiters)
  /\ \A m, n \in Notifiers : popped[m] # None /\ popped[n] # None => m = n
  /\ ToSet(blocked_threads) \cap ToSet(waiters) = {}
  /\ \A t \in Threads : Holding(t) => t \notin ToSet(blocked_threads) \cup ToSet(waiters)
  /\ \A t \in Threads :
       (t \in ToSet(blocked_threads) \/ t \in ToSet(waiters) \/ Holding(t))
         <=> (pc[t] \in {"blocked", "queued", "register", "parked"} /\ ~permit[t])
  /\ \A t \in Threads : t \in ToSet(blocked_threads) => pc[t] = "blocked" \/ withLock[t]
  /\ \A t \in Threads : t \in ToSet(waiters) \/ Holding(t) => pc[t] # "blocked"

\* What a thread knows at each point of lock and wait.
CodeInv ==
  \A t \in Threads :
    /\ permit[t] => pc[t] \in {"blocked", "register", "parked"}
    /\ pc[t] = "blocked" => depth[t] = 0
    /\ pc[t] = "queued" => withLock[t] /\ depth[t] > 0
    /\ pc[t] \in {"register", "woken"} => timed[t]
    /\ withLock[t] => pc[t] \notin {"run", "blocked"}
    /\ withLock[t] /\ pc[t] # "queued" =>
         depth[t] = 0 /\ recursion[t] > 0 /\ link_node[t] = "live"
    /\ signalled[t] => pc[t] \notin {"run", "blocked"} /\ t \notin ToSet(waiters)

\* The alarm notifies one thread at a time, the one whose timeout runs.
NotifyInv == ~all[Alarm] /\ popped[Alarm] \in {None, firing}

IInv == TypeOK /\ PlaceInv /\ CodeInv /\ HoldersOwn /\ HandedOver /\ AlarmInWait /\ NotifyInv

-----------------------------------------------------------------------------
(* Sequences without duplicates as the sets of their elements.             *)

\* Append adds an element, at the end of a queue that does not have it.
LEMMA AppendSet ==
  ASSUME NEW S, NEW q \in Seq(S), NEW e \in S
  PROVE  /\ Append(q, e) \in Seq(S)
         /\ Len(Append(q, e)) = Len(q) + 1
         /\ ToSet(Append(q, e)) = ToSet(q) \cup {e}
         /\ IsInjective(q) /\ e \notin ToSet(q) => IsInjective(Append(q, e))
<1>1. /\ Append(q, e) \in Seq(S) /\ Len(Append(q, e)) = Len(q) + 1
      /\ \A i \in 1 .. Len(q) : Append(q, e)[i] = q[i]
      /\ Append(q, e)[Len(q) + 1] = e
  BY AppendProperties
<1>2. /\ Len(q) \in Nat /\ DOMAIN q = 1 .. Len(q)
      /\ DOMAIN Append(q, e) = 1 .. (Len(q) + 1)
  BY <1>1, LenProperties
<1>3. ToSet(Append(q, e)) = ToSet(q) \cup {e}
  BY <1>1, <1>2 DEF ToSet
<1>4. ASSUME IsInjective(q), e \notin ToSet(q)
      PROVE  IsInjective(Append(q, e))
  BY <1>1, <1>2, <1>4 DEF IsInjective, ToSet
<1>. QED BY <1>1, <1>3, <1>4

\* Tail removes the head, which was there once.
LEMMA TailSet ==
  ASSUME NEW S, NEW q \in Seq(S), q # <<>>
  PROVE  /\ Head(q) \in S /\ Head(q) \in ToSet(q)
         /\ Tail(q) \in Seq(S)
         /\ Len(Tail(q)) = Len(q) - 1 /\ Len(q) \in Nat \ {0}
         /\ IsInjective(q) => IsInjective(Tail(q)) /\ ToSet(Tail(q)) = ToSet(q) \ {Head(q)}
<1>1. /\ Head(q) \in S /\ Head(q) = q[1] /\ Tail(q) \in Seq(S)
      /\ Len(Tail(q)) = Len(q) - 1
      /\ \A i \in 1 .. Len(Tail(q)) : Tail(q)[i] = q[i + 1]
  BY HeadTailProperties
<1>2. /\ Len(q) \in Nat \ {0} /\ DOMAIN q = 1 .. Len(q)
      /\ DOMAIN Tail(q) = 1 .. (Len(q) - 1)
  BY <1>1, LenProperties, EmptySeq
<1>3. Head(q) \in ToSet(q)
  BY <1>1, <1>2 DEF ToSet
<1>4. ASSUME IsInjective(q)
      PROVE  IsInjective(Tail(q)) /\ ToSet(Tail(q)) = ToSet(q) \ {Head(q)}
  <2>1. IsInjective(Tail(q))
    BY <1>1, <1>2, <1>4 DEF IsInjective
  <2>2. ToSet(Tail(q)) \subseteq ToSet(q) \ {Head(q)}
    BY <1>1, <1>2, <1>4 DEF IsInjective, ToSet
  <2>3. ASSUME NEW x \in ToSet(q), x # Head(q)
        PROVE  x \in ToSet(Tail(q))
    <3>1. PICK i \in 1 .. Len(q) : x = q[i]
      BY <1>2 DEF ToSet
    <3>2. i - 1 \in 1 .. (Len(q) - 1) /\ Tail(q)[i - 1] = x
      BY <1>1, <1>2, <2>3, <3>1
    <3>. QED BY <1>2, <3>2 DEF ToSet
  <2>. QED BY <2>1, <2>2, <2>3
<1>. QED BY <1>1, <1>2, <1>3, <1>4

\* RemoveAt removes the element at its position.
LEMMA RemoveSet ==
  ASSUME NEW S, NEW q \in Seq(S), NEW i \in DOMAIN q
  PROVE  /\ RemoveAt(q, i) \in Seq(S)
         /\ Len(RemoveAt(q, i)) = Len(q) - 1
         /\ IsInjective(q) => IsInjective(RemoveAt(q, i)) /\ ToSet(RemoveAt(q, i)) = ToSet(q) \ {q[i]}
<1>. DEFINE l == SubSeq(q, 1, i - 1)
            r == SubSeq(q, i + 1, Len(q))
<1>1. Len(q) \in Nat /\ DOMAIN q = 1 .. Len(q) /\ i \in 1 .. Len(q)
      /\ \A j \in 1 .. Len(q) : q[j] \in S
  BY LenProperties, ElementOfSeq
<1>2. /\ l \in Seq(S) /\ Len(l) = i - 1
      /\ \A j \in 1 .. (i - 1) : l[j] = q[j]
  <2>1. \A j \in 1 .. (i - 1) : q[j] \in S
    BY <1>1
  <2>2. 1 \in Int /\ i - 1 \in Int
    BY <1>1
  <2>. QED BY <1>1, <2>1, <2>2, SubSeqProperties
<1>3. /\ r \in Seq(S) /\ Len(r) = Len(q) - i
      /\ \A j \in 1 .. (Len(q) - i) : r[j] = q[i + j]
  <2>1. \A j \in (i + 1) .. Len(q) : q[j] \in S
    BY <1>1
  <2>2. i + 1 \in Int /\ Len(q) \in Int
    BY <1>1
  <2>3. /\ r \in Seq(S)
        /\ Len(r) = IF i + 1 <= Len(q) THEN Len(q) - (i + 1) + 1 ELSE 0
        /\ \A j \in 1 .. (Len(q) - (i + 1) + 1) : r[j] = q[i + 1 + j - 1]
    BY <2>1, <2>2, SubSeqProperties
  <2>4. Len(q) - (i + 1) + 1 = Len(q) - i /\ (i + 1 > Len(q) => Len(q) - i = 0)
    BY <1>1
  <2>5. r \in Seq(S) /\ Len(r) = Len(q) - i
    BY <1>1, <2>3, <2>4
  <2>6. ASSUME NEW j \in 1 .. (Len(q) - i)
        PROVE  r[j] = q[i + j]
    <3>1. i + 1 + j - 1 = i + j
      BY <1>1
    <3>. QED BY <2>3, <2>4, <3>1
  <2>. QED BY <2>5, <2>6
<1>. HIDE DEF l, r
<1>4. /\ RemoveAt(q, i) \in Seq(S) /\ Len(RemoveAt(q, i)) = Len(q) - 1
      /\ \A j \in 1 .. (i - 1) : RemoveAt(q, i)[j] = q[j]
      /\ \A j \in i .. (Len(q) - 1) : RemoveAt(q, i)[j] = q[j + 1]
  <2>1. RemoveAt(q, i) = l \o r
    BY DEF RemoveAt, l, r
  <2>2. /\ RemoveAt(q, i) \in Seq(S)
        /\ Len(RemoveAt(q, i)) = Len(l) + Len(r)
        /\ \A j \in 1 .. Len(l) + Len(r) :
             RemoveAt(q, i)[j] = IF j <= Len(l) THEN l[j] ELSE r[j - Len(l)]
    <3>1. /\ l \o r \in Seq(S)
          /\ Len(l \o r) = Len(l) + Len(r)
          /\ \A j \in 1 .. Len(l) + Len(r) :
               (l \o r)[j] = IF j <= Len(l) THEN l[j] ELSE r[j - Len(l)]
      BY <1>2, <1>3, ConcatProperties, Zenon
    <3>. QED BY <2>1, <3>1, Zenon
  <2>3. Len(RemoveAt(q, i)) = Len(q) - 1
    BY <1>1, <1>2, <1>3, <2>2
  <2>4. ASSUME NEW j \in 1 .. (i - 1)
        PROVE  RemoveAt(q, i)[j] = q[j]
    BY <1>1, <1>2, <1>3, <2>2
  <2>5. ASSUME NEW j \in i .. (Len(q) - 1)
        PROVE  RemoveAt(q, i)[j] = q[j + 1]
    <3>1. j - (i - 1) \in 1 .. (Len(q) - i) /\ i + (j - (i - 1)) = j + 1
      BY <1>1
    <3>2. RemoveAt(q, i)[j] = r[j - (i - 1)]
      BY <1>1, <1>2, <1>3, <2>2
    <3>. QED BY <1>3, <3>1, <3>2
  <2>. QED BY <2>2, <2>3, <2>4, <2>5
<1>5. DOMAIN RemoveAt(q, i) = 1 .. (Len(q) - 1)
  BY <1>4, LenProperties
<1>6. ASSUME IsInjective(q)
      PROVE  IsInjective(RemoveAt(q, i)) /\ ToSet(RemoveAt(q, i)) = ToSet(q) \ {q[i]}
  <2>1. ASSUME NEW j \in 1 .. (Len(q) - 1)
        PROVE  \E k \in 1 .. Len(q) :
                 /\ k = (IF j < i THEN j ELSE j + 1)
                 /\ RemoveAt(q, i)[j] = q[k]
    BY <1>1, <1>4
  <2>2. IsInjective(RemoveAt(q, i))
    <3>1. ASSUME NEW a \in 1 .. (Len(q) - 1), NEW b \in 1 .. (Len(q) - 1),
                 RemoveAt(q, i)[a] = RemoveAt(q, i)[b]
          PROVE  a = b
      <4>1. PICK k \in 1 .. Len(q) : k = (IF a < i THEN a ELSE a + 1) /\ RemoveAt(q, i)[a] = q[k]
        BY <2>1
      <4>2. PICK m \in 1 .. Len(q) : m = (IF b < i THEN b ELSE b + 1) /\ RemoveAt(q, i)[b] = q[m]
        BY <2>1
      <4>3. k = m
        BY <1>1, <1>6, <3>1, <4>1, <4>2 DEF IsInjective
      <4>. QED BY <1>1, <4>1, <4>2, <4>3
    <3>. QED BY <1>5, <3>1 DEF IsInjective
  <2>3. ToSet(RemoveAt(q, i)) \subseteq ToSet(q) \ {q[i]}
    <3>1. ASSUME NEW j \in 1 .. (Len(q) - 1)
          PROVE  RemoveAt(q, i)[j] \in ToSet(q) \ {q[i]}
      <4>1. PICK k \in 1 .. Len(q) : k = (IF j < i THEN j ELSE j + 1) /\ RemoveAt(q, i)[j] = q[k]
        BY <2>1
      <4>2. k # i /\ DOMAIN q = 1 .. Len(q)
        BY <1>1, <4>1
      <4>3. q[k] # q[i]
        BY <1>1, <1>6, <4>2 DEF IsInjective
      <4>. QED BY <4>1, <4>2, <4>3 DEF ToSet
    <3>. QED BY <1>5, <3>1 DEF ToSet
  <2>4. ASSUME NEW x \in ToSet(q), x # q[i]
        PROVE  x \in ToSet(RemoveAt(q, i))
    <3>1. PICK j \in 1 .. Len(q) : x = q[j]
      BY <1>1 DEF ToSet
    <3>2. CASE j < i
      BY <1>1, <1>4, <1>5, <3>1, <3>2 DEF ToSet
    <3>3. CASE j > i
      <4>1. j - 1 \in i .. (Len(q) - 1) /\ j - 1 \in 1 .. (Len(q) - 1) /\ (j - 1) + 1 = j
        BY <1>1, <3>3
      <4>2. RemoveAt(q, i)[j - 1] = x
        BY <1>4, <3>1, <4>1
      <4>. QED BY <1>5, <4>1, <4>2 DEF ToSet
    <3>. QED BY <1>1, <2>4, <3>1, <3>2, <3>3
  <2>. QED BY <2>2, <2>3, <2>4
<1>. QED BY <1>4, <1>6

-----------------------------------------------------------------------------
(* Each action preserves the invariant.                                    *)

\* The empty queue has no elements.
LEMMA EmptyQueue == ToSet(<<>>) = {} /\ IsInjective(<<>>) /\ Len(<<>>) = 0
BY DEF ToSet, IsInjective

\* The lock goes to the first thread that is blocked, or becomes free.
LEMMA PopNodeFacts ==
  ASSUME IInv, PopNode
  PROVE  \/ /\ ToSet(blocked_threads) = {} /\ blocked_threads = <<>>
            /\ owner' = None /\ recursion_count' = 0
            /\ UNCHANGED <<blocked_threads, wait_count, permit>>
         \/ \E h \in Threads :
              /\ h \in ToSet(blocked_threads)
              /\ owner' = h /\ recursion_count' = 1
              /\ permit' = [permit EXCEPT ![h] = TRUE]
              /\ blocked_threads' \in Seq(Threads) /\ IsInjective(blocked_threads')
              /\ ToSet(blocked_threads') = ToSet(blocked_threads) \ {h}
              /\ wait_count' \in Nat /\ wait_count' = Len(blocked_threads')
<1>1. CASE blocked_threads = <<>>
  BY <1>1, EmptyQueue DEF PopNode
<1>2. CASE blocked_threads # <<>>
  <2>. DEFINE h == Head(blocked_threads)
  <2>1. /\ h \in Threads /\ h \in ToSet(blocked_threads)
        /\ Tail(blocked_threads) \in Seq(Threads)
        /\ Len(Tail(blocked_threads)) = Len(blocked_threads) - 1
        /\ Len(blocked_threads) \in Nat \ {0}
        /\ IsInjective(Tail(blocked_threads))
        /\ ToSet(Tail(blocked_threads)) = ToSet(blocked_threads) \ {h}
    BY <1>2, TailSet DEF IInv, TypeOK, PlaceInv
  <2>2. /\ owner' = h /\ recursion_count' = 1
        /\ permit' = [permit EXCEPT ![h] = TRUE]
        /\ blocked_threads' = Tail(blocked_threads)
        /\ wait_count' = wait_count - 1
    BY <1>2 DEF PopNode
  <2>3. wait_count' = Len(blocked_threads') /\ wait_count' \in Nat
    BY <2>1, <2>2 DEF IInv, PlaceInv
  <2>. HIDE DEF h
  <2>4. /\ h \in Threads /\ h \in ToSet(blocked_threads)
        /\ owner' = h /\ recursion_count' = 1
        /\ permit' = [permit EXCEPT ![h] = TRUE]
        /\ blocked_threads' \in Seq(Threads) /\ IsInjective(blocked_threads')
        /\ ToSet(blocked_threads') = ToSet(blocked_threads) \ {h}
        /\ wait_count' \in Nat /\ wait_count' = Len(blocked_threads')
    BY <2>1, <2>2, <2>3
  <2>. QED BY <2>4
<1>. QED BY <1>1, <1>2

\* notify_all goes on with the next waiter, or the notification ends.
LEMMA TakeNextFacts ==
  ASSUME IInv, NEW n \in Notifiers, popped[n] # None, TakeNext(n)
  PROVE  \/ /\ popped' = [popped EXCEPT ![n] = None]
            /\ all' = [all EXCEPT ![n] = FALSE]
            /\ firing' = IF n = Alarm THEN None ELSE firing
            /\ UNCHANGED <<waiters, count, signalled>>
         \/ \E u \in Threads :
              /\ all[n] /\ u \in ToSet(waiters)
              /\ popped' = [popped EXCEPT ![n] = u]
              /\ signalled' = [signalled EXCEPT ![u] = TRUE]
              /\ waiters' \in Seq(Threads) /\ IsInjective(waiters')
              /\ ToSet(waiters') = ToSet(waiters) \ {u}
              /\ count' \in Nat /\ count' = Len(waiters')
              /\ UNCHANGED <<all, firing>>
<1>1. CASE ~(all[n] /\ waiters # <<>>)
  BY <1>1 DEF TakeNext, condVars
<1>2. CASE all[n] /\ waiters # <<>>
  <2>. DEFINE u == Head(waiters)
  <2>1. /\ u \in Threads /\ u \in ToSet(waiters)
        /\ Tail(waiters) \in Seq(Threads)
        /\ Len(Tail(waiters)) = Len(waiters) - 1
        /\ Len(waiters) \in Nat \ {0}
        /\ IsInjective(Tail(waiters))
        /\ ToSet(Tail(waiters)) = ToSet(waiters) \ {u}
    BY <1>2, TailSet DEF IInv, TypeOK, PlaceInv
  <2>2. /\ popped' = [popped EXCEPT ![n] = u]
        /\ signalled' = [signalled EXCEPT ![u] = TRUE]
        /\ waiters' = Tail(waiters)
        /\ count' = count - 1
        /\ UNCHANGED <<all, firing>>
    BY <1>2 DEF TakeNext
  <2>3. count' = Len(waiters') /\ count' \in Nat
    BY <2>1, <2>2 DEF IInv, PlaceInv
  <2>. HIDE DEF u
  <2>4. /\ u \in Threads /\ u \in ToSet(waiters)
        /\ waiters' \in Seq(Threads) /\ IsInjective(waiters')
        /\ ToSet(waiters') = ToSet(waiters) \ {u}
    BY <2>1, <2>2
  <2>. QED BY <1>2, <2>2, <2>3, <2>4
<1>. QED BY <1>1, <1>2

\* A free lock, or one's own, is taken.
LEMMA AcquireStep ==
  ASSUME IInv, NEW t \in Threads, Acquire(t)
  PROVE  IInv'
<1>. USE CondVarAssumption
<1>1. TypeOK'
  BY DEF IInv, TypeOK, CodeInv, HoldersOwn, HandedOver, Handed, Acquire, Running, condVars,
     waitVars, alarmVars, notifyVars
<1>2. PlaceInv'
  BY DEF IInv, TypeOK, PlaceInv, Holding, Acquire, Running, condVars, waitVars, alarmVars,
     notifyVars
<1>3. CodeInv'
  BY DEF IInv, TypeOK, CodeInv, Acquire, Running, condVars, waitVars, alarmVars, notifyVars
<1>4. HoldersOwn'
  BY DEF IInv, TypeOK, CodeInv, HoldersOwn, HandedOver, Handed, Acquire, Running, condVars,
     waitVars, alarmVars, notifyVars
<1>5. HandedOver'
  BY DEF IInv, TypeOK, HandedOver, Handed, Acquire, Running, condVars, waitVars, alarmVars,
     notifyVars
<1>6. AlarmInWait'
  BY DEF IInv, TypeOK, AlarmInWait, Acquire, Running, condVars, waitVars, alarmVars, notifyVars
<1>7. NotifyInv'
  BY DEF IInv, TypeOK, NotifyInv, Holding, Acquire, Running, condVars, waitVars, alarmVars,
     notifyVars
<1>. QED BY <1>1, <1>2, <1>3, <1>4, <1>5, <1>6, <1>7 DEF IInv

\* A thread that waits for the lock was in no queue.
LEMMA LockBlocksStep ==
  ASSUME IInv, NEW t \in Threads, LockBlocks(t)
  PROVE  IInv'
<1>. USE CondVarAssumption
<1>0. /\ blocked_threads' \in Seq(Threads) /\ Len(blocked_threads') = Len(blocked_threads) + 1
      /\ ToSet(blocked_threads') = ToSet(blocked_threads) \cup {t}
      /\ IsInjective(blocked_threads')
  BY AppendSet DEF IInv, TypeOK, PlaceInv, CodeInv, LockBlocks, Running
<1>1. TypeOK'
  BY <1>0 DEF IInv, TypeOK, LockBlocks, Running, condVars, waitVars, alarmVars, notifyVars
<1>2. PlaceInv'
  BY <1>0 DEF IInv, TypeOK, PlaceInv, Holding, CodeInv, LockBlocks, Running, condVars, waitVars,
     alarmVars, notifyVars
<1>3. CodeInv'
  BY <1>0 DEF IInv, TypeOK, CodeInv, HoldersOwn, HandedOver, Handed, LockBlocks, Running,
     condVars, waitVars, alarmVars, notifyVars
<1>4. HoldersOwn'
  BY <1>0 DEF IInv, TypeOK, HoldersOwn, LockBlocks, Running, condVars, waitVars, alarmVars,
     notifyVars
<1>5. HandedOver'
  BY <1>0 DEF IInv, TypeOK, CodeInv, HandedOver, Handed, LockBlocks, Running, condVars, waitVars,
     alarmVars, notifyVars
<1>6. AlarmInWait'
  BY <1>0 DEF IInv, TypeOK, AlarmInWait, LockBlocks, Running, condVars, waitVars, alarmVars,
     notifyVars
<1>7. NotifyInv'
  BY <1>0 DEF IInv, TypeOK, NotifyInv, Holding, LockBlocks, Running, condVars, waitVars,
     alarmVars, notifyVars
<1>. QED BY <1>1, <1>2, <1>3, <1>4, <1>5, <1>6, <1>7 DEF IInv

\* A thread that was handed the lock starts to hold it.
LEMMA LockReturnsStep ==
  ASSUME IInv, NEW t \in Threads, LockReturns(t)
  PROVE  IInv'
<1>. USE CondVarAssumption
<1>1. TypeOK'
  BY DEF IInv, TypeOK, LockReturns, Go, lockVars, condVars, waitVars, alarmVars, notifyVars
<1>2. PlaceInv'
  BY DEF IInv, TypeOK, PlaceInv, Holding, LockReturns, Go, lockVars, condVars, waitVars,
     alarmVars, notifyVars
<1>3. CodeInv'
  BY DEF IInv, TypeOK, CodeInv, LockReturns, Go, lockVars, condVars, waitVars, alarmVars,
     notifyVars
<1>4. HoldersOwn'
  BY DEF IInv, TypeOK, CodeInv, HoldersOwn, HandedOver, Handed, LockReturns, Go, lockVars,
     condVars, waitVars, alarmVars, notifyVars
<1>5. HandedOver'
  BY DEF IInv, TypeOK, HandedOver, Handed, LockReturns, Go, lockVars, condVars, waitVars,
     alarmVars, notifyVars
<1>6. AlarmInWait'
  BY DEF IInv, TypeOK, AlarmInWait, LockReturns, Go, lockVars, condVars, waitVars, alarmVars,
     notifyVars
<1>7. NotifyInv'
  BY DEF IInv, TypeOK, NotifyInv, Holding, LockReturns, Go, lockVars, condVars, waitVars,
     alarmVars, notifyVars
<1>. QED BY <1>1, <1>2, <1>3, <1>4, <1>5, <1>6, <1>7 DEF IInv

\* The owner goes one level up, or hands the lock over.
LEMMA UnlockStep ==
  ASSUME IInv, NEW t \in Threads, Unlock(t)
  PROVE  IInv'
<1>. USE CondVarAssumption
<1>0. owner = t /\ recursion_count = depth[t] /\ depth[t] \in 1 .. MaxDepth /\ pc[t] = "run"
  BY DEF IInv, TypeOK, HoldersOwn, Unlock, Running
<1>1. CASE recursion_count # 1
  <2>1. TypeOK'
    BY <1>0, <1>1 DEF IInv, TypeOK, Unlock, Running, condVars, waitVars, alarmVars, notifyVars
  <2>2. PlaceInv'
    BY <1>0, <1>1 DEF IInv, TypeOK, PlaceInv, Holding, Unlock, Running, condVars, waitVars,
       alarmVars, notifyVars
  <2>3. CodeInv'
    BY <1>0, <1>1 DEF IInv, TypeOK, CodeInv, Unlock, Running, condVars, waitVars, alarmVars,
       notifyVars
  <2>4. HoldersOwn'
    BY <1>0, <1>1 DEF IInv, TypeOK, HoldersOwn, Unlock, Running, condVars, waitVars, alarmVars,
       notifyVars
  <2>5. HandedOver'
    BY <1>0, <1>1 DEF IInv, TypeOK, HandedOver, Handed, Unlock, Running, condVars, waitVars,
       alarmVars, notifyVars
  <2>6. AlarmInWait'
    BY <1>0, <1>1 DEF IInv, TypeOK, AlarmInWait, Unlock, Running, condVars, waitVars, alarmVars,
       notifyVars
  <2>7. NotifyInv'
    BY <1>0, <1>1 DEF IInv, TypeOK, NotifyInv, Holding, Unlock, Running, condVars, waitVars,
       alarmVars, notifyVars
  <2>. QED BY <2>1, <2>2, <2>3, <2>4, <2>5, <2>6, <2>7 DEF IInv
<1>2. CASE recursion_count = 1 /\ owner' = None
  <2>0. /\ ToSet(blocked_threads) = {} /\ blocked_threads = <<>>
        /\ recursion_count' = 0 /\ UNCHANGED <<blocked_threads, wait_count, permit>>
    BY <1>2, PopNodeFacts DEF Unlock
  <2>1. TypeOK'
    BY <1>0, <1>2, <2>0 DEF IInv, TypeOK, Unlock, Running, condVars, waitVars, alarmVars,
       notifyVars
  <2>2. PlaceInv'
    BY <1>0, <1>2, <2>0 DEF IInv, TypeOK, PlaceInv, Holding, Unlock, Running, condVars, waitVars,
       alarmVars, notifyVars
  <2>3. CodeInv'
    BY <1>0, <1>2, <2>0 DEF IInv, TypeOK, CodeInv, Unlock, Running, condVars, waitVars, alarmVars,
       notifyVars
  <2>4. HoldersOwn'
    BY <1>0, <1>2, <2>0 DEF IInv, TypeOK, HoldersOwn, Unlock, Running, condVars, waitVars,
       alarmVars, notifyVars
  <2>5. HandedOver'
    BY <1>0, <1>2, <2>0 DEF IInv, TypeOK, HandedOver, Handed, Unlock, Running, condVars, waitVars,
       alarmVars, notifyVars
  <2>6. AlarmInWait'
    BY <1>0, <1>2, <2>0 DEF IInv, TypeOK, AlarmInWait, Unlock, Running, condVars, waitVars,
       alarmVars, notifyVars
  <2>7. NotifyInv'
    BY <1>0, <1>2, <2>0 DEF IInv, TypeOK, NotifyInv, Holding, Unlock, Running, condVars, waitVars,
       alarmVars, notifyVars
  <2>. QED BY <2>1, <2>2, <2>3, <2>4, <2>5, <2>6, <2>7 DEF IInv
<1>3. CASE recursion_count = 1 /\ owner' # None
  <2>0. PICK h \in Threads :
          /\ h \in ToSet(blocked_threads)
          /\ owner' = h /\ recursion_count' = 1
          /\ permit' = [permit EXCEPT ![h] = TRUE]
          /\ blocked_threads' \in Seq(Threads) /\ IsInjective(blocked_threads')
          /\ ToSet(blocked_threads') = ToSet(blocked_threads) \ {h}
          /\ wait_count' \in Nat /\ wait_count' = Len(blocked_threads')
    BY <1>3, PopNodeFacts DEF Unlock
  <2>1. TypeOK'
    BY <1>0, <1>3, <2>0 DEF IInv, TypeOK, Unlock, Running, condVars, waitVars, alarmVars,
       notifyVars
  <2>2. PlaceInv'
    BY <1>0, <1>3, <2>0 DEF IInv, TypeOK, PlaceInv, Holding, Unlock, Running, condVars, waitVars,
       alarmVars, notifyVars
  <2>3. CodeInv'
    BY <1>0, <1>3, <2>0 DEF IInv, TypeOK, PlaceInv, Holding, CodeInv, HoldersOwn, HandedOver,
       Handed, Unlock, Running, condVars, waitVars, alarmVars, notifyVars
  <2>4. HoldersOwn'
    BY <1>0, <1>3, <2>0 DEF IInv, TypeOK, HoldersOwn, Unlock, Running, condVars, waitVars,
       alarmVars, notifyVars
  <2>5. HandedOver'
    BY <1>0, <1>3, <2>0 DEF IInv, TypeOK, PlaceInv, Holding, CodeInv, HandedOver, Handed, Unlock,
       Running, condVars, waitVars, alarmVars, notifyVars
  <2>6. AlarmInWait'
    BY <1>0, <1>3, <2>0 DEF IInv, TypeOK, AlarmInWait, Unlock, Running, condVars, waitVars,
       alarmVars, notifyVars
  <2>7. NotifyInv'
    BY <1>0, <1>3, <2>0 DEF IInv, TypeOK, NotifyInv, Holding, Unlock, Running, condVars, waitVars,
       alarmVars, notifyVars
  <2>. QED BY <2>1, <2>2, <2>3, <2>4, <2>5, <2>6, <2>7 DEF IInv
<1>. QED BY <1>1, <1>2, <1>3

\* A thread that starts to wait was in no queue.
LEMMA EnqueueStep ==
  ASSUME IInv, NEW t \in Threads, Enqueue(t)
  PROVE  IInv'
<1>. USE CondVarAssumption
<1>0. /\ waiters' \in Seq(Threads) /\ Len(waiters') = Len(waiters) + 1
      /\ ToSet(waiters') = ToSet(waiters) \cup {t}
      /\ IsInjective(waiters')
  <2>1. t \notin ToSet(waiters) /\ waiters' = Append(waiters, t)
    BY DEF IInv, PlaceInv, Enqueue, Running
  <2>. QED BY <2>1, AppendSet DEF IInv, TypeOK, PlaceInv
<1>1. TypeOK'
  BY <1>0 DEF IInv, TypeOK, Enqueue, Running, CondFree, lockVars, alarmVars, notifyVars
<1>2. PlaceInv'
  BY <1>0 DEF IInv, TypeOK, PlaceInv, Holding, CodeInv, Enqueue, Running, CondFree, lockVars,
     alarmVars, notifyVars
<1>3. CodeInv'
  BY <1>0 DEF IInv, TypeOK, CodeInv, Enqueue, Running, CondFree, lockVars, alarmVars, notifyVars
<1>4. HoldersOwn'
  BY <1>0 DEF IInv, TypeOK, HoldersOwn, Enqueue, Running, CondFree, lockVars, alarmVars,
     notifyVars
<1>5. HandedOver'
  BY <1>0 DEF IInv, TypeOK, HandedOver, Handed, Enqueue, Running, CondFree, lockVars, alarmVars,
     notifyVars
<1>6. AlarmInWait'
  BY <1>0 DEF IInv, TypeOK, AlarmInWait, Enqueue, Running, CondFree, lockVars, alarmVars,
     notifyVars
<1>7. NotifyInv'
  BY DEF IInv, NotifyInv, Enqueue, alarmVars, notifyVars
<1>. QED BY <1>1, <1>2, <1>3, <1>4, <1>5, <1>6, <1>7 DEF IInv

\* The owner releases all levels of the lock, and it may be handed to itself.
LEMMA OnWaitStep ==
  ASSUME IInv, NEW t \in Threads, OnWait(t)
  PROVE  IInv'
<1>. USE CondVarAssumption
<1>0. owner = t /\ recursion_count = depth[t] /\ depth[t] \in 1 .. MaxDepth /\ withLock[t]
  BY DEF IInv, TypeOK, CodeInv, HoldersOwn, OnWait, Go
<1>1. CASE owner' = None
  <2>0. /\ ToSet(blocked_threads) = {} /\ blocked_threads = <<>>
        /\ recursion_count' = 0 /\ UNCHANGED <<blocked_threads, wait_count, permit>>
    BY <1>1, PopNodeFacts DEF OnWait
  <2>1. TypeOK'
    BY <1>0, <1>1, <2>0 DEF IInv, TypeOK, OnWait, Go, condVars, alarmVars, notifyVars
  <2>2. PlaceInv'
    BY <1>0, <1>1, <2>0 DEF IInv, TypeOK, PlaceInv, Holding, OnWait, Go, condVars, alarmVars,
       notifyVars
  <2>3. CodeInv'
    BY <1>0, <1>1, <2>0 DEF IInv, TypeOK, CodeInv, OnWait, Go, condVars, alarmVars, notifyVars
  <2>4. HoldersOwn'
    BY <1>0, <1>1, <2>0 DEF IInv, TypeOK, HoldersOwn, OnWait, Go, condVars, alarmVars, notifyVars
  <2>5. HandedOver'
    BY <1>0, <1>1, <2>0 DEF IInv, TypeOK, CodeInv, HandedOver, Handed, OnWait, Go, condVars,
       alarmVars, notifyVars
  <2>6. AlarmInWait'
    BY <1>0, <1>1, <2>0 DEF IInv, TypeOK, AlarmInWait, OnWait, Go, condVars, alarmVars, notifyVars
  <2>7. NotifyInv'
    BY <1>0, <1>1, <2>0 DEF IInv, TypeOK, NotifyInv, Holding, OnWait, Go, condVars, alarmVars,
       notifyVars
  <2>. QED BY <2>1, <2>2, <2>3, <2>4, <2>5, <2>6, <2>7 DEF IInv
<1>2. CASE owner' # None
  <2>0. PICK h \in Threads :
          /\ h \in ToSet(blocked_threads)
          /\ owner' = h /\ recursion_count' = 1
          /\ permit' = [permit EXCEPT ![h] = TRUE]
          /\ blocked_threads' \in Seq(Threads) /\ IsInjective(blocked_threads')
          /\ ToSet(blocked_threads') = ToSet(blocked_threads) \ {h}
          /\ wait_count' \in Nat /\ wait_count' = Len(blocked_threads')
    BY <1>2, PopNodeFacts DEF OnWait
  <2>1. TypeOK'
    BY <1>0, <1>2, <2>0 DEF IInv, TypeOK, OnWait, Go, condVars, alarmVars, notifyVars
  <2>2. PlaceInv'
    BY <1>0, <1>2, <2>0 DEF IInv, TypeOK, PlaceInv, Holding, OnWait, Go, condVars, alarmVars,
       notifyVars
  <2>3. CodeInv'
    BY <1>0, <1>2, <2>0 DEF IInv, TypeOK, PlaceInv, Holding, CodeInv, HoldersOwn, HandedOver,
       Handed, OnWait, Go, condVars, alarmVars, notifyVars
  <2>4. HoldersOwn'
    BY <1>0, <1>2, <2>0 DEF IInv, TypeOK, HoldersOwn, OnWait, Go, condVars, alarmVars, notifyVars
  <2>5. HandedOver'
    <3>1. pc[t] = "queued"
      BY DEF OnWait, Go
    <3>2. /\ pc[h] \in {"blocked", "queued", "register", "parked"} /\ ~permit[h]
          /\ pc[h] = "blocked" \/ withLock[h]
      BY <2>0 DEF IInv, PlaceInv
    <3>3. /\ pc' = [pc EXCEPT ![t] = IF timed[t] THEN "register" ELSE "parked"]
          /\ UNCHANGED <<withLock>> /\ depth' = [depth EXCEPT ![t] = 0]
      BY DEF OnWait, Go
    <3>4. Handed(h)'
      <4>1. CASE h = t
        BY <1>0, <2>0, <3>3, <4>1 DEF IInv, TypeOK, Handed
      <4>2. CASE h # t
        <5>1. pc[h] # "queued"
          BY <1>0, <4>2 DEF IInv, CodeInv, HoldersOwn
        <5>. QED BY <2>0, <3>2, <3>3, <4>2, <5>1 DEF IInv, TypeOK, Handed
      <4>. QED BY <4>1, <4>2
    <3>5. ASSUME t # h
          PROVE  ~Handed(t)'
      BY <1>0, <2>0, <3>1, <3>3, <3>5 DEF IInv, TypeOK, CodeInv, Handed
    <3>6. ASSUME NEW u \in Threads, u # t, u # h
          PROVE  ~Handed(u)'
      <4>1. ~Handed(u)
        BY <1>0, <3>6 DEF IInv, HandedOver
      <4>. QED BY <2>0, <3>3, <3>6, <4>1 DEF IInv, TypeOK, Handed
    <3>7. owner' # None /\ owner' = h
      BY <1>2, <2>0
    <3>. QED BY <2>0, <3>4, <3>5, <3>6, <3>7 DEF HandedOver
  <2>6. AlarmInWait'
    BY <1>0, <1>2, <2>0 DEF IInv, TypeOK, AlarmInWait, OnWait, Go, condVars, alarmVars, notifyVars
  <2>7. NotifyInv'
    BY <1>0, <1>2, <2>0 DEF IInv, TypeOK, NotifyInv, Holding, OnWait, Go, condVars, alarmVars,
       notifyVars
  <2>. QED BY <2>1, <2>2, <2>3, <2>4, <2>5, <2>6, <2>7 DEF IInv
<1>. QED BY <1>1, <1>2

\* The alarm is registered by a wait with a timeout.
LEMMA RegisterAlarmStep ==
  ASSUME IInv, NEW t \in Threads, RegisterAlarm(t)
  PROVE  IInv'
<1>. USE CondVarAssumption
<1>1. TypeOK'
  BY DEF IInv, TypeOK, RegisterAlarm, Go, lockVars, condVars, waitVars, notifyVars
<1>2. PlaceInv'
  BY DEF IInv, TypeOK, PlaceInv, Holding, RegisterAlarm, Go, lockVars, condVars, waitVars,
     notifyVars
<1>3. CodeInv'
  BY DEF IInv, TypeOK, CodeInv, RegisterAlarm, Go, lockVars, condVars, waitVars, notifyVars
<1>4. HoldersOwn'
  BY DEF IInv, TypeOK, HoldersOwn, RegisterAlarm, Go, lockVars, condVars, waitVars, notifyVars
<1>5. HandedOver'
  BY DEF IInv, TypeOK, HandedOver, Handed, RegisterAlarm, Go, lockVars, condVars, waitVars,
     notifyVars
<1>6. AlarmInWait'
  BY DEF IInv, TypeOK, CodeInv, AlarmInWait, RegisterAlarm, Go, lockVars, condVars, waitVars,
     notifyVars
<1>7. NotifyInv'
  BY DEF IInv, TypeOK, NotifyInv, Holding, RegisterAlarm, Go, lockVars, condVars, waitVars,
     notifyVars
<1>. QED BY <1>1, <1>2, <1>3, <1>4, <1>5, <1>6, <1>7 DEF IInv

\* A thread that is woken leaves park; with a lock, it was handed it.
LEMMA WokenStep ==
  ASSUME IInv, NEW t \in Threads, Woken(t)
  PROVE  IInv'
<1>. USE CondVarAssumption
<1>1. TypeOK'
  BY DEF IInv, TypeOK, Woken, Go, lockVars, condVars, waitVars, alarmVars, notifyVars
<1>2. PlaceInv'
  BY DEF IInv, TypeOK, PlaceInv, Holding, Woken, Go, lockVars, condVars, waitVars, alarmVars,
     notifyVars
<1>3. CodeInv'
  BY DEF IInv, TypeOK, CodeInv, Woken, Go, lockVars, condVars, waitVars, alarmVars, notifyVars
<1>4. HoldersOwn'
  BY DEF IInv, TypeOK, HoldersOwn, Woken, Go, lockVars, condVars, waitVars, alarmVars, notifyVars
<1>5. HandedOver'
  BY DEF IInv, TypeOK, HandedOver, Handed, Woken, Go, lockVars, condVars, waitVars, alarmVars,
     notifyVars
<1>6. AlarmInWait'
  BY DEF IInv, TypeOK, AlarmInWait, Woken, Go, lockVars, condVars, waitVars, alarmVars, notifyVars
<1>7. NotifyInv'
  BY DEF IInv, TypeOK, NotifyInv, Holding, Woken, Go, lockVars, condVars, waitVars, alarmVars,
     notifyVars
<1>. QED BY <1>1, <1>2, <1>3, <1>4, <1>5, <1>6, <1>7 DEF IInv

\* The alarm goes before the wait ends.
LEMMA UnregisterAlarmStep ==
  ASSUME IInv, NEW t \in Threads, UnregisterAlarm(t)
  PROVE  IInv'
<1>. USE CondVarAssumption
<1>1. TypeOK'
  BY DEF IInv, TypeOK, UnregisterAlarm, Go, lockVars, condVars, waitVars, notifyVars
<1>2. PlaceInv'
  BY DEF IInv, TypeOK, PlaceInv, Holding, UnregisterAlarm, Go, lockVars, condVars, waitVars,
     notifyVars
<1>3. CodeInv'
  BY DEF IInv, TypeOK, CodeInv, UnregisterAlarm, Go, lockVars, condVars, waitVars, notifyVars
<1>4. HoldersOwn'
  BY DEF IInv, TypeOK, HoldersOwn, UnregisterAlarm, Go, lockVars, condVars, waitVars, notifyVars
<1>5. HandedOver'
  BY DEF IInv, TypeOK, HandedOver, Handed, UnregisterAlarm, Go, lockVars, condVars, waitVars,
     notifyVars
<1>6. AlarmInWait'
  BY DEF IInv, TypeOK, AlarmInWait, UnregisterAlarm, Go, lockVars, condVars, waitVars, notifyVars
<1>7. NotifyInv'
  BY DEF IInv, TypeOK, NotifyInv, Holding, UnregisterAlarm, Go, lockVars, condVars, waitVars,
     notifyVars
<1>. QED BY <1>1, <1>2, <1>3, <1>4, <1>5, <1>6, <1>7 DEF IInv

\* The recursion count comes back; the lock was handed to this thread.
LEMMA OnWakeupStep ==
  ASSUME IInv, NEW t \in Threads, OnWakeup(t)
  PROVE  IInv'
<1>. USE CondVarAssumption
<1>1. TypeOK'
  <2>1. recursion[t] \in 0 .. MaxDepth /\ 0 \in 0 .. MaxDepth
    BY DEF IInv, TypeOK
  <2>2. recursion_count' \in 0 .. MaxDepth /\ depth' \in [Threads -> 0 .. MaxDepth]
    BY <2>1 DEF IInv, TypeOK, OnWakeup
  <2>3. recursion' \in [Threads -> 0 .. MaxDepth] /\ link_node' \in [Threads -> {"null", "live", "dangling"}]
    BY <2>1 DEF IInv, TypeOK, OnWakeup
  <2>. QED BY <2>2, <2>3 DEF IInv, TypeOK, OnWakeup, Go, condVars, alarmVars, notifyVars
<1>2. PlaceInv'
  BY DEF IInv, TypeOK, PlaceInv, Holding, OnWakeup, Go, MayNotify, condVars, alarmVars, notifyVars
<1>3. CodeInv'
  BY DEF IInv, TypeOK, CodeInv, OnWakeup, Go, MayNotify, condVars, alarmVars, notifyVars
<1>4. HoldersOwn'
  BY DEF IInv, TypeOK, CodeInv, HoldersOwn, HandedOver, Handed, OnWakeup, Go, MayNotify, condVars,
     alarmVars, notifyVars
<1>5. HandedOver'
  BY DEF IInv, TypeOK, CodeInv, HandedOver, Handed, OnWakeup, Go, MayNotify, condVars, alarmVars,
     notifyVars
<1>6. AlarmInWait'
  BY DEF IInv, TypeOK, AlarmInWait, OnWakeup, Go, MayNotify, condVars, alarmVars, notifyVars
<1>7. NotifyInv'
  BY DEF IInv, TypeOK, NotifyInv, Holding, OnWakeup, Go, MayNotify, condVars, alarmVars,
     notifyVars
<1>. QED BY <1>1, <1>2, <1>3, <1>4, <1>5, <1>6, <1>7 DEF IInv

\* The first waiter goes into the hands of a notifier.
LEMMA NotifyFirstStep ==
  ASSUME IInv, NEW n \in Threads, Notify(n)
  PROVE  IInv'
<1>. USE CondVarAssumption
<1>. DEFINE u == Head(waiters)
<1>0. /\ u \in Threads /\ u \in ToSet(waiters)
      /\ waiters' \in Seq(Threads) /\ IsInjective(waiters')
      /\ ToSet(waiters') = ToSet(waiters) \ {u}
      /\ Len(waiters') = Len(waiters) - 1 /\ Len(waiters) \in Nat \ {0}
  BY TailSet DEF IInv, TypeOK, PlaceInv, Notify
<1>1. count' \in Nat /\ count' = Len(waiters')
  BY <1>0 DEF IInv, PlaceInv, Notify
<1>2. /\ pc[n] = "run" /\ MayNotify(n)
      /\ n \in Notifiers /\ \A m \in Notifiers : popped[m] = None
  BY DEF Notify, Running, CondFree, Notifiers
<1>3. /\ popped' = [popped EXCEPT ![n] = u]
      /\ signalled' = [signalled EXCEPT ![u] = TRUE]
      /\ all' \in [Notifiers -> BOOLEAN] /\ all'[Alarm] = all[Alarm]
      /\ UNCHANGED <<owner, recursion_count, blocked_threads, wait_count, pc, depth, withLock,
                     timed, recursion, link_node, permit, alarms, firing>>
  BY DEF IInv, TypeOK, Notify, Notifiers, lockVars, alarmVars
<1>. HIDE DEF u
<1>4. IInv'

  <2>1. TypeOK'
    BY <1>0, <1>1, <1>2, <1>3 DEF IInv, TypeOK, MayNotify
  <2>2. PlaceInv'
    <3>1. \A x \in Threads : ~Holding(x) /\ (Holding(x)' <=> x = u)
      BY <1>0, <1>2, <1>3 DEF IInv, TypeOK, Holding
    <3>2. \A m \in Notifiers : popped'[m] # None => m = n
      BY <1>2, <1>3 DEF IInv, TypeOK
    <3>3. /\ u \notin ToSet(blocked_threads) /\ pc[u] # "blocked"
          /\ pc[u] \in {"queued", "register", "parked"} /\ ~permit[u]
      BY <1>0 DEF IInv, TypeOK, PlaceInv
    <3>4. ASSUME NEW x \in Threads
          PROVE  (x \in ToSet(blocked_threads) \/ x \in ToSet(waiters') \/ Holding(x)')
                   <=> (x \in ToSet(blocked_threads) \/ x \in ToSet(waiters) \/ Holding(x))
      BY <1>0, <3>1
    <3>5. IsInjective(blocked_threads) /\ IsInjective(waiters') /\ wait_count = Len(blocked_threads)
      BY <1>0 DEF IInv, PlaceInv
    <3>6. \A a, b \in Notifiers : popped'[a] # None /\ popped'[b] # None => a = b
      BY <3>2
    <3>7. /\ ToSet(blocked_threads) \cap ToSet(waiters') = {}
          /\ \A x \in Threads : Holding(x)' => x \notin ToSet(blocked_threads) \cup ToSet(waiters')
      BY <1>0, <3>1, <3>3 DEF IInv, PlaceInv
    <3>8. \A x \in Threads :
            (x \in ToSet(blocked_threads) \/ x \in ToSet(waiters') \/ Holding(x)')
              <=> (pc[x] \in {"blocked", "queued", "register", "parked"} /\ ~permit[x])
      BY <3>4 DEF IInv, PlaceInv
    <3>9. /\ \A x \in Threads : x \in ToSet(blocked_threads) => pc[x] = "blocked" \/ withLock[x]
          /\ \A x \in Threads : x \in ToSet(waiters') \/ Holding(x)' => pc[x] # "blocked"
      BY <1>0, <3>1, <3>3 DEF IInv, PlaceInv
    <3>. QED BY <1>1, <1>3, <3>5, <3>6, <3>7, <3>8, <3>9 DEF PlaceInv
  <2>3. CodeInv'
    <3>1. pc[u] \notin {"run", "blocked"} /\ u \notin ToSet(waiters')
      BY <1>0 DEF IInv, TypeOK, PlaceInv
    <3>2. ASSUME NEW x \in Threads, signalled'[x]
          PROVE  pc[x] \notin {"run", "blocked"} /\ x \notin ToSet(waiters')
      <4>1. CASE x = u
        BY <3>1, <4>1
      <4>2. CASE x # u
        BY <1>0, <1>3, <3>2, <4>2 DEF IInv, TypeOK, CodeInv
      <4>. QED BY <4>1, <4>2
    <3>3. ASSUME NEW x \in Threads
          PROVE  /\ permit[x] => pc[x] \in {"blocked", "register", "parked"}
                 /\ pc[x] = "blocked" => depth[x] = 0
                 /\ pc[x] = "queued" => withLock[x] /\ depth[x] > 0
                 /\ pc[x] \in {"register", "woken"} => timed[x]
                 /\ withLock[x] => pc[x] \notin {"run", "blocked"}
                 /\ withLock[x] /\ pc[x] # "queued" =>
                      depth[x] = 0 /\ recursion[x] > 0 /\ link_node[x] = "live"
      BY DEF IInv, CodeInv
    <3>. QED BY <1>3, <3>2, <3>3 DEF CodeInv
  <2>4. HoldersOwn'
    BY <1>0, <1>1, <1>2, <1>3 DEF IInv, TypeOK, HoldersOwn, MayNotify
  <2>5. HandedOver'
    BY <1>0, <1>1, <1>2, <1>3 DEF IInv, TypeOK, HandedOver, Handed, MayNotify
  <2>6. AlarmInWait'
    BY <1>0, <1>1, <1>2, <1>3 DEF IInv, TypeOK, AlarmInWait, MayNotify
  <2>7. NotifyInv'
    BY <1>3, n # Alarm DEF IInv, TypeOK, NotifyInv
  <2>. QED BY <2>1, <2>2, <2>3, <2>4, <2>5, <2>6, <2>7 DEF IInv
<1>. QED BY <1>4

\* An alarm goes off.
LEMMA ExpireStep ==
  ASSUME IInv, NEW t \in Threads, Expire(t)
  PROVE  IInv'
<1>. USE CondVarAssumption
<1>1. TypeOK'
  BY DEF IInv, TypeOK, Expire, lockVars, condVars, waitVars, notifyVars
<1>2. PlaceInv'
  BY DEF IInv, TypeOK, PlaceInv, Holding, Expire, lockVars, condVars, waitVars, notifyVars
<1>3. CodeInv'
  BY DEF IInv, TypeOK, CodeInv, Expire, lockVars, condVars, waitVars, notifyVars
<1>4. HoldersOwn'
  BY DEF IInv, TypeOK, HoldersOwn, Expire, lockVars, condVars, waitVars, notifyVars
<1>5. HandedOver'
  BY DEF IInv, TypeOK, HandedOver, Handed, Expire, lockVars, condVars, waitVars, notifyVars
<1>6. AlarmInWait'
  BY DEF IInv, TypeOK, AlarmInWait, Expire, lockVars, condVars, waitVars, notifyVars
<1>7. NotifyInv'
  BY DEF IInv, TypeOK, NotifyInv, Holding, Expire, lockVars, condVars, waitVars, notifyVars
<1>. QED BY <1>1, <1>2, <1>3, <1>4, <1>5, <1>6, <1>7 DEF IInv

\* The timed-out thread goes into the hands of the alarm if it still waits.
LEMMA TimeoutStep ==
  ASSUME IInv, Timeout
  PROVE  IInv'
<1>. USE CondVarAssumption
<1>. DEFINE t == firing
<1>0. t \in Threads /\ \A n \in Notifiers : popped[n] = None
  BY DEF IInv, TypeOK, Timeout, CondFree
<1>1. CASE t \in ToSet(waiters)
  <2>0. /\ waiters' \in Seq(Threads) /\ IsInjective(waiters')
        /\ ToSet(waiters') = ToSet(waiters) \ {t}
        /\ count' \in Nat /\ count' = Len(waiters')
        /\ signalled' = [signalled EXCEPT ![t] = FALSE]
        /\ popped' = [popped EXCEPT ![Alarm] = t]
        /\ firing' = t
    <3>1. PICK i \in DOMAIN waiters :
            /\ waiters[i] = t
            /\ waiters' = RemoveAt(waiters, i)
            /\ count' = count - 1
            /\ signalled' = [signalled EXCEPT ![t] = FALSE]
            /\ popped' = [popped EXCEPT ![Alarm] = t]
            /\ firing' = t
      BY <1>1 DEF Timeout
    <3>2. /\ waiters' \in Seq(Threads) /\ IsInjective(waiters')
          /\ ToSet(waiters') = ToSet(waiters) \ {t}
          /\ Len(waiters') = Len(waiters) - 1
      BY <3>1, RemoveSet DEF IInv, TypeOK, PlaceInv
    <3>3. Len(waiters') \in Nat
      BY <3>2, LenProperties
    <3>. QED BY <3>1, <3>2, <3>3 DEF IInv, PlaceInv
  <2>. HIDE DEF t
  <2>00. /\ t = firing /\ alarms' = alarms
        /\ UNCHANGED <<lockVars, pc, depth, withLock, timed, recursion, link_node, permit, all>>
    BY DEF t, Timeout
  <2>1. TypeOK'
    BY <1>0, <1>1, <2>0, <2>00 DEF IInv, TypeOK, lockVars, Notifiers
  <2>2. PlaceInv'
    BY <1>0, <1>1, <2>0, <2>00 DEF IInv, TypeOK, PlaceInv, Holding, lockVars, Notifiers
  <2>3. CodeInv'
    BY <1>0, <1>1, <2>0, <2>00 DEF IInv, TypeOK, CodeInv, lockVars, Notifiers
  <2>4. HoldersOwn'
    BY <1>0, <1>1, <2>0, <2>00 DEF IInv, TypeOK, HoldersOwn, lockVars, Notifiers
  <2>5. HandedOver'
    BY <1>0, <1>1, <2>0, <2>00 DEF IInv, TypeOK, HandedOver, Handed, lockVars, Notifiers
  <2>6. AlarmInWait'
    BY <1>0, <1>1, <2>0, <2>00 DEF IInv, TypeOK, AlarmInWait, lockVars, Notifiers
  <2>7. NotifyInv'
    <3>1. popped \in [Notifiers -> Threads \cup {None}] /\ Alarm \in Notifiers /\ ~all[Alarm]
      BY DEF IInv, TypeOK, NotifyInv, Notifiers
    <3>2. popped'[Alarm] = t /\ all' = all
      BY <2>0, <2>00, <3>1
    <3>. QED BY <2>0, <3>1, <3>2 DEF NotifyInv
  <2>. QED BY <2>1, <2>2, <2>3, <2>4, <2>5, <2>6, <2>7 DEF IInv
<1>2. CASE t \notin ToSet(waiters)
  <2>0. /\ firing' = None
        /\ UNCHANGED <<condVars, signalled, popped>>
        /\ UNCHANGED <<lockVars, pc, depth, withLock, timed, recursion, link_node, permit, alarms, all>>
    BY <1>2 DEF Timeout, ToSet
  <2>1. TypeOK'
    BY <2>0 DEF IInv, TypeOK, lockVars, condVars
  <2>2. PlaceInv'
    BY <2>0 DEF IInv, TypeOK, PlaceInv, Holding, lockVars, condVars
  <2>3. CodeInv'
    BY <2>0 DEF IInv, TypeOK, CodeInv, lockVars, condVars
  <2>4. HoldersOwn'
    BY <2>0 DEF IInv, TypeOK, HoldersOwn, lockVars, condVars
  <2>5. HandedOver'
    BY <2>0 DEF IInv, TypeOK, HandedOver, Handed, lockVars, condVars
  <2>6. AlarmInWait'
    BY <2>0 DEF IInv, TypeOK, AlarmInWait, lockVars, condVars
  <2>7. NotifyInv'
    BY <1>0, <2>0 DEF IInv, NotifyInv, Notifiers
  <2>. QED BY <2>1, <2>2, <2>3, <2>4, <2>5, <2>6, <2>7 DEF IInv
<1>. QED BY <1>1, <1>2

\* A thread that waits without the lock is woken.
LEMMA UnparkPoppedStep ==
  ASSUME IInv, NEW n \in Notifiers, UnparkPopped(n)
  PROVE  IInv'
<1>. USE CondVarAssumption
<1>. DEFINE t == popped[n]
<1>0. /\ t \in Threads /\ ~withLock[t] /\ Holding(t)
      /\ t \notin ToSet(blocked_threads) /\ t \notin ToSet(waiters)
      /\ \A m \in Notifiers : popped[m] # None => m = n
      /\ pc[t] \in {"queued", "register", "parked"} /\ ~permit[t]
  <2>1. t \in Threads /\ ~withLock[t] /\ popped[n] # None
    BY DEF IInv, TypeOK, UnparkPopped
  <2>2. Holding(t)
    BY DEF Holding
  <2>. QED BY <2>1, <2>2 DEF IInv, PlaceInv
<1>. DEFINE Passed ==
         /\ permit' = [permit EXCEPT ![t] = TRUE]
         /\ UNCHANGED lockVars
<1>1. Passed
  BY DEF UnparkPopped
<1>2. UNCHANGED <<pc, depth, withLock, timed, recursion, link_node, alarms>>
  BY DEF UnparkPopped
<1>3. CASE popped'[n] = None
  <2>0. /\ popped' = [popped EXCEPT ![n] = None]
        /\ all' = [all EXCEPT ![n] = FALSE]
        /\ firing' = IF n = Alarm THEN None ELSE firing
        /\ UNCHANGED <<waiters, count, signalled>>
    BY <1>0, <1>3, TakeNextFacts DEF IInv, TypeOK, UnparkPopped
  <2>. HIDE DEF t
  <2>00. popped[n] = t
    BY DEF t
  <2>1. TypeOK'
    BY <1>0, <1>1, <1>2, <2>0, <2>00 DEF IInv, TypeOK, lockVars
  <2>2. PlaceInv'
    BY <1>0, <1>1, <1>2, <2>0, <2>00 DEF IInv, TypeOK, PlaceInv, Holding, lockVars
  <2>3. CodeInv'
    BY <1>0, <1>1, <1>2, <2>0, <2>00 DEF IInv, TypeOK, CodeInv, lockVars
  <2>4. HoldersOwn'
    BY <1>0, <1>1, <1>2, <2>0, <2>00 DEF IInv, TypeOK, HoldersOwn, lockVars
  <2>5. HandedOver'
    BY <1>0, <1>1, <1>2, <2>0, <2>00 DEF IInv, TypeOK, HandedOver, Handed, lockVars
  <2>6. AlarmInWait'
    BY <1>0, <1>1, <1>2, <2>0, <2>00 DEF IInv, TypeOK, AlarmInWait, lockVars
  <2>7. NotifyInv'
    BY <2>0 DEF IInv, TypeOK, NotifyInv, Notifiers
  <2>. QED BY <2>1, <2>2, <2>3, <2>4, <2>5, <2>6, <2>7 DEF IInv
<1>4. CASE popped'[n] # None
  <2>0. PICK u \in Threads :
          /\ all[n] /\ u \in ToSet(waiters)
          /\ popped' = [popped EXCEPT ![n] = u]
          /\ signalled' = [signalled EXCEPT ![u] = TRUE]
          /\ waiters' \in Seq(Threads) /\ IsInjective(waiters')
          /\ ToSet(waiters') = ToSet(waiters) \ {u}
          /\ count' \in Nat /\ count' = Len(waiters')
          /\ UNCHANGED <<all, firing>>
    BY <1>0, <1>4, TakeNextFacts DEF IInv, TypeOK, UnparkPopped
  <2>. HIDE DEF t
  <2>00. popped[n] = t
    BY DEF t
  <2>1. TypeOK'
    BY <1>0, <1>1, <1>2, <2>0, <2>00 DEF IInv, TypeOK, lockVars, Notifiers
  <2>2. PlaceInv'
    BY <1>0, <1>1, <1>2, <2>0, <2>00 DEF IInv, TypeOK, PlaceInv, Holding, lockVars, Notifiers
  <2>3. CodeInv'
    BY <1>0, <1>1, <1>2, <2>0, <2>00 DEF IInv, TypeOK, PlaceInv, Holding, CodeInv, lockVars,
       Notifiers
  <2>4. HoldersOwn'
    BY <1>0, <1>1, <1>2, <2>0, <2>00 DEF IInv, TypeOK, HoldersOwn, lockVars, Notifiers
  <2>5. HandedOver'
    BY <1>0, <1>1, <1>2, <2>0, <2>00 DEF IInv, TypeOK, HandedOver, Handed, lockVars, Notifiers
  <2>6. AlarmInWait'
    BY <1>0, <1>1, <1>2, <2>0, <2>00 DEF IInv, TypeOK, AlarmInWait, lockVars, Notifiers
  <2>7. NotifyInv'
    BY <1>0, <1>1, <1>2, <2>0, <2>00 DEF IInv, TypeOK, NotifyInv, Holding, lockVars, Notifiers
  <2>. QED BY <2>1, <2>2, <2>3, <2>4, <2>5, <2>6, <2>7 DEF IInv
<1>. QED BY <1>3, <1>4

\* A thread that waits with the lock is queued for it or handed it.
LEMMA OnNotifyStep ==
  ASSUME IInv, NEW n \in Notifiers, OnNotify(n)
  PROVE  IInv'
<1>. USE CondVarAssumption
<1>. DEFINE t == popped[n]
<1>0. /\ t \in Threads /\ withLock[t] /\ Holding(t)
      /\ t \notin ToSet(blocked_threads) /\ t \notin ToSet(waiters)
      /\ \A m \in Notifiers : popped[m] # None => m = n
      /\ pc[t] \in {"queued", "register", "parked"} /\ ~permit[t]
  <2>1. t \in Threads /\ withLock[t] /\ popped[n] # None
    BY DEF IInv, TypeOK, OnNotify
  <2>2. Holding(t)
    BY DEF Holding
  <2>. QED BY <2>1, <2>2 DEF IInv, PlaceInv
<1>. DEFINE Passed ==
         \/ /\ owner # None /\ owner' = owner /\ UNCHANGED <<recursion_count, permit>>
            /\ blocked_threads' \in Seq(Threads) /\ IsInjective(blocked_threads')
            /\ ToSet(blocked_threads') = ToSet(blocked_threads) \cup {t}
            /\ wait_count' \in Nat /\ wait_count' = Len(blocked_threads')
         \/ /\ owner = None /\ owner' = t /\ recursion_count' = 1
            /\ permit' = [permit EXCEPT ![t] = TRUE]
            /\ UNCHANGED <<blocked_threads, wait_count>>
<1>1. Passed
  <2>1. CASE owner = None
    BY <2>1 DEF OnNotify
  <2>2. CASE owner # None
    <3>1. blocked_threads' = Append(blocked_threads, t) /\ wait_count' = wait_count + 1
      BY <2>2 DEF OnNotify
    <3>2. /\ blocked_threads' \in Seq(Threads) /\ IsInjective(blocked_threads')
          /\ ToSet(blocked_threads') = ToSet(blocked_threads) \cup {t}
          /\ Len(blocked_threads') = Len(blocked_threads) + 1
      BY <1>0, <3>1, AppendSet DEF IInv, TypeOK, PlaceInv
    <3>3. wait_count' \in Nat /\ wait_count' = Len(blocked_threads')
      BY <3>1, <3>2 DEF IInv, TypeOK, PlaceInv
    <3>. QED BY <2>2, <3>2, <3>3 DEF OnNotify
  <2>. QED BY <2>1, <2>2
<1>2. UNCHANGED <<pc, depth, withLock, timed, recursion, link_node, alarms>>
  BY DEF OnNotify
<1>3. CASE popped'[n] = None
  <2>0. /\ popped' = [popped EXCEPT ![n] = None]
        /\ all' = [all EXCEPT ![n] = FALSE]
        /\ firing' = IF n = Alarm THEN None ELSE firing
        /\ UNCHANGED <<waiters, count, signalled>>
    BY <1>0, <1>3, TakeNextFacts DEF IInv, TypeOK, OnNotify
  <2>. HIDE DEF t
  <2>00. popped[n] = t
    BY DEF t
  <2>1. TypeOK'
    <3>1. owner' \in Threads \cup {None} /\ recursion_count' \in 0 .. MaxDepth
      BY <1>0, <1>1 DEF IInv, TypeOK
    <3>2. blocked_threads' \in Seq(Threads) /\ wait_count' \in Nat /\ permit' \in [Threads -> BOOLEAN]
      BY <1>0, <1>1 DEF IInv, TypeOK
    <3>. QED BY <1>2, <2>0, <3>1, <3>2 DEF IInv, TypeOK
  <2>2. PlaceInv'
    BY <1>0, <1>1, <1>2, <2>0, <2>00 DEF IInv, TypeOK, PlaceInv, Holding
  <2>3. CodeInv'
    BY <1>0, <1>1, <1>2, <2>0, <2>00 DEF IInv, TypeOK, PlaceInv, Holding, CodeInv, HoldersOwn,
       HandedOver, Handed
  <2>4. HoldersOwn'
    BY <1>0, <1>1, <1>2, <2>0, <2>00 DEF IInv, TypeOK, HoldersOwn
  <2>5. HandedOver'
    BY <1>0, <1>1, <1>2, <2>0, <2>00 DEF IInv, TypeOK, CodeInv, HandedOver, Handed
  <2>6. AlarmInWait'
    BY <1>0, <1>1, <1>2, <2>0, <2>00 DEF IInv, TypeOK, AlarmInWait
  <2>7. NotifyInv'
    BY <2>0 DEF IInv, TypeOK, NotifyInv, Notifiers
  <2>. QED BY <2>1, <2>2, <2>3, <2>4, <2>5, <2>6, <2>7 DEF IInv
<1>4. CASE popped'[n] # None
  <2>0. PICK u \in Threads :
          /\ all[n] /\ u \in ToSet(waiters)
          /\ popped' = [popped EXCEPT ![n] = u]
          /\ signalled' = [signalled EXCEPT ![u] = TRUE]
          /\ waiters' \in Seq(Threads) /\ IsInjective(waiters')
          /\ ToSet(waiters') = ToSet(waiters) \ {u}
          /\ count' \in Nat /\ count' = Len(waiters')
          /\ UNCHANGED <<all, firing>>
    BY <1>0, <1>4, TakeNextFacts DEF IInv, TypeOK, OnNotify
  <2>. HIDE DEF t
  <2>00. popped[n] = t
    BY DEF t
  <2>1. TypeOK'
    <3>1. owner' \in Threads \cup {None} /\ recursion_count' \in 0 .. MaxDepth
      BY <1>0, <1>1 DEF IInv, TypeOK
    <3>2. blocked_threads' \in Seq(Threads) /\ wait_count' \in Nat /\ permit' \in [Threads -> BOOLEAN]
      BY <1>0, <1>1 DEF IInv, TypeOK
    <3>. QED BY <1>2, <2>0, <3>1, <3>2 DEF IInv, TypeOK, Notifiers
  <2>2. PlaceInv'
    <3>1. ASSUME NEW x \in Threads
          PROVE  (Holding(x) <=> x = t) /\ (Holding(x)' <=> x = u)
      BY <1>0, <2>0, <2>00 DEF IInv, TypeOK, Holding
    <3>2. \A a, b \in Notifiers : popped'[a] # None /\ popped'[b] # None => a = b
      BY <1>0, <2>0 DEF IInv, TypeOK
    <3>0. u # t /\ u \notin ToSet(blocked_threads) /\ pc[u] # "blocked"
      BY <1>0, <2>0 DEF IInv, PlaceInv
    <3>00. ASSUME NEW x \in ToSet(waiters)
           PROVE  x \notin ToSet(blocked_threads) /\ x # t
      BY <1>0 DEF IInv, PlaceInv
    <3>3. /\ u # t /\ u \notin ToSet(blocked_threads) /\ pc[u] # "blocked"
          /\ \A x \in Threads : x \in ToSet(waiters) => x \notin ToSet(blocked_threads) /\ x # t
      BY <3>0, <3>00
    <3>4. ASSUME NEW x \in Threads
          PROVE  (x \in ToSet(blocked_threads) \/ x \in ToSet(waiters) \/ x = t)
                   <=> (pc[x] \in {"blocked", "queued", "register", "parked"} /\ ~permit[x])
      BY <3>1 DEF IInv, PlaceInv
    <3>5. /\ \A x \in Threads : x \in ToSet(blocked_threads) => pc[x] = "blocked" \/ withLock[x]
          /\ \A x \in Threads : x \in ToSet(waiters') \/ x = u => pc[x] # "blocked"
      BY <2>0, <3>3 DEF IInv, PlaceInv
    <3>6. IsInjective(blocked_threads') /\ wait_count' = Len(blocked_threads')
      BY <1>1 DEF IInv, PlaceInv
    <3>7. ToSet(blocked_threads') \cap ToSet(waiters') = {} /\ u \notin ToSet(blocked_threads') \cup ToSet(waiters')
      BY <1>1, <2>0, <3>3, <3>00
    <3>8. ASSUME NEW x \in Threads
          PROVE  (x \in ToSet(blocked_threads') \/ x \in ToSet(waiters') \/ x = u)
                   <=> (pc'[x] \in {"blocked", "queued", "register", "parked"} /\ ~permit'[x])
      <4>1. CASE owner # None
        BY <1>1, <1>2, <2>0, <3>4, <4>1
      <4>2. CASE owner = None
        <5>1. permit' = [permit EXCEPT ![t] = TRUE] /\ blocked_threads' = blocked_threads
          BY <1>1, <4>2
        <5>2. CASE x = t
          BY <1>0, <2>0, <3>3, <5>1, <5>2 DEF IInv, TypeOK
        <5>3. CASE x # t
          BY <1>2, <2>0, <3>4, <5>1, <5>3 DEF IInv, TypeOK
        <5>. QED BY <5>2, <5>3
      <4>. QED BY <4>1, <4>2
    <3>9. \A x \in Threads : x \in ToSet(blocked_threads') => pc'[x] = "blocked" \/ withLock'[x]
      BY <1>0, <1>1, <1>2, <3>5
    <3>. QED BY <1>2, <2>0, <3>1, <3>2, <3>5, <3>6, <3>7, <3>8, <3>9 DEF PlaceInv
  <2>3. CodeInv'
    BY <1>0, <1>1, <1>2, <2>0, <2>00 DEF IInv, TypeOK, PlaceInv, Holding, CodeInv, HoldersOwn,
       HandedOver, Handed, Notifiers
  <2>4. HoldersOwn'
    BY <1>0, <1>1, <1>2, <2>0, <2>00 DEF IInv, TypeOK, HoldersOwn, Notifiers
  <2>5. HandedOver'
    BY <1>0, <1>1, <1>2, <2>0, <2>00 DEF IInv, TypeOK, CodeInv, HandedOver, Handed, Notifiers
  <2>6. AlarmInWait'
    BY <1>0, <1>1, <1>2, <2>0, <2>00 DEF IInv, TypeOK, AlarmInWait, Notifiers
  <2>7. NotifyInv'
    BY <1>0, <1>1, <1>2, <2>0, <2>00 DEF IInv, TypeOK, NotifyInv, Holding, Notifiers
  <2>. QED BY <2>1, <2>2, <2>3, <2>4, <2>5, <2>6, <2>7 DEF IInv
<1>. QED BY <1>3, <1>4

\* Nothing changes.
LEMMA StutterStep == IInv /\ UNCHANGED vars => IInv'
<1>. SUFFICES ASSUME IInv, UNCHANGED vars PROVE IInv'
  OBVIOUS
<1>. USE DEF vars, lockVars, condVars, waitVars, alarmVars, notifyVars
<1>1. TypeOK' /\ PlaceInv' /\ CodeInv' /\ HoldersOwn'
  BY DEF IInv, TypeOK, PlaceInv, Holding, CodeInv, HoldersOwn
<1>2. HandedOver' /\ AlarmInWait' /\ NotifyInv'
  BY DEF IInv, HandedOver, Handed, AlarmInWait, NotifyInv, Holding
<1>. QED BY <1>1, <1>2 DEF IInv

\* Nobody waits, and the lock is free.
LEMMA Initial == Init => IInv
<1>. SUFFICES ASSUME Init PROVE IInv
  OBVIOUS
<1>. USE CondVarAssumption, EmptyQueue
<1>1. TypeOK
  <2>1. 0 \in 0 .. MaxDepth /\ <<>> \in Seq(Threads)
    OBVIOUS
  <2>. QED BY <2>1 DEF Init, TypeOK
<1>2. PlaceInv
  <2>1. \A t \in Threads : ~Holding(t)
    BY DEF Init, Holding
  <2>. QED BY <2>1 DEF Init, PlaceInv
<1>3. CodeInv /\ HoldersOwn /\ HandedOver
  BY DEF Init, CodeInv, HoldersOwn, HandedOver, Handed
<1>4. AlarmInWait /\ NotifyInv
  BY DEF Init, AlarmInWait, NotifyInv, Notifiers
<1>. QED BY <1>1, <1>2, <1>3, <1>4 DEF IInv

-----------------------------------------------------------------------------
(***************************************************************************)
(* Theorems.                                                               *)
(***************************************************************************)
\* The invariant holds in every reachable state, for any threads and depths,
\* and whether or not notifiers hold the lock.
THEOREM Inductive == Spec => []IInv
<1>1. IInv /\ [Next]_vars => IInv'
  <2>. SUFFICES ASSUME IInv, Next PROVE IInv'
    BY StutterStep
  <2>1. CASE \E t \in Threads : Acquire(t) \/ LockBlocks(t) \/ Unlock(t) \/ Enqueue(t)
    BY <2>1, AcquireStep, LockBlocksStep, UnlockStep, EnqueueStep
  <2>2. CASE \E t \in Threads : WaitStep(t)
    <3>1. PICK t \in Threads : WaitStep(t)
      BY <2>2
    <3>. QED BY <3>1, LockReturnsStep, OnWaitStep, RegisterAlarmStep, WokenStep, UnregisterAlarmStep,
                OnWakeupStep DEF WaitStep
  <2>3. CASE \E t \in Threads : Notify(t) \/ Expire(t)
    BY <2>3, NotifyFirstStep, ExpireStep
  <2>4. CASE Timeout
    BY <2>4, TimeoutStep
  <2>5. CASE \E n \in Notifiers : NotifyStep(n)
    BY <2>5, UnparkPoppedStep, OnNotifyStep DEF NotifyStep
  <2>. QED BY <2>1, <2>2, <2>3, <2>4, <2>5 DEF Next
<1>. QED BY Initial, <1>1, PTL DEF Spec

\* The state has its type: the counters of the lock and of the condition
\* variable never wrap around below zero.
THEOREM TypeCorrect == Spec => []TypeOK
<1>1. IInv => TypeOK
  BY DEF IInv
<1>. QED BY Inductive, <1>1, PTL

\* Mutual exclusion of blocking_lock: two clients never hold it at once, and
\* a wait returns with the lock held as deeply as before.
THEOREM MutualExclusion == Spec => []HoldersOwn
<1>1. IInv => HoldersOwn
  BY DEF IInv
<1>. QED BY Inductive, <1>1, PTL

\* The lock is never lost: free with nobody waiting for it, held, or handed to
\* one thread that has been woken.
THEOREM LockNeverLost == Spec => []HandedOver
<1>1. IInv => HandedOver
  BY DEF IInv
<1>. QED BY Inductive, <1>1, PTL

\* The timeout handler never touches a wait that has returned.
THEOREM TimeoutsInTime == Spec => []AlarmInWait
<1>1. IInv => AlarmInWait
  BY DEF IInv
<1>. QED BY Inductive, <1>1, PTL

\* An element of a queue without duplicates is found once.
LEMMA CountInQueue ==
  ASSUME NEW S, NEW q \in Seq(S), IsInjective(q), NEW t
  PROVE  Cardinality({i \in DOMAIN q : q[i] = t}) = IF t \in ToSet(q) THEN 1 ELSE 0
<1>1. CASE t \in ToSet(q)
  <2>1. PICK i \in DOMAIN q : q[i] = t
    BY <1>1 DEF ToSet
  <2>2. {j \in DOMAIN q : q[j] = t} = {i}
    BY <2>1 DEF IsInjective
  <2>. QED BY <1>1, <2>2, FS_Singleton
<1>2. CASE t \notin ToSet(q)
  <2>1. {j \in DOMAIN q : q[j] = t} = {}
    BY <1>2 DEF ToSet
  <2>. QED BY <1>2, <2>1, FS_EmptySet
<1>. QED BY <1>1, <1>2

\* At most one notifier has a thread in its hands.
LEMMA CountInHands ==
  ASSUME IInv, NEW t \in Threads
  PROVE  Cardinality({n \in Notifiers : popped[n] = t}) = IF Holding(t) THEN 1 ELSE 0
<1>. USE CondVarAssumption
<1>1. CASE Holding(t)
  <2>1. PICK n \in Notifiers : popped[n] = t
    BY <1>1 DEF Holding
  <2>2. {m \in Notifiers : popped[m] = t} = {n}
    BY <2>1 DEF IInv, PlaceInv
  <2>. QED BY <1>1, <2>2, FS_Singleton
<1>2. CASE ~Holding(t)
  <2>1. {m \in Notifiers : popped[m] = t} = {}
    BY <1>2 DEF Holding
  <2>. QED BY <1>2, <2>1, FS_EmptySet
<1>. QED BY <1>1, <1>2

\* Nobody who is blocked is forgotten, or can be woken twice: a signal and a
\* timeout never both get hold of a thread.
THEOREM BlockedFoundOnce == Spec => []FoundOnce
<1>1. ASSUME IInv PROVE FoundOnce
  <2>1. ASSUME NEW t \in Threads
        PROVE  Places(t) = IF pc[t] \in {"blocked", "queued", "register", "parked"} /\ ~permit[t] THEN 1 ELSE 0
    <3>1. /\ Cardinality({i \in DOMAIN blocked_threads : blocked_threads[i] = t})
               = IF t \in ToSet(blocked_threads) THEN 1 ELSE 0
          /\ Cardinality({i \in DOMAIN waiters : waiters[i] = t})
               = IF t \in ToSet(waiters) THEN 1 ELSE 0
      <4>1. /\ blocked_threads \in Seq(Threads) /\ IsInjective(blocked_threads)
            /\ waiters \in Seq(Threads) /\ IsInjective(waiters)
        BY <1>1 DEF IInv, TypeOK, PlaceInv
      <4>. QED BY <4>1, CountInQueue, Zenon
    <3>2. Cardinality({n \in Notifiers : popped[n] = t}) = IF Holding(t) THEN 1 ELSE 0
      BY <1>1, CountInHands
    <3>3. /\ ~(t \in ToSet(blocked_threads) /\ t \in ToSet(waiters))
          /\ Holding(t) => t \notin ToSet(blocked_threads) /\ t \notin ToSet(waiters)
          /\ (t \in ToSet(blocked_threads) \/ t \in ToSet(waiters) \/ Holding(t))
               <=> (pc[t] \in {"blocked", "queued", "register", "parked"} /\ ~permit[t])
      BY <1>1 DEF IInv, PlaceInv
    <3>. QED BY <3>1, <3>2, <3>3 DEF Places
  <2>. QED BY <1>1, <2>1 DEF IInv, PlaceInv, FoundOnce
<1>2. IInv => FoundOnce
  BY <1>1
<1>. QED BY Inductive, <1>2, PTL

\* The timeout handler finds the node of the wait it ends: its alarm was
\* registered after on_wait had published it.
THEOREM TimeoutsFindNodes == Spec => []TimeoutFindsNode
<1>1. IInv => TimeoutFindsNode
  <2>. SUFFICES ASSUME IInv, popped[Alarm] # None, withLock[popped[Alarm]]
                PROVE  link_node[popped[Alarm]] = "live"
    BY DEF TimeoutFindsNode
  <2>1. popped[Alarm] \in Threads /\ popped[Alarm] = firing
    BY DEF IInv, TypeOK, NotifyInv, Notifiers
  <2>2. pc[popped[Alarm]] \in {"parked", "woken"}
    BY <2>1, CondVarAssumption DEF IInv, AlarmInWait
  <2>. QED BY <2>1, <2>2 DEF IInv, CodeInv
<1>. QED BY Inductive, <1>1, PTL

\* What wait returns is not overwritten by a late timeout.
THEOREM SignalsKept == Spec => SignalKept
<1>. DEFINE Keeps == \A t \in Threads : signalled[t] => signalled'[t] \/ pc'[t] = "run"
<1>1. ASSUME IInv, Next PROVE Keeps
  <2>1. CASE \E t \in Threads : Acquire(t) \/ LockBlocks(t) \/ Unlock(t) \/ Enqueue(t) \/ Expire(t)
    BY <2>1 DEF Acquire, LockBlocks, Unlock, Enqueue, Expire, waitVars
  <2>2. CASE \E t \in Threads : WaitStep(t)
    <3>1. PICK t \in Threads : WaitStep(t)
      BY <2>2
    <3>2. CASE OnWakeup(t)
      BY <1>1, <3>2 DEF IInv, TypeOK, OnWakeup, Go
    <3>. QED BY <3>1, <3>2 DEF WaitStep, LockReturns, OnWait, RegisterAlarm, Woken, UnregisterAlarm,
                waitVars
  <2>3. CASE \E n \in Threads : Notify(n)
    BY <1>1, <2>3 DEF IInv, TypeOK, Notify
  <2>4. CASE Timeout
    <3>1. CASE firing \in ToSet(waiters)
      <4>1. signalled' = [signalled EXCEPT ![firing] = FALSE]
        BY <2>4, <3>1 DEF Timeout
      <4>2. firing \in Threads => ~signalled[firing]
        BY <1>1, <3>1 DEF IInv, CodeInv
      <4>. QED BY <1>1, <4>1, <4>2 DEF IInv, TypeOK
    <3>2. CASE firing \notin ToSet(waiters)
      BY <2>4, <3>2 DEF Timeout, ToSet
    <3>. QED BY <3>1, <3>2
  <2>5. CASE \E n \in Notifiers : NotifyStep(n)
    <3>1. PICK n \in Notifiers : popped[n] # None /\ TakeNext(n)
      BY <2>5 DEF NotifyStep, UnparkPopped, OnNotify
    <3>2. \/ signalled' = signalled
          \/ \E u \in Threads : signalled' = [signalled EXCEPT ![u] = TRUE]
      BY <1>1, <3>1, TakeNextFacts
    <3>. QED BY <1>1, <3>2 DEF IInv, TypeOK
  <2>. QED BY <1>1, <2>1, <2>2, <2>3, <2>4, <2>5 DEF Next
<1>2. IInv /\ [Next]_vars => [Keeps]_vars
  BY <1>1
<1>. QED BY Inductive, <1>2, PTL DEF Spec, SignalKept
=============================================================================
