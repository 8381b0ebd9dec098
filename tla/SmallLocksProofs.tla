-------------------------- MODULE SmallLocksProofs --------------------------
(***************************************************************************)
(* TLAPS proofs about SmallLocks: for any number of threads, each of the   *)
(* nine kinds is a mutual exclusion, the locks with a queue are fair, and  *)
(* the locks on a word forget no thread that sleeps.                       *)
(***************************************************************************)
EXTENDS SmallLocks, TLAPS

Mcs == McsKinds \cup McsSpinKinds

\* Where the code of a thread may be, for each family of kinds.
WordPcs == {"out", "try", "in", "grab", "spin", "contend", "sleep", "asleep", "wake"}
McsPcs == {"out", "push", "link", "wait", "parked", "test", "set", "in", "unlock", "post"}
BlockPcs == {"out", "block", "parked", "test", "set", "in", "unlock"}

TypeOK ==
  /\ kind \in QueueKinds \cup WordKinds
  /\ pc \in [Threads -> WordPcs \cup McsPcs \cup BlockPcs]
  /\ permit \in SUBSET Threads
  /\ tail \in Threads \cup {Null}
  /\ next \in [Threads -> Threads \cup {Null}]
  /\ other \in [Threads -> Threads \cup {Null}]
  /\ granted \in SUBSET Threads /\ parking \in SUBSET Threads
  /\ taken \in BOOLEAN /\ blocked \in Seq(Threads)
  /\ held \in BOOLEAN
  /\ val \in {0, 1, 2} /\ sleepers \in SUBSET Threads
  /\ init_state \in [Threads -> {0, 1, 2}]
  /\ line \in Seq(Threads)

KindInv ==
  \A t \in Threads :
    /\ kind \in WordKinds => pc[t] \in WordPcs
    /\ kind \in Mcs => pc[t] \in McsPcs
    /\ kind \in BlockKinds => pc[t] \in BlockPcs
    /\ pc[t] \in {"test", "set"} => kind \in WithHeld
    /\ pc[t] = "try" => kind # "go_mutex"

\* Between its arrival at the lock inside and the end of its unlock, a
\* thread is in line.
InLine(t) ==
  \/ pc[t] \in {"link", "wait", "parked", "test", "set", "unlock"}
  \/ pc[t] = "in" /\ kind \notin WithHeld

\* The line, whoever waits in it: only the first of it may have the lock
\* inside, or have been told that it has it.
LineInv == kind \in QueueKinds =>
  /\ \A i, j \in 1 .. Len(line) : line[i] = line[j] => i = j
  /\ \A t \in Threads : InLine(t) <=> \E i \in 1 .. Len(line) : line[i] = t
  /\ \A i \in 2 .. Len(line) : pc[line[i]] \in {"link", "wait", "parked"}
  /\ Len(line) > 0 => pc[line[1]] # "link"
  /\ \A t \in permit : pc[t] = "parked" /\ t = line[1]

\* The queue of an MCS lock is the line: its links lead from each thread to
\* the next one, once that one has written it.
ChainInv == kind \in Mcs =>
  /\ tail = IF Len(line) = 0 THEN Null ELSE line[Len(line)]
  /\ \A i \in 2 .. Len(line) :
       /\ pc[line[i]] = "link" => other[line[i]] = line[i - 1] /\ next[line[i - 1]] = Null
       /\ pc[line[i]] # "link" => next[line[i - 1]] = line[i]
  /\ Len(line) > 0 => next[line[Len(line)]] = Null
  /\ \A t \in Threads : ~InLine(t) => next[t] = Null

\* What the one who unlocks has said, or has yet to say: the first of the
\* line is told once.
TokenInv == kind \in Mcs =>
  /\ \A t \in granted : pc[t] = "wait" /\ t = line[1]
  /\ \A t \in parking : pc[t] = "parked" /\ t \notin permit
  /\ \A t \in Threads : pc[t] = "parked" => t \in permit \cup parking
  /\ \A u \in Threads : pc[u] = "post" =>
       /\ Len(line) > 0 /\ other[u] = line[1]
       /\ pc[line[1]] \in {"wait", "parked"} /\ line[1] \notin granted \cup permit
  /\ \A u, v \in Threads : pc[u] = "post" /\ pc[v] = "post" => u = v

\* fast_block_lock: those blocked are the line without the first.
BlockInv == kind \in BlockKinds =>
  /\ taken <=> Len(line) > 0
  /\ Len(line) = 0 => blocked = <<>>
  /\ Len(line) > 0 => /\ Len(blocked) = Len(line) - 1
                      /\ \A i \in 1 .. Len(blocked) : blocked[i] = line[i + 1]
                      /\ pc[line[1]] = "parked" => line[1] \in permit

\* The flag is up between Raise and Lower, and one thread is past its test.
Past(t) == pc[t] \in {"in", "unlock", "post"}
FlagInv == kind \in WithHeld =>
  /\ held <=> \E t \in Threads : Past(t)
  /\ \A t, u \in Threads :
       (Past(t) \/ pc[t] = "set") /\ (Past(u) \/ pc[u] = "set") => t = u

\* The locks on a word: it is zero when nobody has the lock, and whoever
\* slept comes back with the mark of contention.
WordInv == kind \in WordKinds =>
  /\ val = 0 <=> \A t \in Threads : pc[t] # "in"
  /\ \A t, u \in Threads : pc[t] = "in" /\ pc[u] = "in" => t = u
  /\ \A t \in Threads :
       /\ pc[t] = "spin" => init_state[t] \in {1, 2}
       /\ pc[t] \in {"sleep", "asleep"} /\ kind = "go_mutex" => init_state[t] = 2
       /\ pc[t] = "asleep" /\ t \notin permit =>
            t \in sleepers \/ \E i \in 1 .. Len(blocked) : blocked[i] = t
  /\ \A t \in sleepers : pc[t] = "asleep"
  /\ \A i \in 1 .. Len(blocked) : pc[blocked[i]] = "asleep"
  /\ \A i, j \in 1 .. Len(blocked) : blocked[i] = blocked[j] => i = j
  /\ \A t \in permit : pc[t] = "asleep" /\ t \notin sleepers /\ \A i \in 1 .. Len(blocked) : blocked[i] # t
  /\ IF kind \in FutexKinds THEN blocked = <<>> ELSE sleepers = {}

IInv ==
  /\ TypeOK /\ KindInv
  /\ LineInv /\ ChainInv /\ TokenInv /\ BlockInv /\ FlagInv
  /\ WordInv /\ NobodyForgotten
-----------------------------------------------------------------------------
\* The initial state satisfies the inductive invariant.
LEMMA InitInv == Init => IInv
<1> SUFFICES ASSUME Init PROVE IInv
  OBVIOUS
<1> USE SmallLocksAssumption DEF Init
<1>1. Len(line) = 0 /\ \A t \in Threads : pc[t] = "out" OBVIOUS
<1>2. TypeOK
  <2>1. kind \in QueueKinds \cup WordKinds OBVIOUS
  <2>2. <<>> \in Seq(Threads) OBVIOUS
  <2>3. "out" \in WordPcs BY DEF WordPcs
  <2> QED BY <2>1, <2>2, <2>3 DEF TypeOK
<1>3. KindInv BY <1>1 DEF KindInv, WordPcs, McsPcs, BlockPcs
<1>4. \A t \in Threads : ~InLine(t) BY <1>1 DEF InLine
<1>5. LineInv BY <1>1, <1>4 DEF LineInv
<1>6. ChainInv BY <1>1, <1>4 DEF ChainInv
<1>7. TokenInv BY <1>1 DEF TokenInv
<1>8. BlockInv BY <1>1 DEF BlockInv
<1>9. FlagInv BY <1>1 DEF FlagInv, Past
<1>10. WordInv /\ NobodyForgotten BY <1>1 DEF WordInv, NobodyForgotten
<1> QED BY <1>2, <1>3, <1>5, <1>6, <1>7, <1>8, <1>9, <1>10 DEF IInv

\* The nine kinds fall into three families.
LEMMA Families ==
  ASSUME TypeOK
  PROVE  /\ kind \in Mcs \/ kind \in BlockKinds \/ kind \in WordKinds
         /\ kind \in QueueKinds <=> kind \in Mcs \/ kind \in BlockKinds
         /\ kind \in Mcs => kind \notin BlockKinds /\ kind \notin WordKinds
         /\ kind \in BlockKinds => kind \notin WordKinds
         /\ kind \in WithHeld => kind \in QueueKinds
BY DEF TypeOK, Mcs, McsKinds, McsSpinKinds, BlockKinds, WordKinds, FutexKinds, QueueKinds, WithHeld

\* A step of a lock on a word leaves nothing to show for the other families.
LEMMA WordStep ==
  ASSUME TypeOK, UNCHANGED kind, kind \in WordKinds, TypeOK', KindInv', WordInv', NobodyForgotten'
  PROVE  IInv'
<1>1. kind' \notin Mcs /\ kind' \notin BlockKinds /\ kind' \notin QueueKinds /\ kind' \notin WithHeld
  BY Families
<1> QED BY <1>1 DEF IInv, LineInv, ChainInv, TokenInv, BlockInv, FlagInv

LEMMA QueueStep ==
  ASSUME TypeOK, UNCHANGED kind, kind \in QueueKinds, TypeOK', KindInv',
         LineInv', ChainInv', TokenInv', BlockInv', FlagInv'
  PROVE  IInv'
<1>1. kind' \notin WordKinds /\ (kind' \in Mcs \/ kind' \in BlockKinds) BY Families
<1>2. WordInv' BY <1>1 DEF WordInv
<1>3. \A t \in Threads : pc'[t] # "asleep" BY <1>1 DEF KindInv, McsPcs, BlockPcs
<1>4. NobodyForgotten' BY <1>3 DEF NobodyForgotten
<1> QED BY <1>2, <1>4 DEF IInv

USE DEF Set, Goto
-----------------------------------------------------------------------------
(***************************************************************************)
(* The locks on a word.                                                    *)
(***************************************************************************)
\* Only a lock on a word takes these steps.
LEMMA WordKind ==
  ASSUME IInv, NEW t \in Threads,
         pc[t] \in {"try", "grab", "spin", "contend", "sleep", "asleep", "wake"}
  PROVE  kind \in WordKinds
BY Families DEF IInv, KindInv, McsPcs, BlockPcs

LEMMA TryLockInv == ASSUME IInv, NEW t \in Threads, TryLock(t) PROVE IInv'
<1> USE DEF TryLock, wordFrame, mcsVars, blockVars
<1>1. kind \in WordKinds BY WordKind
<1>2. PICK x \in {"in", "try", "contend", "sleep"} :
        /\ pc' = [pc EXCEPT ![t] = x] /\ (x = "in" <=> val = 0)
        /\ x = "sleep" => val = 2
  <2>1. val = 0 \/ val = 1 \/ val = 2 BY DEF IInv, TypeOK
  <2>2. pc = [pc EXCEPT ![t] = "try"] BY DEF IInv, TypeOK
  <2>3. CASE val = 0 BY <2>3
  <2>4. CASE val = 1 BY <2>2, <2>4
  <2>5. CASE val = 2 BY <2>5
  <2> QED BY <2>1, <2>3, <2>4, <2>5
<1>3. TypeOK' BY <1>2 DEF IInv, TypeOK, WordPcs
<1>4. KindInv' BY <1>1, <1>2, Families DEF IInv, TypeOK, KindInv, WordPcs
<1>5. WordInv'
  <2>1. pc[t] = "try" /\ val' = IF val = 0 THEN 1 ELSE val OBVIOUS
  <2>2. UNCHANGED <<kind, permit, sleepers, init_state, blocked>> OBVIOUS
  <2>3. kind # "go_mutex" BY DEF IInv, KindInv
  <2> HIDE DEF TryLock
  <2> QED BY <1>1, <1>2, <2>1, <2>2, <2>3 DEF IInv, TypeOK, WordInv
<1>6. NobodyForgotten' BY <1>2 DEF IInv, TypeOK, NobodyForgotten
<1> QED BY <1>1, <1>3, <1>4, <1>5, <1>6, WordStep DEF IInv

LEMMA GrabInv == ASSUME IInv, NEW t \in Threads, Grab(t) PROVE IInv'
<1> USE DEF Grab, wordFrame, mcsVars, blockVars
<1>1. kind \in WordKinds BY WordKind
<1>2. TypeOK' BY DEF IInv, TypeOK, WordPcs
<1>3. KindInv' BY <1>1, Families DEF IInv, TypeOK, KindInv, WordPcs
<1>4. WordInv' BY <1>1 DEF IInv, TypeOK, WordInv
<1>5. NobodyForgotten' BY DEF IInv, TypeOK, NobodyForgotten
<1> QED BY <1>1, <1>2, <1>3, <1>4, <1>5, WordStep DEF IInv

LEMMA SpinInv == ASSUME IInv, NEW t \in Threads, Spin(t) PROVE IInv'
<1> USE DEF Spin, wordFrame, mcsVars, blockVars
<1>1. kind \in WordKinds BY WordKind
<1>2. TypeOK' BY DEF IInv, TypeOK, WordPcs
<1>3. KindInv' BY <1>1, Families DEF IInv, TypeOK, KindInv, WordPcs
<1>4. WordInv' BY <1>1 DEF IInv, TypeOK, WordInv
<1>5. NobodyForgotten' BY <1>1 DEF IInv, TypeOK, NobodyForgotten, WordInv
<1> QED BY <1>1, <1>2, <1>3, <1>4, <1>5, WordStep DEF IInv

LEMMA ContendInv == ASSUME IInv, NEW t \in Threads, Contend(t) PROVE IInv'
<1> USE DEF Contend, wordFrame, mcsVars, blockVars
<1>1. kind \in WordKinds BY WordKind
<1>2. TypeOK' BY DEF IInv, TypeOK, WordPcs
<1>3. KindInv' BY <1>1, Families DEF IInv, TypeOK, KindInv, WordPcs
<1>4. WordInv' BY <1>1 DEF IInv, TypeOK, WordInv
<1>5. NobodyForgotten' BY DEF IInv, TypeOK, NobodyForgotten
<1> QED BY <1>1, <1>2, <1>3, <1>4, <1>5, WordStep DEF IInv

LEMMA ReleaseInv == ASSUME IInv, NEW t \in Threads, Release(t) PROVE IInv'
<1> USE DEF Release, wordFrame, mcsVars, blockVars
<1>1. kind \in WordKinds OBVIOUS
<1>2. TypeOK' BY DEF IInv, TypeOK, WordPcs
<1>3. KindInv' BY <1>1, Families DEF IInv, TypeOK, KindInv, WordPcs
<1>4. WordInv' BY <1>1 DEF IInv, TypeOK, WordInv
<1>5. NobodyForgotten' BY <1>1 DEF IInv, TypeOK, NobodyForgotten, WordInv
<1> QED BY <1>1, <1>2, <1>3, <1>4, <1>5, WordStep DEF IInv

LEMMA WokenInv == ASSUME IInv, NEW t \in Threads, Woken(t) \/ Interrupted(t) PROVE IInv'
<1> USE DEF Woken, Interrupted, Again, wordFrame, mcsVars, blockVars, wordVars
<1>1. kind \in WordKinds BY WordKind
<1>2. PICK x \in {"spin", "contend"} :
        pc' = [pc EXCEPT ![t] = x] /\ (x = "spin" <=> kind = "go_mutex")
  OBVIOUS
<1>3. pc[t] = "asleep" /\ UNCHANGED <<kind, val, init_state, blocked>> OBVIOUS
<1>4. permit' = permit \/ (permit' = permit \ {t} /\ sleepers' = sleepers) OBVIOUS
<1>5. sleepers' \in {sleepers, sleepers \ {t}} OBVIOUS
<1> HIDE DEF Woken, Interrupted, Again
<1>6. \A u \in Threads : u # t =>
        (u \in permit' <=> u \in permit) /\ (u \in sleepers' <=> u \in sleepers)
  BY <1>4, <1>5
<1>7. /\ kind = "go_mutex" => init_state[t] = 2
      /\ \A i \in 1 .. Len(blocked) : blocked[i] # t
      /\ t \notin sleepers' /\ t \notin permit'
  <2>1. t \in permit \/ t \in sleepers BY DEF Woken, Interrupted
  <2>2. WordInv BY DEF IInv
  <2> QED BY <1>1, <1>3, <2>1, <2>2 DEF WordInv, Woken, Interrupted
<1>8. TypeOK'
  BY <1>2, <1>3, <1>4, <1>5 DEF IInv, TypeOK, WordPcs, Woken, Interrupted
<1>9. KindInv' BY <1>1, <1>2, <1>3, Families DEF IInv, TypeOK, KindInv, WordPcs
<1>10. WordInv'
  <2>1. WordInv BY DEF IInv
  <2> QED BY <1>1, <1>2, <1>3, <1>4, <1>5, <1>6, <1>7, <2>1 DEF IInv, TypeOK, WordInv
<1>11. NobodyForgotten'
  <2>1. pc'[t] = "contend" \/ (pc'[t] = "spin" /\ init_state'[t] = 2)
    BY <1>2, <1>3, <1>7 DEF IInv, TypeOK
  <2> QED BY <2>1 DEF NobodyForgotten
<1> QED BY <1>1, <1>3, <1>8, <1>9, <1>10, <1>11, WordStep DEF IInv

LEMMA SleepInv == ASSUME IInv, NEW t \in Threads, Sleep(t) PROVE IInv'
<1> USE DEF wordFrame, mcsVars, blockVars
<1>0. pc[t] = "sleep" /\ UNCHANGED <<kind, permit, val, init_state, taken, held, line, mcsVars>>
  BY DEF Sleep
<1>1. kind \in WordKinds BY <1>0, WordKind
<1>2. t \notin permit /\ t \notin sleepers /\ \A i \in 1 .. Len(blocked) : blocked[i] # t
  BY <1>0, <1>1 DEF IInv, WordInv
<1>3. CASE val # 2
  <2>1. PICK x \in {"spin", "contend"} :
        pc' = [pc EXCEPT ![t] = x] /\ (x = "spin" <=> kind = "go_mutex")
    BY <1>3 DEF Sleep, Again
  <2>2. UNCHANGED <<sleepers, blocked>> BY <1>3 DEF Sleep
  <2>3. TypeOK' BY <1>0, <2>1, <2>2 DEF IInv, TypeOK, WordPcs
  <2>4. KindInv' BY <1>0, <1>1, <2>1, Families DEF IInv, TypeOK, KindInv, WordPcs
  <2>5. WordInv' BY <1>0, <1>1, <1>2, <2>1, <2>2 DEF IInv, TypeOK, WordInv
  <2>6. NobodyForgotten' BY <1>0, <2>1 DEF IInv, TypeOK, NobodyForgotten
  <2> QED BY <1>0, <1>1, <2>3, <2>4, <2>5, <2>6, WordStep DEF IInv
<1>4. CASE val = 2
  <2>1. /\ pc' = [pc EXCEPT ![t] = "asleep"]
        /\ IF kind \in FutexKinds
           THEN sleepers' = sleepers \cup {t} /\ UNCHANGED blocked
           ELSE blocked' = Append(blocked, t) /\ UNCHANGED sleepers
    BY <1>4 DEF Sleep
  <2>2. /\ blocked' \in Seq(Threads)
        /\ kind \notin FutexKinds =>
             /\ Len(blocked') = Len(blocked) + 1 /\ blocked'[Len(blocked) + 1] = t
             /\ \A i \in 1 .. Len(blocked) : blocked'[i] = blocked[i]
    <3>1. blocked \in Seq(Threads) BY DEF IInv, TypeOK
    <3>2. CASE kind \in FutexKinds BY <2>1, <3>1, <3>2
    <3>3. CASE kind \notin FutexKinds
      <4>1. blocked' = Append(blocked, t) BY <2>1, <3>3
      <4> QED BY <3>1, <4>1
    <3> QED BY <3>2, <3>3
  <2>3. TypeOK' BY <1>0, <2>1, <2>2 DEF IInv, TypeOK, WordPcs
  <2>4. KindInv' BY <1>0, <1>1, <2>1, Families DEF IInv, TypeOK, KindInv, WordPcs
  <2>5. NobodyForgotten' BY <1>0, <1>4 DEF NobodyForgotten
  <2>6. CASE kind \in FutexKinds
    <3>1. sleepers' = sleepers \cup {t} /\ UNCHANGED blocked BY <2>1, <2>6
    <3>2. WordInv' BY <1>0, <1>1, <1>2, <2>1, <2>6, <3>1 DEF IInv, TypeOK, WordInv
    <3> QED BY <1>0, <1>1, <2>3, <2>4, <2>5, <3>2, WordStep DEF IInv
  <2>7. CASE kind \notin FutexKinds
    <3>1. UNCHANGED sleepers BY <2>1, <2>7
    <3>2. WordInv /\ Len(blocked) \in Nat /\ \A i \in 1 .. Len(blocked) : blocked[i] \in Threads
      BY DEF IInv, TypeOK
    <3>3. pc \in [Threads -> WordPcs \cup McsPcs \cup BlockPcs] BY DEF IInv, TypeOK
    <3>4. \A i \in 1 .. Len(blocked)' : blocked'[i] = t \/ (i \in 1 .. Len(blocked) /\ blocked'[i] = blocked[i])
      BY <2>2, <2>7, <3>2
    <3>5. (\A i, j \in 1 .. Len(blocked) : blocked[i] = blocked[j] => i = j)'
      BY <1>1, <1>2, <2>2, <2>7, <3>2, <3>4 DEF WordInv
    <3>6. \A u \in Threads : u # t => pc'[u] = pc[u] BY <2>1
    <3>7. pc'[t] = "asleep" BY <2>1, <3>3
    <3>8. (\A i \in 1 .. Len(blocked) : pc[blocked[i]] = "asleep")'
      BY <1>1, <3>2, <3>4, <3>6, <3>7 DEF WordInv
    <3>9. (\A u \in permit : pc[u] = "asleep" /\ u \notin sleepers /\ \A i \in 1 .. Len(blocked) : blocked[i] # u)'
      BY <1>0, <1>1, <1>2, <3>1, <3>2, <3>4, <3>6, <3>7 DEF WordInv, IInv, TypeOK
    <3>10. (\A u \in Threads : pc[u] = "asleep" /\ u \notin permit =>
              u \in sleepers \/ \E i \in 1 .. Len(blocked) : blocked[i] = u)'
      <4> SUFFICES ASSUME NEW u \in Threads, pc'[u] = "asleep", u \notin permit'
                   PROVE  u \in sleepers' \/ \E i \in 1 .. Len(blocked)' : blocked'[i] = u
        OBVIOUS
      <4>1. CASE u = t BY <2>2, <2>7, <3>2, <4>1
      <4>2. CASE u # t BY <1>0, <1>1, <2>2, <2>7, <3>1, <3>2, <3>6, <4>2 DEF WordInv
      <4> QED BY <4>1, <4>2
    <3>11. WordInv'
      BY <1>0, <1>1, <2>1, <2>7, <3>1, <3>2, <3>3, <3>5, <3>6, <3>7, <3>8, <3>9, <3>10 DEF WordInv
    <3> QED BY <1>0, <1>1, <2>3, <2>4, <2>5, <3>11, WordStep DEF IInv
  <2> QED BY <2>6, <2>7
<1> QED BY <1>3, <1>4

LEMMA WakeInv == ASSUME IInv, NEW t \in Threads, Wake(t) PROVE IInv'
<1> USE DEF mcsVars, blockVars
<1>1. /\ pc[t] = "wake" /\ pc' = [pc EXCEPT ![t] = "out"]
      /\ UNCHANGED <<kind, val, init_state, taken, held, line, mcsVars>>
  BY DEF Wake
<1>2. kind \in WordKinds BY <1>1, WordKind
<1>3. KindInv' BY <1>1, <1>2, Families DEF IInv, TypeOK, KindInv, WordPcs
<1>4. WordInv /\ pc \in [Threads -> WordPcs \cup McsPcs \cup BlockPcs] BY DEF IInv, TypeOK
<1>5. CASE sleepers = {} /\ blocked = <<>> /\ UNCHANGED <<sleepers, blocked, permit>>
  <2>1. TypeOK' BY <1>1, <1>5 DEF IInv, TypeOK, WordPcs
  <2>2. WordInv' BY <1>1, <1>2, <1>4, <1>5 DEF WordInv
  <2>3. \A u \in Threads : pc'[u] = "asleep" => u \in permit'
    BY <1>1, <1>2, <1>4, <1>5 DEF WordInv
  <2>4. NobodyForgotten' BY <2>3 DEF NobodyForgotten
  <2> QED BY <1>1, <1>2, <1>3, <2>1, <2>2, <2>4, WordStep DEF IInv
<1>6. CASE /\ \E u \in sleepers : sleepers' = sleepers \ {u} /\ permit' = permit \cup {u}
           /\ UNCHANGED blocked
  <2>1. PICK u \in sleepers : sleepers' = sleepers \ {u} /\ permit' = permit \cup {u} BY <1>6
  <2>2. TypeOK' BY <1>1, <1>6, <2>1 DEF IInv, TypeOK, WordPcs
  <2>3. u \in Threads /\ pc[u] = "asleep" BY <1>2, <1>4 DEF WordInv, IInv, TypeOK
  <2>4. blocked = <<>> BY <1>2, <1>4 DEF WordInv
  <2>5. WordInv' BY <1>1, <1>2, <1>4, <1>6, <2>1, <2>3, <2>4 DEF WordInv
  <2>6. pc'[u] = "asleep" /\ u \in permit' BY <1>1, <1>4, <2>1, <2>3
  <2>7. NobodyForgotten' BY <2>3, <2>6 DEF NobodyForgotten
  <2> QED BY <1>1, <1>2, <1>3, <2>2, <2>5, <2>7, WordStep DEF IInv
<1>7. CASE /\ blocked # <<>>
           /\ blocked' = Tail(blocked) /\ permit' = permit \cup {Head(blocked)}
           /\ UNCHANGED sleepers
  <2>1. blocked \in Seq(Threads) BY DEF IInv, TypeOK
  <2>2. /\ Len(blocked) \in Nat /\ Len(blocked) > 0 /\ Head(blocked) = blocked[1]
        /\ blocked' \in Seq(Threads) /\ Len(blocked') = Len(blocked) - 1
        /\ \A i \in 1 .. Len(blocked') : blocked'[i] = blocked[i + 1]
    BY <1>7, <2>1
  <2> DEFINE u == blocked[1]
  <2>3. u \in Threads /\ pc[u] = "asleep" /\ u # t BY <1>1, <1>2, <1>4, <2>1, <2>2 DEF WordInv
  <2>4. TypeOK' BY <1>1, <1>7, <2>2, <2>3 DEF IInv, TypeOK, WordPcs
  <2>5. kind \notin FutexKinds /\ sleepers = {} BY <1>2, <1>4, <1>7 DEF WordInv
  <2>6. permit' = permit \cup {u} BY <1>7, <2>2
  <2>7. pc'[u] = "asleep" BY <1>1, <1>4, <2>3
  <2>8. NobodyForgotten' BY <2>3, <2>6, <2>7 DEF NobodyForgotten
  <2>9. (\A i, j \in 1 .. Len(blocked) : blocked[i] = blocked[j] => i = j)'
    BY <1>2, <1>4, <2>2 DEF WordInv
  <2>10. \A i \in 1 .. Len(blocked') : blocked'[i] # u /\ i + 1 \in 1 .. Len(blocked)
    BY <1>2, <1>4, <2>2 DEF WordInv
  <2>11. \A v \in Threads : v # t => pc'[v] = pc[v] BY <1>1
  <2>12. \A i \in 1 .. Len(blocked') : pc'[blocked'[i]] = "asleep"
    <3> SUFFICES ASSUME NEW i \in 1 .. Len(blocked') PROVE pc'[blocked'[i]] = "asleep"
      OBVIOUS
    <3>1. i + 1 \in 1 .. Len(blocked) /\ blocked'[i] = blocked[i + 1] BY <2>2, <2>10
    <3>2. blocked[i + 1] \in Threads BY <2>1, <3>1
    <3>3. pc[blocked[i + 1]] = "asleep" BY <1>2, <1>4, <3>1 DEF WordInv
    <3>4. blocked[i + 1] # t BY <1>1, <3>3
    <3> QED BY <2>11, <3>1, <3>2, <3>3, <3>4
  <2>13. (\A v \in permit : pc[v] = "asleep" /\ v \notin sleepers /\ \A i \in 1 .. Len(blocked) : blocked[i] # v)'
    <3> SUFFICES ASSUME NEW v \in permit'
                 PROVE  /\ pc'[v] = "asleep" /\ v \notin sleepers'
                        /\ \A i \in 1 .. Len(blocked') : blocked'[i] # v
      OBVIOUS
    <3>1. CASE v = u BY <1>7, <2>5, <2>7, <2>10, <3>1
    <3>2. CASE v \in permit
      <4>1. v \in Threads BY <3>2 DEF IInv, TypeOK
      <4> QED BY <1>1, <1>2, <1>4, <1>7, <2>2, <2>10, <2>11, <3>2, <4>1 DEF WordInv
    <3> QED BY <2>6, <3>1, <3>2
  <2>14. (\A v \in Threads : pc[v] = "asleep" /\ v \notin permit =>
            v \in sleepers \/ \E i \in 1 .. Len(blocked) : blocked[i] = v)'
    <3> SUFFICES ASSUME NEW v \in Threads, pc'[v] = "asleep", v \notin permit'
                 PROVE  \E i \in 1 .. Len(blocked') : blocked'[i] = v
      OBVIOUS
    <3>1. v # t /\ v # u /\ v \notin permit BY <1>1, <1>4, <2>6
    <3>2. pc[v] = "asleep" BY <2>11, <3>1
    <3>3. PICK i \in 1 .. Len(blocked) : blocked[i] = v BY <1>2, <1>4, <2>5, <3>1, <3>2 DEF WordInv
    <3>4. i # 1 BY <3>1, <3>3
    <3>5. i - 1 \in 1 .. Len(blocked') /\ blocked'[i - 1] = v BY <2>2, <3>3, <3>4
    <3> QED BY <3>5
  <2> HIDE DEF u
  <2>15. WordInv'
    BY <1>1, <1>2, <1>4, <1>7, <2>5, <2>9, <2>11, <2>12, <2>13, <2>14 DEF WordInv
  <2> QED BY <1>1, <1>2, <1>3, <2>4, <2>8, <2>15, WordStep DEF IInv
<1> QED BY <1>5, <1>6, <1>7 DEF Wake
-----------------------------------------------------------------------------
(***************************************************************************)
(* The locks with a queue: what coming and going does to the line.         *)
(***************************************************************************)
\* Who is in line is a thread, and only the first of it is past waiting.
LEMMA LineFacts ==
  ASSUME IInv, kind \in QueueKinds
  PROVE  /\ Len(line) \in Nat /\ line \in Seq(Threads)
         /\ \A i \in 1 .. Len(line) : line[i] \in Threads /\ InLine(line[i])
         /\ \A t \in Threads : InLine(t) =>
              /\ Len(line) > 0 /\ \E i \in 1 .. Len(line) : line[i] = t
              /\ pc[t] \notin {"link", "wait", "parked"} => t = line[1]
<1>1. LineInv /\ Len(line) \in Nat /\ line \in Seq(Threads) BY DEF IInv, TypeOK
<1>2. \A i \in 1 .. Len(line) : line[i] \in Threads BY <1>1
<1>3. \A i \in 1 .. Len(line) : i = 1 \/ i \in 2 .. Len(line) BY <1>1
<1> QED BY <1>1, <1>2, <1>3 DEF LineInv

\* A step of one thread that stays in its place, or outside of the line.
LEMMA StayInLine ==
  ASSUME IInv, kind \in QueueKinds, UNCHANGED <<kind, line>>,
         NEW t \in Threads, NEW x, pc' = [pc EXCEPT ![t] = x],
         InLine(t)' <=> InLine(t),
         InLine(t) => x # "link" /\ (t = line[1] \/ x \in {"wait", "parked"}),
         \A u \in permit' : pc'[u] = "parked" /\ u = line[1]
  PROVE  LineInv'
<1>1. LineInv /\ pc \in [Threads -> WordPcs \cup McsPcs \cup BlockPcs] BY DEF IInv, TypeOK
<1>2. \A u \in Threads : u # t => pc'[u] = pc[u] BY <1>1
<1>3. \A u \in Threads : InLine(u)' <=> InLine(u) BY <1>2 DEF InLine
<1>4. pc'[t] = x BY <1>1
<1>5. \A i \in 1 .. Len(line) : line[i] \in Threads /\ InLine(line[i]) BY LineFacts
<1>6. \A i \in 2 .. Len(line) : line[i] # line[1] /\ i \in 1 .. Len(line) /\ 1 \in 1 .. Len(line)
  BY <1>1, LineFacts DEF LineInv
<1>7. \A i \in 2 .. Len(line) : pc'[line[i]] \in {"link", "wait", "parked"}
  BY <1>1, <1>2, <1>4, <1>5, <1>6 DEF LineInv
<1>8. Len(line) > 0 => pc'[line[1]] # "link"
  BY <1>1, <1>2, <1>4, <1>5, LineFacts DEF LineInv
<1> QED BY <1>1, <1>3, <1>7, <1>8 DEF LineInv

\* A thread comes to the end of the line.
LEMMA Arrive ==
  ASSUME IInv, NEW t \in Threads, line' = Append(line, t)
  PROVE  /\ line' \in Seq(Threads) /\ Len(line') = Len(line) + 1 /\ Len(line) \in Nat
         /\ line'[Len(line) + 1] = t
         /\ \A i \in 1 .. Len(line) : line'[i] = line[i]
BY DEF IInv, TypeOK

LEMMA ArriveInLine ==
  ASSUME IInv, kind \in QueueKinds, UNCHANGED <<kind, permit>>,
         NEW t \in Threads, NEW x, pc' = [pc EXCEPT ![t] = x], line' = Append(line, t),
         ~InLine(t), InLine(t)',
         IF line = <<>> THEN x # "link" ELSE x \in {"link", "parked"},
         permit # {} => line # <<>>
  PROVE  LineInv'
<1>1. LineInv /\ pc \in [Threads -> WordPcs \cup McsPcs \cup BlockPcs] BY DEF IInv, TypeOK
<1>2. \A u \in Threads : u # t => pc'[u] = pc[u] /\ (InLine(u)' <=> InLine(u)) BY <1>1 DEF InLine
<1>3. pc'[t] = x BY <1>1
<1>4. \A i \in 1 .. Len(line) : line[i] \in Threads /\ InLine(line[i]) /\ line[i] # t BY LineFacts
<1>5. /\ Len(line') = Len(line) + 1 /\ Len(line) \in Nat /\ line'[Len(line) + 1] = t
      /\ \A i \in 1 .. Len(line) : line'[i] = line[i]
  BY Arrive
<1>6. \A i \in 1 .. Len(line') : i \in 1 .. Len(line) \/ (i = Len(line) + 1 /\ line'[i] = t)
  BY <1>5
<1>7. (\A i, j \in 1 .. Len(line) : line[i] = line[j] => i = j)'
  BY <1>1, <1>4, <1>5, <1>6 DEF LineInv
<1>8. (\A u \in Threads : InLine(u) <=> \E i \in 1 .. Len(line) : line[i] = u)'
  <2> SUFFICES ASSUME NEW u \in Threads
               PROVE  InLine(u)' <=> \E i \in 1 .. Len(line') : line'[i] = u
    OBVIOUS
  <2>1. CASE u = t BY <1>5, <2>1
  <2>2. CASE u # t BY <1>1, <1>2, <1>5, <1>6, <2>2 DEF LineInv
  <2> QED BY <2>1, <2>2
<1>9. line = <<>> <=> Len(line) = 0 BY DEF IInv, TypeOK
<1>10. (\A i \in 2 .. Len(line) : pc[line[i]] \in {"link", "wait", "parked"})'
  BY <1>1, <1>2, <1>3, <1>4, <1>5, <1>6, <1>9 DEF LineInv
<1>11. pc'[line'[1]] # "link" BY <1>1, <1>2, <1>3, <1>4, <1>5, <1>9 DEF LineInv
<1>12. (\A u \in permit : pc[u] = "parked" /\ u = line[1])'
  <2> SUFFICES ASSUME NEW u \in permit PROVE pc'[u] = "parked" /\ u = line'[1]
    OBVIOUS
  <2>1. pc[u] = "parked" /\ u = line[1] /\ u \in Threads BY <1>1 DEF LineInv, IInv, TypeOK
  <2>2. u # t BY <2>1 DEF InLine
  <2>3. Len(line) > 0 BY <1>5, <1>9
  <2> QED BY <1>2, <1>5, <2>1, <2>2, <2>3
<1> QED BY <1>7, <1>8, <1>10, <1>11, <1>12 DEF LineInv

\* The first of the line leaves it.
LEMMA Depart ==
  ASSUME IInv, Len(line) > 0, line' = Tail(line)
  PROVE  /\ line' \in Seq(Threads) /\ Len(line') = Len(line) - 1 /\ Len(line) \in Nat
         /\ \A i \in 1 .. Len(line') : line'[i] = line[i + 1] /\ i + 1 \in 2 .. Len(line)
BY DEF IInv, TypeOK

LEMMA DepartFromLine ==
  ASSUME IInv, kind \in QueueKinds, UNCHANGED kind,
         NEW t \in Threads, NEW x, pc' = [pc EXCEPT ![t] = x], line' = Tail(line),
         Len(line) > 0, line[1] = t, ~InLine(t)',
         Len(line) > 1 => pc[line[2]] # "link",
         permit' = {} \/ (Len(line) > 1 /\ permit' = {line[2]} /\ pc[line[2]] = "parked")
  PROVE  LineInv'
<1>1. LineInv /\ pc \in [Threads -> WordPcs \cup McsPcs \cup BlockPcs] BY DEF IInv, TypeOK
<1>2. \A u \in Threads : u # t => pc'[u] = pc[u] /\ (InLine(u)' <=> InLine(u)) BY <1>1 DEF InLine
<1>3. /\ Len(line') = Len(line) - 1 /\ Len(line) \in Nat
      /\ \A i \in 1 .. Len(line') : line'[i] = line[i + 1] /\ i + 1 \in 2 .. Len(line)
  BY Depart
<1>4. \A i \in 2 .. Len(line) : line[i] \in Threads /\ line[i] # t /\ i \in 1 .. Len(line)
  BY <1>1, LineFacts DEF LineInv
<1>5. (\A i, j \in 1 .. Len(line) : line[i] = line[j] => i = j)'
  BY <1>1, <1>3, <1>4 DEF LineInv
<1>6. (\A u \in Threads : InLine(u) <=> \E i \in 1 .. Len(line) : line[i] = u)'
  <2> SUFFICES ASSUME NEW u \in Threads
               PROVE  InLine(u)' <=> \E i \in 1 .. Len(line') : line'[i] = u
    OBVIOUS
  <2>1. CASE u = t BY <1>3, <1>4, <2>1
  <2>2. CASE u # t
    <3>1. ASSUME InLine(u)' PROVE \E i \in 1 .. Len(line') : line'[i] = u
      <4>1. PICK i \in 1 .. Len(line) : line[i] = u BY <1>1, <1>2, <2>2, <3>1 DEF LineInv
      <4>2. i - 1 \in 1 .. Len(line') /\ line'[i - 1] = u BY <1>3, <2>2, <4>1
      <4> QED BY <4>2
    <3>2. ASSUME NEW i \in 1 .. Len(line'), line'[i] = u PROVE InLine(u)'
      BY <1>1, <1>2, <1>3, <1>4, <2>2, <3>2 DEF LineInv
    <3> QED BY <3>1, <3>2
  <2> QED BY <2>1, <2>2
<1>7. (\A i \in 2 .. Len(line) : pc[line[i]] \in {"link", "wait", "parked"})'
  <2> SUFFICES ASSUME NEW i \in 2 .. Len(line') PROVE pc'[line'[i]] \in {"link", "wait", "parked"}
    OBVIOUS
  <2>1. i \in 1 .. Len(line') BY <1>3
  <2> QED BY <1>1, <1>2, <1>3, <1>4, <2>1 DEF LineInv
<1>8. (Len(line) > 0 => pc[line[1]] # "link")' BY <1>2, <1>3, <1>4
<1>9. (\A u \in permit : pc[u] = "parked" /\ u = line[1])' BY <1>2, <1>3, <1>4
<1> QED BY <1>5, <1>6, <1>7, <1>8, <1>9 DEF LineInv
-----------------------------------------------------------------------------
(***************************************************************************)
(* The locks with a queue: what a step that leaves a part alone preserves. *)
(***************************************************************************)
LEMMA ChainStay ==
  ASSUME IInv, kind \in QueueKinds, UNCHANGED <<kind, line, tail, next>>,
         NEW t \in Threads, NEW x, pc' = [pc EXCEPT ![t] = x],
         pc[t] # "link", x # "link", InLine(t)' <=> InLine(t),
         \A u \in Threads : u # t => other'[u] = other[u]
  PROVE  ChainInv'
<1>1. ChainInv /\ pc \in [Threads -> WordPcs \cup McsPcs \cup BlockPcs] BY DEF IInv, TypeOK
<1>2. \A u \in Threads : (pc'[u] = "link") <=> (pc[u] = "link") BY <1>1
<1>3. \A u \in Threads : pc[u] = "link" => other'[u] = other[u] OBVIOUS
<1>4. \A u \in Threads : u # t => pc'[u] = pc[u] BY <1>1
<1>5. \A u \in Threads : InLine(u)' <=> InLine(u) BY <1>4 DEF InLine
<1>6. \A i \in 2 .. Len(line) : line[i] \in Threads BY LineFacts
<1> HIDE DEF InLine
<1> QED BY <1>1, <1>2, <1>3, <1>5, <1>6 DEF ChainInv

LEMMA TokenStay ==
  ASSUME IInv, UNCHANGED <<kind, line, granted, permit, parking, other>>,
         NEW t \in Threads, NEW x, pc' = [pc EXCEPT ![t] = x],
         {pc[t], x} \cap {"wait", "parked", "post"} = {}
  PROVE  TokenInv'
<1>1. TokenInv /\ LineInv /\ pc \in [Threads -> WordPcs \cup McsPcs \cup BlockPcs]
  BY DEF IInv, TypeOK
<1>2. \A u \in Threads : u # t => pc'[u] = pc[u] BY <1>1
<1>3. pc'[t] = x BY <1>1
<1>4. granted \in SUBSET Threads /\ parking \in SUBSET Threads BY DEF IInv, TypeOK
<1>5. kind \in Mcs /\ Len(line) > 0 => line[1] \in Threads
  BY LineFacts, Families DEF IInv
<1> QED BY <1>1, <1>2, <1>3, <1>4, <1>5 DEF TokenInv

LEMMA BlockStay ==
  ASSUME IInv, UNCHANGED <<kind, line, taken, blocked, permit>>,
         NEW t \in Threads, NEW x, pc' = [pc EXCEPT ![t] = x], x # "parked"
  PROVE  BlockInv'
<1>1. BlockInv /\ pc \in [Threads -> WordPcs \cup McsPcs \cup BlockPcs] BY DEF IInv, TypeOK
<1>2. kind \in BlockKinds /\ Len(line) > 0 => line[1] \in Threads
  BY LineFacts, Families DEF IInv
<1>3. \A u \in Threads : pc'[u] = "parked" => pc[u] = "parked" BY <1>1
<1> QED BY <1>1, <1>2, <1>3 DEF BlockInv

LEMMA FlagStay ==
  ASSUME IInv, UNCHANGED <<kind, held>>,
         NEW t \in Threads, NEW x, pc' = [pc EXCEPT ![t] = x],
         kind \in WithHeld => (Past(t)' <=> Past(t)) /\ (x = "set" => pc[t] = "set")
  PROVE  FlagInv'
<1>1. FlagInv /\ pc \in [Threads -> WordPcs \cup McsPcs \cup BlockPcs] BY DEF IInv, TypeOK
<1>2. \A u \in Threads : u # t => pc'[u] = pc[u] BY <1>1
<1>3. pc'[t] = x BY <1>1
<1>4. kind \in WithHeld => \A u \in Threads : Past(u)' <=> Past(u) BY <1>2 DEF Past
<1>5. kind \in WithHeld => \A u \in Threads : pc'[u] = "set" => pc[u] = "set" BY <1>2, <1>3
<1> HIDE DEF Past
<1> QED BY <1>1, <1>4, <1>5 DEF FlagInv

LEMMA NotMcs == ASSUME TypeOK, UNCHANGED kind, kind \in BlockKinds PROVE ChainInv' /\ TokenInv'
<1>1. kind' \notin Mcs BY Families
<1> QED BY <1>1 DEF ChainInv, TokenInv

LEMMA NotBlock == ASSUME TypeOK, UNCHANGED kind, kind \in Mcs PROVE BlockInv'
<1>1. kind' \notin BlockKinds BY Families
<1> QED BY <1>1 DEF BlockInv

\* The family of the kind, from where a thread is.
LEMMA QueuePcs ==
  ASSUME IInv, NEW t \in Threads
  PROVE  /\ pc[t] \in {"push", "link", "wait", "post"} => kind \in Mcs
         /\ pc[t] = "block" => kind \in BlockKinds
         /\ pc[t] \in {"push", "link", "wait", "post", "block", "parked", "test", "set", "unlock"} =>
              kind \in QueueKinds
         /\ pc[t] \in {"test", "set"} => kind \in WithHeld
BY Families DEF IInv, KindInv, WordPcs, McsPcs, BlockPcs
-----------------------------------------------------------------------------
(***************************************************************************)
(* The locks with a queue: each action preserves the invariant.            *)
(***************************************************************************)
LEMMA QueueLockInv ==
  ASSUME IInv, kind \in QueueKinds, NEW t \in Threads, Lock(t)
  PROVE  IInv'
<1>0. /\ pc[t] = "out"
      /\ UNCHANGED <<kind, permit, mcsVars, blockVars, held, wordVars, line>>
  BY DEF Lock
<1>1. PICK x \in {"push", "block"} :
        pc' = [pc EXCEPT ![t] = x] /\ (x = "block" <=> kind \in BlockKinds)
  <2>1. kind \notin WordKinds BY Families DEF IInv
  <2>2. kind # "go_mutex" BY <2>1 DEF WordKinds, FutexKinds
  <2>3. CASE kind \in BlockKinds
    <3>1. pc' = [pc EXCEPT ![t] = "block"] BY <2>1, <2>2, <2>3 DEF Lock
    <3> QED BY <2>3, <3>1
  <2>4. CASE kind \notin BlockKinds BY <2>1, <2>2, <2>4 DEF Lock
  <2> QED BY <2>3, <2>4
<1> USE DEF mcsVars, blockVars, wordVars
<1>2. TypeOK' BY <1>0, <1>1 DEF IInv, TypeOK, McsPcs, BlockPcs
<1>3. KindInv' BY <1>0, <1>1, Families DEF IInv, TypeOK, KindInv, McsPcs, BlockPcs
<1>4. ~InLine(t) /\ ~InLine(t)' BY <1>0, <1>1 DEF InLine, IInv, TypeOK
<1>5. \A u \in permit' : pc'[u] = "parked" /\ u = line[1]
  BY <1>0, <1>1 DEF IInv, TypeOK, LineInv
<1>6. LineInv' BY <1>0, <1>1, <1>4, <1>5, StayInLine
<1>7. ChainInv' BY <1>0, <1>1, <1>4, ChainStay
<1>8. TokenInv' BY <1>0, <1>1, TokenStay
<1>9. BlockInv' BY <1>0, <1>1, BlockStay
<1>10. FlagInv'
  <2>1. ~Past(t) /\ ~Past(t)' BY <1>0, <1>1 DEF Past, IInv, TypeOK
  <2> QED BY <1>0, <1>1, <2>1, FlagStay
<1> QED BY <1>0, <1>2, <1>3, <1>6, <1>7, <1>8, <1>9, <1>10, QueueStep DEF IInv

LEMMA TestInv == ASSUME IInv, NEW t \in Threads, Test(t) PROVE IInv'
<1>0. /\ pc[t] = "test" /\ ~held /\ pc' = [pc EXCEPT ![t] = "set"]
      /\ UNCHANGED <<kind, permit, mcsVars, blockVars, held, wordVars, line>>
  BY DEF Test
<1>1. kind \in QueueKinds /\ kind \in WithHeld BY <1>0, QueuePcs
<1> USE DEF mcsVars, blockVars, wordVars
<1>2. TypeOK' BY <1>0 DEF IInv, TypeOK, McsPcs
<1>3. KindInv' BY <1>0, <1>1, Families DEF IInv, TypeOK, KindInv, McsPcs, BlockPcs
<1>4. InLine(t) /\ InLine(t)' BY <1>0 DEF InLine, IInv, TypeOK
<1>5. t = line[1] BY <1>0, <1>1, <1>4, LineFacts
<1>6. \A u \in permit' : pc'[u] = "parked" /\ u = line[1]
  BY <1>0, <1>1 DEF IInv, TypeOK, LineInv
<1>7. LineInv' BY <1>0, <1>1, <1>4, <1>5, <1>6, StayInLine
<1>8. ChainInv' BY <1>0, <1>1, <1>4, ChainStay
<1>9. TokenInv' BY <1>0, TokenStay
<1>10. BlockInv' BY <1>0, BlockStay
<1>11. FlagInv'
  <2>1. \A u \in Threads : ~Past(u) BY <1>0, <1>1 DEF IInv, FlagInv
  <2>2. \A u \in Threads : pc[u] = "set" => InLine(u) BY DEF InLine
  <2>3. \A u \in Threads : pc[u] = "set" => u = t BY <1>1, <1>5, <2>2, LineFacts
  <2>4. \A u \in Threads : u # t => pc'[u] = pc[u] BY <1>0 DEF IInv, TypeOK
  <2>5. pc'[t] = "set" BY <1>0 DEF IInv, TypeOK
  <2>6. \A u \in Threads : ~Past(u)' BY <2>1, <2>4, <2>5 DEF Past
  <2>7. \A u \in Threads : pc'[u] = "set" => u = t BY <2>3, <2>4
  <2>8. held' = FALSE BY <1>0 DEF IInv, TypeOK
  <2> HIDE DEF Past
  <2> QED BY <2>6, <2>7, <2>8 DEF FlagInv
<1> QED BY <1>0, <1>1, <1>2, <1>3, <1>7, <1>8, <1>9, <1>10, <1>11, QueueStep DEF IInv

LEMMA RaiseInv == ASSUME IInv, NEW t \in Threads, Raise(t) PROVE IInv'
<1>0. /\ pc[t] = "set" /\ held' = TRUE /\ pc' = [pc EXCEPT ![t] = "unlock"]
      /\ UNCHANGED <<kind, permit, mcsVars, blockVars, wordVars, line>>
  BY DEF Raise
<1>1. kind \in QueueKinds /\ kind \in WithHeld BY <1>0, QueuePcs
<1> USE DEF mcsVars, blockVars, wordVars
<1>2. TypeOK' BY <1>0 DEF IInv, TypeOK, McsPcs
<1>3. KindInv' BY <1>0, <1>1, Families DEF IInv, TypeOK, KindInv, McsPcs, BlockPcs
<1>4. InLine(t) /\ InLine(t)' BY <1>0 DEF InLine, IInv, TypeOK
<1>5. t = line[1] BY <1>0, <1>1, <1>4, LineFacts
<1>6. \A u \in permit' : pc'[u] = "parked" /\ u = line[1]
  BY <1>0, <1>1 DEF IInv, TypeOK, LineInv
<1>7. LineInv' BY <1>0, <1>1, <1>4, <1>5, <1>6, StayInLine
<1>8. ChainInv' BY <1>0, <1>1, <1>4, ChainStay
<1>9. TokenInv' BY <1>0, TokenStay
<1>10. BlockInv' BY <1>0, BlockStay
<1>11. FlagInv'
  <2>1. \A u \in Threads : Past(u) \/ pc[u] = "set" => u = t BY <1>0, <1>1 DEF IInv, FlagInv
  <2>2. \A u \in Threads : u # t => pc'[u] = pc[u] BY <1>0 DEF IInv, TypeOK
  <2>3. pc'[t] = "unlock" BY <1>0 DEF IInv, TypeOK
  <2>4. Past(t)' BY <2>3 DEF Past
  <2>5. \A u \in Threads : Past(u)' \/ pc'[u] = "set" => u = t BY <2>1, <2>2 DEF Past
  <2> HIDE DEF Past
  <2> QED BY <1>0, <2>4, <2>5 DEF FlagInv
<1> QED BY <1>0, <1>1, <1>2, <1>3, <1>7, <1>8, <1>9, <1>10, <1>11, QueueStep DEF IInv

LEMMA LowerInv == ASSUME IInv, NEW t \in Threads, Lower(t) PROVE IInv'
<1>0. /\ pc[t] = "in" /\ kind \in WithHeld /\ held' = FALSE /\ pc' = [pc EXCEPT ![t] = "out"]
      /\ UNCHANGED <<kind, permit, mcsVars, blockVars, wordVars, line>>
  BY DEF Lower
<1>1. kind \in QueueKinds BY <1>0, Families DEF IInv
<1> USE DEF mcsVars, blockVars, wordVars
<1>2. TypeOK' BY <1>0 DEF IInv, TypeOK, McsPcs
<1>3. KindInv' BY <1>0, <1>1, Families DEF IInv, TypeOK, KindInv, McsPcs, BlockPcs
<1>4. ~InLine(t) /\ ~InLine(t)' BY <1>0 DEF InLine, IInv, TypeOK
<1>6. \A u \in permit' : pc'[u] = "parked" /\ u = line[1]
  BY <1>0, <1>1 DEF IInv, TypeOK, LineInv
<1>7. LineInv' BY <1>0, <1>1, <1>4, <1>6, StayInLine
<1>8. ChainInv' BY <1>0, <1>1, <1>4, ChainStay
<1>9. TokenInv' BY <1>0, TokenStay
<1>10. BlockInv' BY <1>0, BlockStay
<1>11. FlagInv'
  <2>1. Past(t) BY <1>0 DEF Past
  <2>2. \A u \in Threads : Past(u) \/ pc[u] = "set" => u = t BY <1>0, <2>1 DEF IInv, FlagInv
  <2>3. \A u \in Threads : u # t => pc'[u] = pc[u] BY <1>0 DEF IInv, TypeOK
  <2>4. pc'[t] = "out" BY <1>0 DEF IInv, TypeOK
  <2>5. \A u \in Threads : ~Past(u)' /\ pc'[u] # "set" BY <2>2, <2>3, <2>4 DEF Past
  <2> HIDE DEF Past
  <2> QED BY <1>0, <2>5 DEF FlagInv
<1> QED BY <1>0, <1>1, <1>2, <1>3, <1>7, <1>8, <1>9, <1>10, <1>11, QueueStep DEF IInv

LEMMA UnlockInv == ASSUME IInv, NEW t \in Threads, Unlock(t) PROVE IInv'
<1>0. /\ pc[t] = "in" /\ kind \in QueueKinds /\ kind \notin WithHeld
      /\ pc' = [pc EXCEPT ![t] = "unlock"]
      /\ UNCHANGED <<kind, permit, mcsVars, blockVars, held, wordVars, line>>
  BY DEF Unlock
<1> USE DEF mcsVars, blockVars, wordVars
<1>2. TypeOK' BY <1>0 DEF IInv, TypeOK, McsPcs
<1>3. KindInv' BY <1>0, Families DEF IInv, TypeOK, KindInv, McsPcs, BlockPcs
<1>4. InLine(t) /\ InLine(t)' BY <1>0 DEF InLine, IInv, TypeOK
<1>5. t = line[1] BY <1>0, <1>4, LineFacts
<1>6. \A u \in permit' : pc'[u] = "parked" /\ u = line[1]
  BY <1>0 DEF IInv, TypeOK, LineInv
<1>7. LineInv' BY <1>0, <1>4, <1>5, <1>6, StayInLine
<1>8. ChainInv' BY <1>0, <1>4, ChainStay
<1>9. TokenInv' BY <1>0, TokenStay
<1>10. BlockInv' BY <1>0, BlockStay
<1>11. FlagInv' BY <1>0, FlagStay
<1> QED BY <1>0, <1>2, <1>3, <1>7, <1>8, <1>9, <1>10, <1>11, QueueStep DEF IInv

LEMMA WordLockInv ==
  ASSUME IInv, kind \notin QueueKinds, NEW t \in Threads, Lock(t)
  PROVE  IInv'
<1>0. /\ pc[t] = "out"
      /\ UNCHANGED <<kind, permit, mcsVars, blockVars, held, wordVars, line>>
  BY DEF Lock
<1>1. kind \in WordKinds /\ kind \notin BlockKinds BY Families DEF IInv
<1>2. PICK x \in {"grab", "try"} :
        pc' = [pc EXCEPT ![t] = x] /\ (x = "grab" <=> kind = "go_mutex")
  <2>1. CASE kind = "go_mutex"
    <3>1. pc' = [pc EXCEPT ![t] = "grab"] BY <1>1, <2>1 DEF Lock
    <3> QED BY <2>1, <3>1
  <2>2. CASE kind # "go_mutex"
    <3>1. pc' = [pc EXCEPT ![t] = "try"] BY <1>1, <2>2 DEF Lock
    <3> QED BY <2>2, <3>1
  <2> QED BY <2>1, <2>2
<1> USE DEF mcsVars, blockVars, wordVars
<1>3. TypeOK' BY <1>0, <1>2 DEF IInv, TypeOK, WordPcs
<1>4. KindInv' BY <1>0, <1>1, <1>2, Families DEF IInv, TypeOK, KindInv, WordPcs
<1>5. WordInv' BY <1>0, <1>1, <1>2 DEF IInv, TypeOK, WordInv
<1>6. NobodyForgotten' BY <1>0, <1>2 DEF IInv, TypeOK, NobodyForgotten
<1> QED BY <1>0, <1>1, <1>3, <1>4, <1>5, <1>6, WordStep DEF IInv

\* Where a thread goes that has got the lock inside, or left it.
LEMMA GotTo ==
  ASSUME NEW t \in Threads, Got(t)
  PROVE  \E x \in {"test", "in"} :
           pc' = [pc EXCEPT ![t] = x] /\ (x = "test" <=> kind \in WithHeld)
<1>1. CASE kind \in WithHeld BY <1>1 DEF Got
<1>2. CASE kind \notin WithHeld BY <1>2 DEF Got
<1> QED BY <1>1, <1>2

LEMMA LeftTo ==
  ASSUME NEW t \in Threads, Left(t)
  PROVE  \E x \in {"in", "out"} :
           pc' = [pc EXCEPT ![t] = x] /\ (x = "in" <=> kind \in WithHeld)
<1>1. CASE kind \in WithHeld BY <1>1 DEF Left
<1>2. CASE kind \notin WithHeld BY <1>2 DEF Left
<1> QED BY <1>1, <1>2

\* An empty line, seen from the tail.
LEMMA TailFacts ==
  ASSUME IInv, kind \in Mcs
  PROVE  /\ Len(line) \in Nat /\ (line = <<>> <=> Len(line) = 0)
         /\ tail = Null <=> Len(line) = 0
         /\ Len(line) > 0 => /\ tail = line[Len(line)] /\ Len(line) \in 1 .. Len(line)
                             /\ tail \in Threads /\ InLine(tail) /\ next[tail] = Null
<1>1. Len(line) \in Nat /\ (line = <<>> <=> Len(line) = 0) BY DEF IInv, TypeOK
<1>2. ChainInv BY DEF IInv
<1>3. kind \in QueueKinds BY Families DEF IInv
<1>4. Len(line) > 0 => Len(line) \in 1 .. Len(line) /\ line[Len(line)] \in Threads /\ InLine(line[Len(line)])
  BY <1>1, <1>3, LineFacts
<1> QED BY <1>1, <1>2, <1>4, SmallLocksAssumption DEF ChainInv

LEMMA PushInv == ASSUME IInv, NEW t \in Threads, Push(t) PROVE IInv'
<1>0. /\ pc[t] = "push" /\ tail' = t /\ line' = Append(line, t)
      /\ granted' = granted \ {t} /\ other' = [other EXCEPT ![t] = tail]
      /\ UNCHANGED <<kind, permit, next, parking, blockVars, held, wordVars>>
  BY DEF Push
<1>1. PICK x \in {"test", "in", "link"} :
        /\ pc' = [pc EXCEPT ![t] = x]
        /\ x = "link" <=> tail # Null
        /\ x # "link" => (x = "test" <=> kind \in WithHeld)
  <2>1. CASE tail = Null
    <3>1. Got(t) BY <2>1 DEF Push
    <3>2. PICK x \in {"test", "in"} :
           pc' = [pc EXCEPT ![t] = x] /\ (x = "test" <=> kind \in WithHeld) BY <3>1, GotTo
    <3> QED BY <2>1, <3>2
  <2>2. CASE tail # Null
    <3>1. pc' = [pc EXCEPT ![t] = "link"] BY <2>2 DEF Push
    <3> QED BY <2>2, <3>1
  <2> QED BY <2>1, <2>2
<1>2. kind \in Mcs /\ kind \in QueueKinds BY <1>0, QueuePcs
<1> USE DEF blockVars, wordVars
<1>3. TypeOK' BY <1>0, <1>1, Arrive DEF IInv, TypeOK, McsPcs
<1>4. KindInv' BY <1>0, <1>1, <1>2, Families DEF IInv, TypeOK, KindInv, McsPcs
<1>5. ~InLine(t) BY <1>0 DEF InLine
<1>6. pc'[t] = x /\ other'[t] = tail /\ \A u \in Threads : u # t => pc'[u] = pc[u] /\ other'[u] = other[u]
  BY <1>0, <1>1 DEF IInv, TypeOK
<1>7. InLine(t)' BY <1>0, <1>1, <1>6 DEF InLine
<1>8. line = <<>> <=> tail = Null BY <1>2, TailFacts
<1>9. permit # {} => line # <<>>
  <2> SUFFICES ASSUME NEW u \in permit PROVE line # <<>>
    OBVIOUS
  <2>1. u \in Threads /\ pc[u] = "parked" BY <1>2 DEF IInv, TypeOK, LineInv
  <2>2. Len(line) > 0 BY <1>2, <2>1, LineFacts DEF InLine
  <2> QED BY <1>2, <2>2, TailFacts
<1>10. LineInv' BY <1>0, <1>1, <1>2, <1>5, <1>7, <1>8, <1>9, ArriveInLine
<1>11. /\ Len(line') = Len(line) + 1 /\ Len(line) \in Nat /\ line'[Len(line) + 1] = t
       /\ \A i \in 1 .. Len(line) : line'[i] = line[i]
  BY <1>0, Arrive
<1>12. ChainInv /\ TokenInv BY DEF IInv
<1>13. \A i \in 1 .. Len(line) : line[i] \in Threads /\ line[i] # t BY <1>2, <1>5, LineFacts
<1>14. \A u \in Threads : u # t => (InLine(u)' <=> InLine(u)) BY <1>0, <1>6 DEF InLine
<1>15. ChainInv'
  <2>1. tail' = line'[Len(line')] BY <1>0, <1>11
  <2>2. ASSUME NEW i \in 2 .. Len(line')
        PROVE  /\ pc'[line'[i]] = "link" => other'[line'[i]] = line'[i - 1] /\ next'[line'[i - 1]] = Null
               /\ pc'[line'[i]] # "link" => next'[line'[i - 1]] = line'[i]
    <3>1. CASE i \in 2 .. Len(line)
      <4>1. i \in 1 .. Len(line) /\ i - 1 \in 1 .. Len(line) BY <1>11, <3>1
      <4>2. line'[i] = line[i] /\ line'[i - 1] = line[i - 1] /\ line[i] \in Threads /\ line[i] # t
        BY <1>11, <1>13, <4>1
      <4>3. pc'[line[i]] = pc[line[i]] /\ other'[line[i]] = other[line[i]] BY <1>6, <4>2
      <4> QED BY <1>0, <1>2, <1>12, <3>1, <4>2, <4>3 DEF ChainInv
    <3>2. CASE i = Len(line) + 1
      <4>1. Len(line) > 0 /\ i - 1 = Len(line) /\ i - 1 \in 1 .. Len(line) BY <1>11, <3>2
      <4>2. line'[i] = t /\ line'[i - 1] = line[Len(line)] BY <1>11, <3>2, <4>1
      <4>3. tail = line[Len(line)] /\ next[tail] = Null /\ tail # Null BY <1>2, <4>1, TailFacts
      <4> QED BY <1>0, <1>1, <1>6, <4>2, <4>3
    <3> QED BY <1>11, <3>1, <3>2
  <2>3. next'[line'[Len(line')]] = Null BY <1>0, <1>2, <1>5, <1>11, <1>12 DEF ChainInv
  <2>4. \A u \in Threads : ~InLine(u)' => next'[u] = Null
    BY <1>0, <1>2, <1>7, <1>12, <1>14 DEF ChainInv
  <2>5. Len(line') # 0 BY <1>11
  <2> HIDE DEF InLine
  <2> QED BY <2>1, <2>2, <2>3, <2>4, <2>5 DEF ChainInv
<1>16. TokenInv'
  <2>1. Len(line) > 0 => line'[1] = line[1] /\ line[1] \in Threads /\ line[1] # t BY <1>11, <1>13
  <2>2. \A u \in granted : u # t /\ u \in Threads BY <1>0, <1>2, <1>12 DEF TokenInv, IInv, TypeOK
  <2>3. granted' = granted BY <1>0, <2>2
  <2>4. \A u \in Threads : pc[u] \in {"wait", "parked"} => Len(line) > 0
    BY <1>2, LineFacts DEF InLine
  <2>5. Len(line') > 0 BY <1>11
  <2>6. parking \in SUBSET Threads BY DEF IInv, TypeOK
  <2> QED BY <1>0, <1>1, <1>2, <1>6, <1>12, <2>1, <2>2, <2>3, <2>4, <2>5, <2>6 DEF TokenInv
<1>17. BlockInv' BY <1>0, <1>2, NotBlock DEF IInv
<1>18. FlagInv'
  <2>1. kind \in WithHeld => ~Past(t) /\ ~Past(t)' /\ x # "set" BY <1>0, <1>1, <1>6 DEF Past
  <2> QED BY <1>0, <1>1, <2>1, FlagStay
<1> QED BY <1>0, <1>2, <1>3, <1>4, <1>10, <1>15, <1>16, <1>17, <1>18, QueueStep DEF IInv

\* Who has been let in, or told so, is the first of the line, and waits.
LEMMA PermitFacts ==
  ASSUME IInv, kind \in QueueKinds
  PROVE  \A u \in permit : u \in Threads /\ pc[u] = "parked" /\ u = line[1]
BY DEF IInv, TypeOK, LineInv

LEMMA LinkInv == ASSUME IInv, NEW t \in Threads, Link(t) PROVE IInv'
<1>0. /\ pc[t] = "link" /\ next' = [next EXCEPT ![other[t]] = t]
      /\ other' = [other EXCEPT ![t] = Null] /\ pc' = [pc EXCEPT ![t] = "wait"]
      /\ UNCHANGED <<kind, permit, tail, granted, parking, blockVars, held, wordVars, line>>
  BY DEF Link
<1>1. kind \in Mcs /\ kind \in QueueKinds BY <1>0, QueuePcs
<1> USE DEF blockVars, wordVars
<1>2. TypeOK' BY <1>0 DEF IInv, TypeOK, McsPcs
<1>3. KindInv' BY <1>0, <1>1, Families DEF IInv, TypeOK, KindInv, McsPcs
<1>4. pc'[t] = "wait" /\ \A u \in Threads : u # t => pc'[u] = pc[u] /\ other'[u] = other[u]
  BY <1>0 DEF IInv, TypeOK
<1>5. InLine(t) /\ InLine(t)' BY <1>0, <1>4 DEF InLine
<1>6. \A u \in permit' : pc'[u] = "parked" /\ u = line[1] BY <1>0, <1>1, <1>4, PermitFacts
<1>7. LineInv' BY <1>0, <1>1, <1>5, <1>6, StayInLine
<1>8. ChainInv /\ TokenInv /\ LineInv /\ Len(line) \in Nat BY DEF IInv, TypeOK
<1>9. PICK k \in 2 .. Len(line) : line[k] = t
  <2>1. PICK k \in 1 .. Len(line) : line[k] = t BY <1>1, <1>5, LineFacts
  <2>2. k # 1 BY <1>0, <1>1, <1>8, <2>1 DEF LineInv
  <2> QED BY <1>8, <2>1, <2>2
<1>10. k \in 1 .. Len(line) /\ k - 1 \in 1 .. Len(line) BY <1>8, <1>9
<1>11. /\ \A i, j \in 1 .. Len(line) : line[i] = line[j] => i = j
       /\ \A i \in 1 .. Len(line) : line[i] \in Threads /\ InLine(line[i])
  BY <1>1, <1>8, LineFacts DEF LineInv
<1>12. other[t] = line[k - 1] BY <1>0, <1>1, <1>8, <1>9 DEF ChainInv
<1>13. next'[line[k - 1]] = t /\ \A u \in Threads : u # line[k - 1] => next'[u] = next[u]
  BY <1>0, <1>10, <1>11, <1>12 DEF IInv, TypeOK
<1>14. ChainInv'
  <2>1. ASSUME NEW i \in 2 .. Len(line)
        PROVE  /\ pc'[line[i]] = "link" => other'[line[i]] = line[i - 1] /\ next'[line[i - 1]] = Null
               /\ pc'[line[i]] # "link" => next'[line[i - 1]] = line[i]
    <3>0. i \in 1 .. Len(line) /\ i - 1 \in 1 .. Len(line) BY <1>8
    <3>1. CASE i = k BY <1>4, <1>9, <1>13, <3>1
    <3>2. CASE i # k
      <4>1. line[i] # t /\ line[i - 1] # line[k - 1] BY <1>8, <1>9, <1>10, <1>11, <3>0, <3>2
      <4>2. /\ pc'[line[i]] = pc[line[i]] /\ other'[line[i]] = other[line[i]]
            /\ next'[line[i - 1]] = next[line[i - 1]]
        BY <1>4, <1>11, <1>13, <3>0, <4>1
      <4> QED BY <1>1, <1>8, <4>2 DEF ChainInv
    <3> QED BY <3>1, <3>2
  <2>2. next'[line[Len(line)]] = Null
    <3>1. Len(line) \in 1 .. Len(line) /\ Len(line) # k - 1 BY <1>8, <1>9
    <3>2. line[Len(line)] # line[k - 1] BY <1>10, <1>11, <3>1
    <3> QED BY <1>1, <1>8, <1>11, <1>13, <3>1, <3>2 DEF ChainInv
  <2>3. \A u \in Threads : ~InLine(u)' => next'[u] = Null
    <3>1. \A u \in Threads : u # t => (InLine(u)' <=> InLine(u)) BY <1>0, <1>4 DEF InLine
    <3>2. InLine(line[k - 1]) BY <1>10, <1>11
    <3> QED BY <1>1, <1>5, <1>8, <1>13, <3>1, <3>2 DEF ChainInv
  <2> HIDE DEF InLine
  <2> QED BY <1>0, <1>1, <1>8, <2>1, <2>2, <2>3 DEF ChainInv
<1>15. TokenInv'
  <2>1. line[1] # t /\ line[1] \in Threads BY <1>0, <1>1, <1>8, <1>9, <1>11 DEF LineInv
  <2>2. granted \in SUBSET Threads /\ parking \in SUBSET Threads BY DEF IInv, TypeOK
  <2> QED BY <1>0, <1>1, <1>4, <1>8, <2>1, <2>2 DEF TokenInv
<1>16. BlockInv' BY <1>0, <1>1, NotBlock DEF IInv
<1>17. FlagInv'
  <2>1. ~Past(t) /\ ~Past(t)' BY <1>0, <1>4 DEF Past
  <2> QED BY <1>0, <2>1, FlagStay
<1> QED BY <1>0, <1>1, <1>2, <1>3, <1>7, <1>14, <1>15, <1>16, <1>17, QueueStep DEF IInv

LEMMA WaitInv == ASSUME IInv, NEW t \in Threads, Wait(t) PROVE IInv'
<1>0. /\ pc[t] = "wait" /\ t \in granted /\ granted' = granted \ {t}
      /\ UNCHANGED <<kind, permit, tail, next, other, parking, blockVars, held, wordVars, line>>
  BY DEF Wait
<1>1. PICK x \in {"test", "in"} :
        pc' = [pc EXCEPT ![t] = x] /\ (x = "test" <=> kind \in WithHeld)
  BY GotTo DEF Wait
<1>2. kind \in Mcs /\ kind \in QueueKinds BY <1>0, QueuePcs
<1> USE DEF blockVars, wordVars
<1>3. TypeOK' BY <1>0, <1>1 DEF IInv, TypeOK, McsPcs
<1>4. KindInv' BY <1>0, <1>1, <1>2, Families DEF IInv, TypeOK, KindInv, McsPcs
<1>5. pc'[t] = x /\ \A u \in Threads : u # t => pc'[u] = pc[u] BY <1>1 DEF IInv, TypeOK
<1>6. InLine(t) /\ InLine(t)' BY <1>0, <1>1, <1>5 DEF InLine
<1>7. TokenInv /\ granted \in SUBSET Threads /\ parking \in SUBSET Threads BY DEF IInv, TypeOK
<1>8. t = line[1] BY <1>0, <1>2, <1>7 DEF TokenInv
<1>9. \A u \in permit' : pc'[u] = "parked" /\ u = line[1] BY <1>0, <1>2, <1>5, PermitFacts
<1>10. LineInv' BY <1>0, <1>1, <1>2, <1>6, <1>8, <1>9, StayInLine
<1>11. ChainInv' BY <1>0, <1>1, <1>2, <1>6, ChainStay
<1>12. TokenInv'
  <2>1. \A u \in Threads : pc[u] # "post" BY <1>0, <1>2, <1>7, <1>8 DEF TokenInv
  <2>2. \A u \in Threads : pc'[u] # "post" BY <1>1, <1>5, <2>1
  <2>3. granted' = {} BY <1>0, <1>2, <1>7, <1>8 DEF TokenInv
  <2>4. \A u \in Threads : pc'[u] = "parked" <=> pc[u] = "parked" BY <1>0, <1>1, <1>5
  <2> QED BY <1>0, <1>2, <1>7, <2>2, <2>3, <2>4 DEF TokenInv
<1>13. BlockInv' BY <1>0, <1>2, NotBlock DEF IInv
<1>14. FlagInv'
  <2>1. kind \in WithHeld => ~Past(t) /\ ~Past(t)' /\ x # "set" BY <1>0, <1>1, <1>5 DEF Past
  <2> QED BY <1>0, <1>1, <2>1, FlagStay
<1> QED BY <1>0, <1>2, <1>3, <1>4, <1>10, <1>11, <1>12, <1>13, <1>14, QueueStep DEF IInv

LEMMA WaitParksInv == ASSUME IInv, NEW t \in Threads, WaitParks(t) PROVE IInv'
<1>0. /\ pc[t] = "wait" /\ t \notin granted /\ parking' = parking \cup {t}
      /\ pc' = [pc EXCEPT ![t] = "parked"]
      /\ UNCHANGED <<kind, permit, tail, next, other, granted, blockVars, held, wordVars, line>>
  BY DEF WaitParks
<1>2. kind \in Mcs /\ kind \in QueueKinds BY <1>0, QueuePcs
<1> USE DEF blockVars, wordVars
<1>3. TypeOK' BY <1>0 DEF IInv, TypeOK, McsPcs
<1>4. KindInv' BY <1>0, <1>2, Families DEF IInv, TypeOK, KindInv, McsPcs
<1>5. pc'[t] = "parked" /\ \A u \in Threads : u # t => pc'[u] = pc[u] BY <1>0 DEF IInv, TypeOK
<1>6. InLine(t) /\ InLine(t)' BY <1>0, <1>5 DEF InLine
<1>7. TokenInv /\ granted \in SUBSET Threads /\ parking \in SUBSET Threads BY DEF IInv, TypeOK
<1>9. \A u \in permit' : pc'[u] = "parked" /\ u = line[1] BY <1>0, <1>2, <1>5, PermitFacts
<1>10. LineInv' BY <1>0, <1>2, <1>6, <1>9, StayInLine
<1>11. ChainInv' BY <1>0, <1>2, <1>6, ChainStay
<1>12. TokenInv'
  <2>1. t \notin permit BY <1>0, <1>2, PermitFacts
  <2>2. Len(line) > 0 /\ line[1] \in Threads BY <1>2, <1>6, LineFacts
  <2>3. \A u \in granted : pc'[u] = "wait" /\ u = line[1] BY <1>0, <1>2, <1>5, <1>7 DEF TokenInv
  <2>4. \A u \in parking' : pc'[u] = "parked" /\ u \notin permit
    BY <1>0, <1>2, <1>5, <1>7, <2>1 DEF TokenInv
  <2>5. \A u \in Threads : pc'[u] = "parked" => u \in permit \cup parking'
    BY <1>0, <1>2, <1>5, <1>7 DEF TokenInv
  <2>6. \A u \in Threads : pc'[u] = "post" <=> pc[u] = "post" BY <1>0, <1>5
  <2>7. pc[line[1]] \in {"wait", "parked"} => pc'[line[1]] \in {"wait", "parked"}
    BY <1>5, <2>2
  <2> QED BY <1>0, <1>2, <1>7, <2>3, <2>4, <2>5, <2>6, <2>7 DEF TokenInv
<1>13. BlockInv' BY <1>0, <1>2, NotBlock DEF IInv
<1>14. FlagInv'
  <2>1. ~Past(t) /\ ~Past(t)' BY <1>0, <1>5 DEF Past
  <2> QED BY <1>0, <2>1, FlagStay
<1> QED BY <1>0, <1>2, <1>3, <1>4, <1>10, <1>11, <1>12, <1>13, <1>14, QueueStep DEF IInv

LEMMA UnparkedInv == ASSUME IInv, NEW t \in Threads, Unparked(t) PROVE IInv'
<1>0. /\ pc[t] = "parked" /\ t \in permit /\ permit' = permit \ {t}
      /\ UNCHANGED <<kind, mcsVars, blockVars, held, wordVars, line>>
  BY DEF Unparked
<1>1. PICK x \in {"test", "in"} :
        pc' = [pc EXCEPT ![t] = x] /\ (x = "test" <=> kind \in WithHeld)
  BY GotTo DEF Unparked
<1>2. kind \in QueueKinds BY <1>0, QueuePcs
<1> USE DEF mcsVars, blockVars, wordVars
<1>3. TypeOK' BY <1>0, <1>1 DEF IInv, TypeOK, McsPcs
<1>4. KindInv' BY <1>0, <1>1, <1>2, Families DEF IInv, TypeOK, KindInv, McsPcs, BlockPcs
<1>5. pc'[t] = x /\ \A u \in Threads : u # t => pc'[u] = pc[u] BY <1>1 DEF IInv, TypeOK
<1>6. InLine(t) /\ InLine(t)' BY <1>0, <1>1, <1>5 DEF InLine
<1>8. t = line[1] /\ permit' = {} BY <1>0, <1>2, PermitFacts
<1>9. \A u \in permit' : pc'[u] = "parked" /\ u = line[1] BY <1>8
<1>10. LineInv' BY <1>0, <1>1, <1>2, <1>6, <1>8, <1>9, StayInLine
<1>11. ChainInv' BY <1>0, <1>1, <1>2, <1>6, ChainStay
<1>12. TokenInv'
  <2>1. CASE kind \in Mcs
    <3>0. TokenInv /\ granted \in SUBSET Threads /\ parking \in SUBSET Threads BY DEF IInv, TypeOK
    <3>1. \A u \in Threads : pc[u] # "post" BY <1>0, <1>8, <2>1, <3>0 DEF TokenInv
    <3>2. \A u \in Threads : pc'[u] # "post" BY <1>1, <1>5, <3>1
    <3>3. \A u \in granted : pc'[u] = "wait" /\ u = line[1] BY <1>0, <1>5, <2>1, <3>0 DEF TokenInv
    <3>4. \A u \in parking : pc'[u] = "parked" BY <1>0, <1>5, <2>1, <3>0 DEF TokenInv
    <3>5. \A u \in Threads : pc'[u] = "parked" => u \in parking
      BY <1>0, <1>1, <1>2, <1>5, <1>8, <2>1, <3>0, PermitFacts DEF TokenInv
    <3> QED BY <1>0, <1>8, <3>2, <3>3, <3>4, <3>5 DEF TokenInv
  <2>2. CASE kind \notin Mcs BY <1>0, <2>2 DEF TokenInv
  <2> QED BY <2>1, <2>2
<1>13. BlockInv'
  <2>1. BlockInv BY DEF IInv
  <2>2. pc'[line[1]] # "parked" BY <1>1, <1>5, <1>8
  <2> QED BY <1>0, <2>1, <2>2 DEF BlockInv
<1>14. FlagInv'
  <2>1. kind \in WithHeld => ~Past(t) /\ ~Past(t)' /\ x # "set" BY <1>0, <1>1, <1>5 DEF Past
  <2> QED BY <1>0, <1>1, <2>1, FlagStay
<1> QED BY <1>0, <1>2, <1>3, <1>4, <1>10, <1>11, <1>12, <1>13, <1>14, QueueStep DEF IInv

\* The thread that unlocks is the first of the line, and nobody is told yet.
LEMMA UnlockFacts ==
  ASSUME IInv, NEW t \in Threads, pc[t] = "unlock", kind \in QueueKinds
  PROVE  /\ Len(line) \in Nat /\ Len(line) > 0 /\ line[1] = t /\ permit = {}
         /\ kind \in Mcs => /\ granted = {} /\ \A u \in Threads : pc[u] # "post"
                            /\ tail = t <=> Len(line) = 1
<1>1. InLine(t) BY DEF InLine
<1>2. Len(line) \in Nat /\ Len(line) > 0 /\ line[1] = t BY <1>1, LineFacts
<1>3. permit = {} BY <1>2, PermitFacts
<1>4. ASSUME kind \in Mcs
      PROVE  granted = {} /\ (\A u \in Threads : pc[u] # "post") /\ (tail = t <=> Len(line) = 1)
  <2>1. TokenInv /\ LineInv /\ ChainInv BY DEF IInv
  <2>2. granted = {} BY <1>2, <1>4, <2>1 DEF TokenInv
  <2>3. \A u \in Threads : pc[u] # "post" BY <1>2, <1>4, <2>1 DEF TokenInv
  <2>4. tail = line[Len(line)] BY <1>2, <1>4, <2>1 DEF ChainInv
  <2>5. 1 \in 1 .. Len(line) /\ Len(line) \in 1 .. Len(line) BY <1>2
  <2>6. \A i, j \in 1 .. Len(line) : line[i] = line[j] => i = j BY <2>1 DEF LineInv
  <2> QED BY <1>2, <2>2, <2>3, <2>4, <2>5, <2>6
<1> QED BY <1>2, <1>3, <1>4

LEMMA AdvanceInv == ASSUME IInv, NEW t \in Threads, Advance(t) PROVE IInv'
<1>0. /\ pc[t] = "unlock" /\ kind \in Mcs /\ line' = Tail(line)
      /\ UNCHANGED <<kind, permit, granted, parking, blockVars, held, wordVars>>
  BY DEF Advance, Mcs
<1>1. kind \in QueueKinds BY <1>0, QueuePcs
<1>2. /\ Len(line) \in Nat /\ Len(line) > 0 /\ line[1] = t /\ permit = {} /\ granted = {}
      /\ \A u \in Threads : pc[u] # "post"
      /\ tail = t <=> Len(line) = 1
  BY <1>0, <1>1, UnlockFacts
<1>3. /\ line' \in Seq(Threads) /\ Len(line') = Len(line) - 1
      /\ \A i \in 1 .. Len(line') : line'[i] = line[i + 1] /\ i + 1 \in 2 .. Len(line)
  BY <1>0, <1>2, Depart
<1>4. ChainInv /\ TokenInv /\ LineInv BY DEF IInv
<1>5. /\ \A i, j \in 1 .. Len(line) : line[i] = line[j] => i = j
      /\ \A i \in 1 .. Len(line) : line[i] \in Threads /\ InLine(line[i])
  BY <1>1, <1>4, LineFacts DEF LineInv
<1>6. \A i \in 2 .. Len(line) : i \in 1 .. Len(line) /\ line[i] # t /\ line[i] \in Threads
  BY <1>2, <1>5
<1>7. parking \in SUBSET Threads BY DEF IInv, TypeOK
<1> USE DEF blockVars, wordVars
<1>8. CASE tail = t
  <2>1. tail' = Null /\ UNCHANGED <<next, other>> /\ Left(t) BY <1>2, <1>8 DEF Advance
  <2>2. PICK x \in {"in", "out"} : pc' = [pc EXCEPT ![t] = x] /\ (x = "in" <=> kind \in WithHeld)
    BY <2>1, LeftTo
  <2>3. TypeOK' BY <1>0, <1>3, <2>1, <2>2 DEF IInv, TypeOK, McsPcs
  <2>4. KindInv' BY <1>0, <2>2, Families DEF IInv, TypeOK, KindInv, McsPcs
  <2>5. pc'[t] = x /\ \A u \in Threads : u # t => pc'[u] = pc[u] BY <2>2 DEF IInv, TypeOK
  <2>6. ~InLine(t)' BY <1>0, <2>2, <2>5 DEF InLine
  <2>7. Len(line) = 1 BY <1>2, <1>8
  <2>8. LineInv'
    <3>1. permit' = {} /\ UNCHANGED kind BY <1>0, <1>2
    <3>2. ~(Len(line) > 1) BY <2>7
    <3> QED BY <1>0, <1>1, <1>2, <2>2, <2>6, <3>1, <3>2, DepartFromLine
  <2>9. ChainInv'
    <3>1. Len(line') = 0 BY <1>3, <2>7
    <3>2. \A u \in Threads : u # t => (InLine(u)' <=> InLine(u)) BY <1>0, <2>5 DEF InLine
    <3>3. next[t] = Null BY <1>0, <1>2, <1>4, <2>7 DEF ChainInv
    <3>4. \A u \in Threads : ~InLine(u)' => next'[u] = Null
      BY <1>0, <1>4, <2>1, <3>2, <3>3 DEF ChainInv
    <3>5. 2 .. Len(line') = {} BY <3>1
    <3> HIDE DEF InLine
    <3> QED BY <2>1, <3>1, <3>4, <3>5 DEF ChainInv
  <2>10. TokenInv'
    <3>1. \A u \in Threads : pc'[u] # "post" BY <1>2, <2>2, <2>5
    <3>2. \A u \in Threads : pc'[u] = "parked" <=> pc[u] = "parked" BY <1>0, <2>2, <2>5
    <3> QED BY <1>0, <1>2, <1>4, <1>7, <3>1, <3>2 DEF TokenInv
  <2>11. BlockInv' BY <1>0, NotBlock DEF IInv
  <2>12. FlagInv'
    <3>1. kind \in WithHeld => Past(t) /\ Past(t)' /\ x # "set" BY <1>0, <2>2, <2>5 DEF Past
    <3> QED BY <1>0, <2>2, <3>1, FlagStay
  <2> QED BY <1>0, <1>1, <2>3, <2>4, <2>8, <2>9, <2>10, <2>11, <2>12, QueueStep DEF IInv
<1>9. CASE tail # t
  <2>1. /\ next[t] # Null /\ other' = [other EXCEPT ![t] = next[t]]
        /\ next' = [next EXCEPT ![t] = Null] /\ pc' = [pc EXCEPT ![t] = "post"]
        /\ UNCHANGED tail
    BY <1>9 DEF Advance
  <2>2. Len(line) > 1 /\ 2 \in 2 .. Len(line)
    <3>1. PICK n \in Nat : n = Len(line) /\ n # 1 /\ n > 0 BY <1>2, <1>9
    <3>2. n > 1 /\ 2 \in 2 .. n BY <3>1
    <3> QED BY <3>1, <3>2
  <2>3. pc[line[2]] # "link" /\ next[t] = line[2]
    BY <1>0, <1>2, <1>4, <2>1, <2>2 DEF ChainInv
  <2>4. TypeOK' BY <1>0, <1>3, <2>1 DEF IInv, TypeOK, McsPcs
  <2>5. KindInv' BY <1>0, <2>1, Families DEF IInv, TypeOK, KindInv, McsPcs
  <2>6. /\ pc'[t] = "post" /\ next'[t] = Null /\ other'[t] = line[2]
        /\ \A u \in Threads : u # t => pc'[u] = pc[u] /\ next'[u] = next[u] /\ other'[u] = other[u]
    BY <2>1, <2>3 DEF IInv, TypeOK
  <2>7. ~InLine(t)' BY <2>6 DEF InLine
  <2>8. LineInv' BY <1>0, <1>1, <1>2, <2>1, <2>2, <2>3, <2>7, DepartFromLine
  <2>9. ChainInv'
    <3>1. Len(line') > 0 /\ Len(line) = Len(line') + 1 /\ Len(line') \in 1 .. Len(line')
      BY <1>2, <1>3, <2>2
    <3>2. line'[Len(line')] = line[Len(line)] /\ line[Len(line)] # t /\ line[Len(line)] \in Threads
      BY <1>2, <1>3, <1>6, <3>1
    <3>3. tail' = line'[Len(line')] /\ next'[line'[Len(line')]] = Null
      BY <1>0, <1>2, <1>4, <2>1, <2>6, <3>2 DEF ChainInv
    <3>4. ASSUME NEW i \in 2 .. Len(line')
          PROVE  /\ pc'[line'[i]] = "link" => other'[line'[i]] = line'[i - 1] /\ next'[line'[i - 1]] = Null
                 /\ pc'[line'[i]] # "link" => next'[line'[i - 1]] = line'[i]
      <4>1. i \in 1 .. Len(line') /\ i - 1 \in 1 .. Len(line') BY <3>1
      <4>2. line'[i] = line[i + 1] /\ i + 1 \in 2 .. Len(line) BY <1>3, <4>1
      <4>3. line'[i - 1] = line[i] /\ i \in 2 .. Len(line) BY <1>3, <4>1
      <4>4. line[i] # t /\ line[i] \in Threads /\ line[i + 1] # t /\ line[i + 1] \in Threads
        BY <1>6, <4>2, <4>3
      <4>5. (i + 1) - 1 = i OBVIOUS
      <4>6. /\ pc[line[i + 1]] = "link" => other[line[i + 1]] = line[i] /\ next[line[i]] = Null
            /\ pc[line[i + 1]] # "link" => next[line[i]] = line[i + 1]
        BY <1>0, <1>4, <4>2, <4>5 DEF ChainInv
      <4> QED BY <2>6, <4>2, <4>3, <4>4, <4>6
    <3>5. \A u \in Threads : u # t => (InLine(u)' <=> InLine(u)) BY <1>0, <2>6 DEF InLine
    <3>6. \A u \in Threads : ~InLine(u)' => next'[u] = Null
      BY <1>0, <1>4, <2>6, <3>5 DEF ChainInv
    <3>7. Len(line') # 0 BY <3>1
    <3> HIDE DEF InLine
    <3> QED BY <3>3, <3>4, <3>6, <3>7 DEF ChainInv
  <2>10. TokenInv'
    <3>1. line'[1] = line[2] /\ Len(line') > 0 BY <1>3, <2>2
    <3>2. line[2] # t /\ line[2] \in Threads BY <1>6, <2>2
    <3>3. pc'[line[2]] \in {"wait", "parked"} BY <1>1, <1>4, <2>2, <2>3, <2>6, <3>2 DEF LineInv
    <3>4. \A u \in Threads : pc'[u] = "post" => u = t BY <1>2, <2>6
    <3>5. \A u \in Threads : pc'[u] = "parked" <=> pc[u] = "parked" BY <1>0, <2>6
    <3> QED BY <1>0, <1>2, <1>4, <1>7, <2>6, <3>1, <3>3, <3>4, <3>5 DEF TokenInv
  <2>11. BlockInv' BY <1>0, NotBlock DEF IInv
  <2>12. FlagInv'
    <3>1. Past(t) /\ Past(t)' BY <1>0, <2>6 DEF Past
    <3> QED BY <1>0, <2>1, <3>1, FlagStay
  <2> QED BY <1>0, <1>1, <2>4, <2>5, <2>8, <2>9, <2>10, <2>11, <2>12, QueueStep DEF IInv
<1> QED BY <1>8, <1>9

LEMMA PostInv == ASSUME IInv, NEW t \in Threads, Post(t) PROVE IInv'
<1> DEFINE s == other[t]
<1>0. /\ pc[t] = "post" /\ other' = [other EXCEPT ![t] = Null]
      /\ UNCHANGED <<kind, tail, next, blockVars, held, wordVars, line>>
      /\ \/ /\ s \in parking /\ parking' = parking \ {s} /\ permit' = permit \cup {s}
            /\ UNCHANGED granted
         \/ s \notin parking /\ granted' = granted \cup {s} /\ UNCHANGED <<parking, permit>>
  BY DEF Post
<1>1. PICK x \in {"in", "out"} : pc' = [pc EXCEPT ![t] = x] /\ (x = "in" <=> kind \in WithHeld)
  BY LeftTo DEF Post
<1>2. kind \in Mcs /\ kind \in QueueKinds BY <1>0, QueuePcs
<1>3. TokenInv /\ granted \in SUBSET Threads /\ parking \in SUBSET Threads /\ permit \in SUBSET Threads
  BY DEF IInv, TypeOK
<1>4. /\ Len(line) > 0 /\ s = line[1] /\ pc[s] \in {"wait", "parked"} /\ s \notin granted /\ s \notin permit
      /\ \A u \in Threads : pc[u] = "post" => u = t
  BY <1>0, <1>2, <1>3 DEF TokenInv
<1>5. 1 \in 1 .. Len(line) /\ s \in Threads BY <1>2, <1>4, LineFacts
<1>6. s # t BY <1>0, <1>4
<1> HIDE DEF s
<1> USE DEF blockVars, wordVars
<1>7. TypeOK' BY <1>0, <1>1, <1>5 DEF IInv, TypeOK, McsPcs
<1>8. KindInv' BY <1>0, <1>1, <1>2, Families DEF IInv, TypeOK, KindInv, McsPcs
<1>9. pc'[t] = x /\ \A u \in Threads : u # t => pc'[u] = pc[u] BY <1>1 DEF IInv, TypeOK
<1>10. ~InLine(t) /\ ~InLine(t)' BY <1>0, <1>1, <1>9 DEF InLine
<1>11. s \notin parking => pc[s] = "wait" BY <1>2, <1>3, <1>4, <1>5 DEF TokenInv
<1>12. s \in parking => pc[s] = "parked" BY <1>2, <1>3 DEF TokenInv
<1>13. \A u \in permit' : pc'[u] = "parked" /\ u = line[1]
  <2> SUFFICES ASSUME NEW u \in permit' PROVE pc'[u] = "parked" /\ u = line[1]
    OBVIOUS
  <2>1. CASE u \in permit BY <1>0, <1>2, <1>9, <2>1, PermitFacts
  <2>2. CASE u = s /\ s \in parking BY <1>4, <1>5, <1>6, <1>9, <1>12, <2>2
  <2> QED BY <1>0, <2>1, <2>2
<1>14. LineInv' BY <1>0, <1>1, <1>2, <1>10, <1>13, StayInLine
<1>15. \A u \in Threads : u # t => other'[u] = other[u] BY <1>0 DEF IInv, TypeOK
<1>16. ChainInv' BY <1>0, <1>1, <1>2, <1>10, <1>15, ChainStay
<1>17. TokenInv'
  <2>1. \A u \in Threads : pc'[u] # "post" BY <1>1, <1>4, <1>9
  <2>2. \A u \in granted' : pc'[u] = "wait" /\ u = line[1]
    <3> SUFFICES ASSUME NEW u \in granted' PROVE pc'[u] = "wait" /\ u = line[1]
      OBVIOUS
    <3>1. CASE u \in granted BY <1>0, <1>2, <1>3, <1>9, <3>1 DEF TokenInv
    <3>2. CASE u = s /\ s \notin parking BY <1>4, <1>5, <1>6, <1>9, <1>11, <3>2
    <3> QED BY <1>0, <3>1, <3>2
  <2>3. \A u \in parking' : pc'[u] = "parked" /\ u \notin permit'
    <3> SUFFICES ASSUME NEW u \in parking' PROVE pc'[u] = "parked" /\ u \notin permit'
      OBVIOUS
    <3>1. u \in parking /\ u # t BY <1>0, <1>2, <1>3 DEF TokenInv
    <3>2. pc[u] = "parked" /\ u \notin permit BY <1>2, <1>3, <3>1 DEF TokenInv
    <3> QED BY <1>0, <1>3, <1>9, <3>1, <3>2
  <2>4. \A u \in Threads : pc'[u] = "parked" => u \in permit' \cup parking'
    <3> SUFFICES ASSUME NEW u \in Threads, pc'[u] = "parked" PROVE u \in permit' \cup parking'
      OBVIOUS
    <3>1. pc[u] = "parked" BY <1>1, <1>9
    <3>2. u \in permit \cup parking BY <1>2, <1>3, <3>1 DEF TokenInv
    <3> QED BY <1>0, <3>2
  <2> QED BY <1>0, <2>1, <2>2, <2>3, <2>4 DEF TokenInv
<1>18. BlockInv' BY <1>0, <1>2, NotBlock DEF IInv
<1>19. FlagInv'
  <2>1. kind \in WithHeld => Past(t) /\ Past(t)' /\ x # "set" BY <1>0, <1>1, <1>9 DEF Past
  <2> QED BY <1>0, <1>1, <2>1, FlagStay
<1> QED BY <1>0, <1>2, <1>7, <1>8, <1>14, <1>16, <1>17, <1>18, <1>19, QueueStep DEF IInv

LEMMA BlockStepInv == ASSUME IInv, NEW t \in Threads, Block(t) PROVE IInv'
<1>0. /\ pc[t] = "block" /\ taken' = TRUE /\ line' = Append(line, t)
      /\ UNCHANGED <<kind, permit, mcsVars, held, wordVars>>
  BY DEF Block
<1>1. kind \in BlockKinds /\ kind \in QueueKinds BY <1>0, QueuePcs
<1>2. BlockInv /\ blocked \in Seq(Threads) BY DEF IInv, TypeOK
<1>3. line = <<>> <=> Len(line) = 0 BY DEF IInv, TypeOK
<1>4. taken <=> Len(line) > 0 BY <1>1, <1>2 DEF BlockInv
<1>5. PICK x \in {"test", "in", "parked"} :
        /\ pc' = [pc EXCEPT ![t] = x]
        /\ x = "parked" <=> taken
        /\ x # "parked" => (x = "test" <=> kind \in WithHeld)
        /\ IF x = "parked" THEN blocked' = Append(blocked, t) ELSE UNCHANGED blocked
  <2>1. CASE taken
    <3>1. pc' = [pc EXCEPT ![t] = "parked"] /\ blocked' = Append(blocked, t) BY <2>1 DEF Block
    <3> QED BY <2>1, <3>1
  <2>2. CASE ~taken
    <3>1. Got(t) /\ UNCHANGED blocked BY <2>2 DEF Block
    <3>2. PICK x \in {"test", "in"} :
           pc' = [pc EXCEPT ![t] = x] /\ (x = "test" <=> kind \in WithHeld) BY <3>1, GotTo
    <3> QED BY <2>2, <3>1, <3>2
  <2> QED BY <2>1, <2>2
<1>6. /\ Len(line') = Len(line) + 1 /\ Len(line) \in Nat /\ line'[Len(line) + 1] = t
      /\ line' \in Seq(Threads)
      /\ \A i \in 1 .. Len(line) : line'[i] = line[i]
  BY <1>0, Arrive
<1>7. blocked' \in Seq(Threads) BY <1>2, <1>5
<1> USE DEF mcsVars, wordVars
<1>8. TypeOK' BY <1>0, <1>5, <1>6, <1>7 DEF IInv, TypeOK, BlockPcs
<1>9. KindInv' BY <1>0, <1>1, <1>5, Families DEF IInv, TypeOK, KindInv, BlockPcs
<1>10. pc'[t] = x /\ \A u \in Threads : u # t => pc'[u] = pc[u] BY <1>5 DEF IInv, TypeOK
<1>11. ~InLine(t) BY <1>0 DEF InLine
<1>12. InLine(t)' BY <1>0, <1>5, <1>10 DEF InLine
<1>13. permit # {} => line # <<>>
  <2> SUFFICES ASSUME NEW u \in permit PROVE line # <<>>
    OBVIOUS
  <2>1. u \in Threads /\ InLine(u) BY <1>1, PermitFacts DEF InLine
  <2> QED BY <1>1, <1>3, <2>1, LineFacts
<1>14. line = <<>> <=> x # "parked" BY <1>3, <1>4, <1>5, <1>6
<1>15. LineInv'
  <2>1. IF line = <<>> THEN x # "link" ELSE x \in {"link", "parked"} BY <1>5, <1>14
  <2> QED BY <1>0, <1>1, <1>5, <1>11, <1>12, <1>13, <2>1, ArriveInLine
<1>16. BlockInv'
  <2>1. taken' <=> Len(line') > 0 BY <1>0, <1>6
  <2>2. CASE x = "parked"
    <3>1. Len(line) > 0 BY <1>4, <1>5, <2>2
    <3>2. /\ Len(blocked) = Len(line) - 1
          /\ \A i \in 1 .. Len(blocked) : blocked[i] = line[i + 1]
          /\ pc[line[1]] = "parked" => line[1] \in permit
      BY <1>1, <1>2, <3>1 DEF BlockInv
    <3>3. /\ Len(blocked') = Len(blocked) + 1 /\ Len(blocked) \in Nat
          /\ blocked'[Len(blocked) + 1] = t
          /\ \A i \in 1 .. Len(blocked) : blocked'[i] = blocked[i]
      BY <1>2, <1>5, <2>2
    <3>4. Len(blocked') = Len(line') - 1 BY <1>6, <3>2, <3>3
    <3>5. ASSUME NEW i \in 1 .. Len(blocked') PROVE blocked'[i] = line'[i + 1]
      <4>1. CASE i = Len(line) BY <1>6, <3>2, <3>3, <4>1
      <4>2. CASE i # Len(line)
        <5>1. i \in 1 .. Len(blocked) /\ i + 1 \in 1 .. Len(line) BY <1>6, <3>2, <3>3, <4>2
        <5> QED BY <1>6, <3>2, <3>3, <5>1
      <4> QED BY <4>1, <4>2
    <3>6. line'[1] = line[1] /\ line[1] \in Threads /\ line[1] # t
      <4>1. 1 \in 1 .. Len(line) BY <1>6, <3>1
      <4> QED BY <1>1, <1>6, <1>11, <4>1, LineFacts
    <3>7. pc'[line'[1]] = "parked" => line'[1] \in permit' BY <1>0, <1>10, <3>2, <3>6
    <3>8. Len(line') # 0 BY <1>6
    <3> QED BY <2>1, <3>4, <3>5, <3>7, <3>8 DEF BlockInv
  <2>3. CASE x # "parked"
    <3>1. Len(line) = 0 /\ blocked = <<>> /\ blocked' = <<>>
      BY <1>1, <1>2, <1>3, <1>5, <1>14, <2>3 DEF BlockInv
    <3>2. Len(line') = 1 /\ line'[1] = t BY <1>6, <3>1
    <3>3. Len(blocked') = 0 BY <3>1
    <3> QED BY <1>10, <2>1, <2>3, <3>2, <3>3 DEF BlockInv
  <2> QED BY <2>2, <2>3
<1>17. ChainInv' /\ TokenInv' BY <1>0, <1>1, NotMcs DEF IInv
<1>18. FlagInv'
  <2>1. kind \in WithHeld => ~Past(t) /\ ~Past(t)' /\ x # "set" BY <1>0, <1>5, <1>10 DEF Past
  <2> QED BY <1>0, <1>5, <2>1, FlagStay
<1> QED BY <1>0, <1>1, <1>8, <1>9, <1>15, <1>16, <1>17, <1>18, QueueStep DEF IInv

LEMMA PassOnInv == ASSUME IInv, NEW t \in Threads, PassOn(t) PROVE IInv'
<1>0. /\ pc[t] = "unlock" /\ kind \in BlockKinds /\ line' = Tail(line)
      /\ taken' = (blocked # <<>>)
      /\ IF blocked = <<>> THEN UNCHANGED <<blocked, permit>>
         ELSE blocked' = Tail(blocked) /\ permit' = permit \cup {Head(blocked)}
      /\ UNCHANGED <<kind, mcsVars, held, wordVars>>
  BY DEF PassOn
<1>1. PICK x \in {"in", "out"} : pc' = [pc EXCEPT ![t] = x] /\ (x = "in" <=> kind \in WithHeld)
  BY LeftTo DEF PassOn
<1>2. kind \in QueueKinds /\ kind \notin WordKinds BY <1>0, Families DEF IInv
<1>3. Len(line) \in Nat /\ Len(line) > 0 /\ line[1] = t /\ permit = {}
  BY <1>0, <1>2, UnlockFacts
<1>4. blocked \in Seq(Threads) /\ BlockInv /\ LineInv BY DEF IInv, TypeOK
<1>5. /\ Len(blocked) = Len(line) - 1
      /\ \A i \in 1 .. Len(blocked) : blocked[i] = line[i + 1]
  BY <1>0, <1>3, <1>4 DEF BlockInv
<1>6. blocked = <<>> <=> Len(line) = 1 BY <1>3, <1>4, <1>5
<1>7. /\ line' \in Seq(Threads) /\ Len(line') = Len(line) - 1
      /\ \A i \in 1 .. Len(line') : line'[i] = line[i + 1] /\ i + 1 \in 2 .. Len(line)
  BY <1>0, <1>3, Depart
<1>8. blocked # <<>> =>
        /\ blocked' \in Seq(Threads) /\ Len(blocked') = Len(blocked) - 1
        /\ \A i \in 1 .. Len(blocked') : blocked'[i] = blocked[i + 1]
        /\ Head(blocked) = blocked[1] /\ blocked[1] \in Threads
  BY <1>0, <1>4
<1>9. \A i \in 2 .. Len(line) : line[i] \in Threads /\ line[i] # t
  <2>1. \A i \in 2 .. Len(line) : i \in 1 .. Len(line) /\ 1 \in 1 .. Len(line) /\ i # 1 BY <1>3
  <2> QED BY <1>2, <1>3, <1>4, <2>1, LineFacts DEF LineInv
<1>10. blocked # <<>> =>
         /\ Len(line) > 1 /\ 2 \in 2 .. Len(line) /\ permit' = {line[2]}
         /\ pc[line[2]] = "parked"
  <2> SUFFICES ASSUME blocked # <<>>
               PROVE  /\ Len(line) > 1 /\ 2 \in 2 .. Len(line) /\ permit' = {line[2]}
                      /\ pc[line[2]] = "parked"
    OBVIOUS
  <2>1. PICK n \in Nat : n = Len(line) /\ n # 1 /\ n > 0 BY <1>3, <1>6
  <2>2. n > 1 /\ 2 \in 2 .. n /\ 1 \in 1 .. n - 1 BY <2>1
  <2>3. Head(blocked) = line[2] BY <1>5, <1>8, <2>1, <2>2
  <2>4. pc[line[2]] \in {"link", "wait", "parked"} BY <1>2, <1>4, <2>1, <2>2 DEF LineInv
  <2>5. pc[line[2]] \in BlockPcs BY <1>0, <1>9, <2>1, <2>2 DEF IInv, KindInv
  <2> QED BY <1>0, <1>3, <2>1, <2>2, <2>3, <2>4, <2>5 DEF BlockPcs
<1> USE DEF mcsVars, wordVars
<1>11. blocked' \in Seq(Threads) /\ permit' \in SUBSET Threads BY <1>0, <1>3, <1>4, <1>8
<1>12. TypeOK' BY <1>0, <1>1, <1>7, <1>11 DEF IInv, TypeOK, BlockPcs
<1>13. KindInv' BY <1>0, <1>1, Families DEF IInv, TypeOK, KindInv, BlockPcs
<1>14. pc'[t] = x /\ \A u \in Threads : u # t => pc'[u] = pc[u] BY <1>1 DEF IInv, TypeOK
<1>15. ~InLine(t)' BY <1>0, <1>1, <1>14 DEF InLine
<1>16. LineInv'
  <2>0. PICK n \in Nat : n = Len(line) BY <1>3
  <2>1. Len(line) > 1 => blocked # <<>>
    <3>1. n > 1 => n # 1 OBVIOUS
    <3> QED BY <1>6, <2>0, <3>1
  <2>2. Len(line) > 1 => pc[line[2]] # "link" BY <1>10, <2>1
  <2>3. permit' = {} \/ (Len(line) > 1 /\ permit' = {line[2]} /\ pc[line[2]] = "parked")
    BY <1>0, <1>3, <1>10
  <2> QED BY <1>0, <1>1, <1>2, <1>3, <1>15, <2>2, <2>3, DepartFromLine
<1>17. BlockInv'
  <2>1. CASE blocked = <<>>
    <3>0. Len(line') = 0 BY <1>6, <1>7, <2>1
    <3>1. ~taken' /\ blocked' = <<>> BY <1>0, <2>1, Zenon
    <3>2. ~(Len(line') > 0) BY <3>0
    <3> QED BY <3>0, <3>1, <3>2 DEF BlockInv
  <2>2. CASE blocked # <<>>
    <3>1. PICK n \in Nat : n = Len(line) /\ n > 1 BY <1>3, <1>10, <2>2
    <3>2. Len(line') = n - 1 /\ Len(blocked') = n - 2 BY <1>5, <1>7, <1>8, <2>2, <3>1
    <3>3. taken' /\ Len(line') > 0 /\ Len(line') # 0
      <4>1. taken' BY <1>0, <2>2
      <4>2. n - 1 > 0 /\ n - 1 # 0 BY <3>1
      <4> QED BY <3>2, <4>1, <4>2
    <3>4. ASSUME NEW i \in 1 .. Len(blocked') PROVE blocked'[i] = line'[i + 1]
      <4>1. i + 1 \in 1 .. Len(blocked) /\ i + 1 \in 1 .. Len(line') BY <1>5, <3>1, <3>2
      <4> QED BY <1>5, <1>7, <1>8, <2>2, <4>1
    <3>5. line'[1] = line[2]
      <4>1. 1 \in 1 .. Len(line') BY <3>1, <3>2
      <4> QED BY <1>7, <4>1
    <3>6. line'[1] \in permit' BY <1>10, <2>2, <3>5
    <3>7. Len(blocked') = Len(line') - 1 BY <3>1, <3>2
    <3> QED BY <3>3, <3>4, <3>6, <3>7 DEF BlockInv
  <2> QED BY <2>1, <2>2
<1>18. ChainInv' /\ TokenInv' BY <1>0, NotMcs DEF IInv
<1>19. FlagInv'
  <2>1. kind \in WithHeld => Past(t) /\ Past(t)' /\ x # "set" BY <1>0, <1>1, <1>14 DEF Past
  <2> QED BY <1>0, <1>1, <2>1, FlagStay
<1> QED BY <1>0, <1>2, <1>12, <1>13, <1>16, <1>17, <1>18, <1>19, QueueStep DEF IInv
-----------------------------------------------------------------------------
\* Every step preserves the inductive invariant.
LEMMA NextInv == IInv /\ [Next]_vars => IInv'
<1> SUFFICES ASSUME IInv, [Next]_vars PROVE IInv'
  OBVIOUS
<1>1. CASE Next
  <2>1. PICK t \in Threads : Lock(t) \/ Step(t) \/ Interrupted(t) BY <1>1 DEF Next
  <2>2. CASE Lock(t) BY <2>2, QueueLockInv, WordLockInv
  <2>3. CASE Step(t)
    <3> USE <2>3, LinkInv, PushInv, WaitInv, WaitParksInv, UnparkedInv, AdvanceInv, PostInv,
        BlockStepInv, PassOnInv, TestInv, RaiseInv, LowerInv, TryLockInv, GrabInv, SpinInv,
        ContendInv, SleepInv, WokenInv, ReleaseInv, WakeInv, UnlockInv
    <3> QED BY DEF Step
  <2>4. CASE Interrupted(t) BY <2>4, WokenInv
  <2> QED BY <2>1, <2>2, <2>3, <2>4
<1>2. CASE UNCHANGED vars
  BY <1>2 DEF vars, mcsVars, blockVars, wordVars, IInv, TypeOK, KindInv, InLine, LineInv, ChainInv,
     TokenInv, BlockInv, Past, FlagInv, WordInv, NobodyForgotten
<1> QED BY <1>1, <1>2

\* The inductive invariant holds of every kind and any number of threads.
THEOREM Invariance == Spec => []IInv
<1>1. Init => IInv BY InitInv
<1>2. IInv /\ [Next]_vars => IInv' BY NextInv
<1> QED BY <1>1, <1>2, PTL DEF Spec

\* The wake-up that a sleeper relies on is never lost: with a futex, with
\* the spinning of go_mutex, or with the list of blocked threads
\* (locks.hfa:262-276, :314-345, :385-421).
THEOREM SleepersAreRemembered == Spec => []NobodyForgotten
<1>1. IInv => NobodyForgotten BY DEF IInv
<1> QED BY <1>1, Invariance, PTL

\* The locks with a queue serve in the order of arrival (lockfree.hfa:28-53,
\* locks.hfa:456-475, :673-679).
THEOREM QueueLocksAreFair == Spec => []FirstComeFirstServed
<1>1. IInv => FirstComeFirstServed
  <2> SUFFICES ASSUME IInv, NEW t \in Threads, kind \in QueueKinds,
                      pc[t] \in {"test", "set", "in", "unlock"}, ~(kind \in WithHeld /\ pc[t] = "in")
               PROVE  Head(line) = t
    BY DEF FirstComeFirstServed
  <2>1. InLine(t) BY DEF InLine
  <2>2. Len(line) > 0 /\ t = line[1] BY <2>1, LineFacts
  <2> QED BY <2>2, LineFacts
<1> QED BY <1>1, Invariance, PTL
-----------------------------------------------------------------------------
(***************************************************************************)
(* Each kind implements a mutual exclusion.                                *)
(***************************************************************************)
\* One thread at a time is between the end of lock and the start of unlock.
Exclusive == \A t, u \in Threads : Phase(t) = "in" /\ Phase(u) = "in" => t = u

LEMMA MutualExclusion == IInv => Exclusive
<1> USE DEF Exclusive
<1> SUFFICES ASSUME IInv, NEW t \in Threads, NEW u \in Threads, Phase(t) = "in", Phase(u) = "in"
             PROVE  t = u
  OBVIOUS
<1>1. CASE kind \in WithHeld
  <2>1. Past(t) /\ Past(u) BY <1>1 DEF Phase, Past
  <2> QED BY <1>1, <2>1 DEF IInv, FlagInv
<1>2. CASE kind \in QueueKinds /\ kind \notin WithHeld
  <2>1. pc[t] = "in" /\ pc[u] = "in" BY <1>2 DEF Phase
  <2>2. InLine(t) /\ InLine(u) BY <1>2, <2>1 DEF InLine
  <2> QED BY <1>2, <2>1, <2>2, LineFacts
<1>3. CASE kind \in WordKinds
  <2>1. kind \notin WithHeld BY <1>3, Families DEF IInv
  <2>2. pc[t] = "in" /\ pc[u] = "in" BY <2>1 DEF Phase
  <2> QED BY <1>3, <2>2 DEF IInv, WordInv
<1> QED BY <1>1, <1>2, <1>3, Families DEF IInv

\* A thread alone takes a step, and only as a lock may: it starts to try,
\* gets in, leaves, or is where it was.
Legal(t) ==
  \/ Phase(t)' = Phase(t)
  \/ Phase(t) = "out" /\ Phase(t)' = "trying"
  \/ Phase(t) = "trying" /\ Phase(t)' = "in"
  \/ Phase(t) = "in" /\ Phase(t)' = "out"

\* A step of t that takes its code from pc[t] to x.
Moves(t, x) ==
  /\ UNCHANGED kind /\ pc' = [pc EXCEPT ![t] = x]
  /\ \A u \in Threads : u # t => pc'[u] = pc[u]
  /\ pc'[t] = x

LEMMA MovesIs ==
  ASSUME IInv, NEW t \in Threads, NEW x, UNCHANGED kind, pc' = [pc EXCEPT ![t] = x]
  PROVE  Moves(t, x)
BY DEF IInv, TypeOK, Moves

LEMMA QueueLegal ==
  ASSUME IInv, NEW t \in Threads,
         \/ Push(t) \/ Link(t) \/ Wait(t) \/ WaitParks(t) \/ Unparked(t) \/ Advance(t) \/ Post(t)
         \/ Block(t) \/ PassOn(t) \/ Test(t) \/ Raise(t) \/ Lower(t) \/ Unlock(t)
  PROVE  \E x : Moves(t, x) /\ Legal(t)
<1> USE DEF Legal, Phase
<1>0. kind \in WordKinds => kind \notin WithHeld BY Families DEF IInv
<1>1. ASSUME Got(t), UNCHANGED kind, pc[t] \in {"push", "wait", "parked", "block"}
      PROVE  \E x : Moves(t, x) /\ Legal(t)
  <2>1. PICK x \in {"test", "in"} :
         pc' = [pc EXCEPT ![t] = x] /\ (x = "test" <=> kind \in WithHeld) BY <1>1, GotTo
  <2>2. Moves(t, x) BY <1>1, <2>1, MovesIs
  <2>3. Legal(t) BY <1>1, <2>1, <2>2 DEF Moves
  <2> QED BY <2>2, <2>3
<1>2. ASSUME Left(t), UNCHANGED kind, pc[t] \in {"unlock", "post"}
      PROVE  \E x : Moves(t, x) /\ Legal(t)
  <2>1. PICK x \in {"in", "out"} :
         pc' = [pc EXCEPT ![t] = x] /\ (x = "in" <=> kind \in WithHeld) BY <1>2, LeftTo
  <2>2. Moves(t, x) BY <1>2, <2>1, MovesIs
  <2>3. Legal(t) BY <1>2, <2>1, <2>2 DEF Moves
  <2> QED BY <2>2, <2>3
<1>3. CASE Push(t)
  <2>1. pc[t] = "push" /\ UNCHANGED kind /\ (Got(t) \/ pc' = [pc EXCEPT ![t] = "link"])
    BY <1>3 DEF Push
  <2>2. CASE Got(t) BY <1>1, <2>1, <2>2
  <2>3. CASE pc' = [pc EXCEPT ![t] = "link"]
    <3>1. Moves(t, "link") BY <2>1, <2>3, MovesIs
    <3>2. Legal(t) BY <2>1, <3>1 DEF Moves
    <3> QED BY <3>1, <3>2
  <2> QED BY <2>1, <2>2, <2>3
<1>4. CASE Link(t)
  <2>1. pc[t] = "link" /\ UNCHANGED kind /\ pc' = [pc EXCEPT ![t] = "wait"] BY <1>4 DEF Link
  <2>2. Moves(t, "wait") BY <2>1, MovesIs
  <2>3. Legal(t) BY <2>1, <2>2 DEF Moves
  <2> QED BY <2>2, <2>3
<1>5. CASE WaitParks(t)
  <2>1. pc[t] = "wait" /\ UNCHANGED kind /\ pc' = [pc EXCEPT ![t] = "parked"] BY <1>5 DEF WaitParks
  <2>2. Moves(t, "parked") BY <2>1, MovesIs
  <2>3. Legal(t) BY <2>1, <2>2 DEF Moves
  <2> QED BY <2>2, <2>3
<1>6. CASE Wait(t) BY <1>1, <1>6 DEF Wait
<1>7. CASE Unparked(t) BY <1>1, <1>7 DEF Unparked
<1>8. CASE Advance(t)
  <2>1. pc[t] = "unlock" /\ UNCHANGED kind /\ (Left(t) \/ pc' = [pc EXCEPT ![t] = "post"])
    BY <1>8 DEF Advance
  <2>2. CASE Left(t) BY <1>2, <2>1, <2>2
  <2>3. CASE pc' = [pc EXCEPT ![t] = "post"]
    <3>1. Moves(t, "post") BY <2>1, <2>3, MovesIs
    <3>2. Legal(t) BY <2>1, <3>1 DEF Moves
    <3> QED BY <3>1, <3>2
  <2> QED BY <2>1, <2>2, <2>3
<1>9. CASE Post(t) BY <1>2, <1>9 DEF Post
<1>10. CASE Block(t)
  <2>1. pc[t] = "block" /\ UNCHANGED kind /\ (Got(t) \/ pc' = [pc EXCEPT ![t] = "parked"])
    BY <1>10 DEF Block
  <2>2. CASE Got(t) BY <1>1, <2>1, <2>2
  <2>3. CASE pc' = [pc EXCEPT ![t] = "parked"]
    <3>1. Moves(t, "parked") BY <2>1, <2>3, MovesIs
    <3>2. Legal(t) BY <2>1, <3>1 DEF Moves
    <3> QED BY <3>1, <3>2
  <2> QED BY <2>1, <2>2, <2>3
<1>11. CASE PassOn(t) BY <1>2, <1>11 DEF PassOn
<1>12. CASE Test(t)
  <2>1. pc[t] = "test" /\ UNCHANGED kind /\ pc' = [pc EXCEPT ![t] = "set"] BY <1>12 DEF Test
  <2>2. Moves(t, "set") BY <2>1, MovesIs
  <2>3. Legal(t) BY <2>1, <2>2 DEF Moves
  <2> QED BY <2>2, <2>3
<1>13. CASE Raise(t)
  <2>1. pc[t] = "set" /\ UNCHANGED kind /\ pc' = [pc EXCEPT ![t] = "unlock"] BY <1>13 DEF Raise
  <2>2. Moves(t, "unlock") BY <2>1, MovesIs
  <2>3. kind \in WithHeld BY <2>1, QueuePcs
  <2>4. Legal(t) BY <2>1, <2>2, <2>3 DEF Moves
  <2> QED BY <2>2, <2>4
<1>14. CASE Lower(t)
  <2>1. pc[t] = "in" /\ UNCHANGED kind /\ pc' = [pc EXCEPT ![t] = "out"] BY <1>14 DEF Lower
  <2>2. Moves(t, "out") BY <2>1, MovesIs
  <2>3. Legal(t) BY <2>1, <2>2 DEF Moves
  <2> QED BY <2>2, <2>3
<1>15. CASE Unlock(t)
  <2>1. pc[t] = "in" /\ UNCHANGED kind /\ kind \notin WithHeld /\ pc' = [pc EXCEPT ![t] = "unlock"]
    BY <1>15 DEF Unlock
  <2>2. Moves(t, "unlock") BY <2>1, MovesIs
  <2>3. Legal(t) BY <2>1, <2>2 DEF Moves
  <2> QED BY <2>2, <2>3
<1> QED BY <1>3, <1>4, <1>5, <1>6, <1>7, <1>8, <1>9, <1>10, <1>11, <1>12, <1>13, <1>14, <1>15

LEMMA WordLegal ==
  ASSUME IInv, NEW t \in Threads,
         \/ TryLock(t) \/ Grab(t) \/ Spin(t) \/ Contend(t) \/ Sleep(t) \/ Woken(t)
         \/ Interrupted(t) \/ Release(t) \/ Wake(t)
  PROVE  \E x : Moves(t, x) /\ Legal(t)
<1>1. ASSUME NEW x \in {"in", "contend", "sleep", "spin", "asleep", "try"}, UNCHANGED kind,
             pc' = [pc EXCEPT ![t] = x],
             pc[t] \in {"try", "grab", "spin", "contend", "sleep", "asleep"}
      PROVE  \E y : Moves(t, y) /\ Legal(t)
  <2>1. Moves(t, x) BY <1>1, MovesIs
  <2>2. Legal(t) BY <1>1, <2>1 DEF Moves, Legal, Phase
  <2> QED BY <2>1, <2>2
<1>2. ASSUME NEW x \in {"out", "wake"}, UNCHANGED kind, pc' = [pc EXCEPT ![t] = x],
             pc[t] \in {"in", "wake"}
      PROVE  \E y : Moves(t, y) /\ Legal(t)
  <2>1. Moves(t, x) BY <1>2, MovesIs
  <2>2. pc[t] = "wake" => x = "out" \/ x = "wake" BY <1>2
  <2>3. Legal(t) BY <1>2, <2>1, <2>2 DEF Moves, Legal, Phase
  <2> QED BY <2>1, <2>3
<1>3. CASE TryLock(t)
  <2>1. val = 0 \/ val = 1 \/ val = 2 BY DEF IInv, TypeOK
  <2>2. pc[t] = "try" /\ UNCHANGED kind BY <1>3 DEF TryLock, wordFrame
  <2>3. pc = [pc EXCEPT ![t] = "try"] BY <2>2 DEF IInv, TypeOK
  <2>4. CASE val = 0
    <3>1. pc' = [pc EXCEPT ![t] = "in"] BY <1>3, <2>4 DEF TryLock
    <3> QED BY <1>1, <2>2, <3>1
  <2>5. CASE val = 1
    <3>1. pc' = [pc EXCEPT ![t] = "try"] \/ pc' = [pc EXCEPT ![t] = "contend"]
      BY <1>3, <2>3, <2>5 DEF TryLock
    <3> QED BY <1>1, <2>2, <3>1
  <2>6. CASE val = 2
    <3>1. pc' = [pc EXCEPT ![t] = "sleep"] BY <1>3, <2>6 DEF TryLock
    <3> QED BY <1>1, <2>2, <3>1
  <2> QED BY <2>1, <2>4, <2>5, <2>6
<1>4. CASE Grab(t)
  <2>1. /\ pc[t] = "grab" /\ UNCHANGED kind
        /\ pc' = [pc EXCEPT ![t] = "in"] \/ pc' = [pc EXCEPT ![t] = "spin"]
    BY <1>4 DEF Grab, wordFrame
  <2> QED BY <1>1, <2>1
<1>5. CASE Spin(t)
  <2>1. /\ pc[t] = "spin" /\ UNCHANGED kind
        /\ pc' = [pc EXCEPT ![t] = "in"] \/ pc' = [pc EXCEPT ![t] = "contend"]
    BY <1>5 DEF Spin, wordFrame
  <2> QED BY <1>1, <2>1
<1>6. CASE Contend(t)
  <2>1. /\ pc[t] = "contend" /\ UNCHANGED kind
        /\ pc' = [pc EXCEPT ![t] = "in"] \/ pc' = [pc EXCEPT ![t] = "sleep"]
    BY <1>6 DEF Contend, wordFrame
  <2> QED BY <1>1, <2>1
<1>7. CASE Sleep(t) \/ Woken(t) \/ Interrupted(t)
  <2>1. /\ pc[t] \in {"sleep", "asleep"} /\ UNCHANGED kind
        /\ \/ pc' = [pc EXCEPT ![t] = "asleep"] \/ pc' = [pc EXCEPT ![t] = "spin"]
           \/ pc' = [pc EXCEPT ![t] = "contend"]
    BY <1>7 DEF Sleep, Woken, Interrupted, Again, wordFrame
  <2> QED BY <1>1, <2>1
<1>8. CASE Release(t)
  <2>1. /\ pc[t] = "in" /\ UNCHANGED kind
        /\ pc' = [pc EXCEPT ![t] = "out"] \/ pc' = [pc EXCEPT ![t] = "wake"]
    BY <1>8 DEF Release, wordFrame
  <2> QED BY <1>2, <2>1
<1>9. CASE Wake(t)
  <2>1. pc[t] = "wake" /\ UNCHANGED kind /\ pc' = [pc EXCEPT ![t] = "out"] BY <1>9 DEF Wake
  <2> QED BY <1>2, <2>1
<1> QED BY <1>3, <1>4, <1>5, <1>6, <1>7, <1>8, <1>9

LEMMA LockLegal ==
  ASSUME IInv, NEW t \in Threads, Lock(t)
  PROVE  \E x : Moves(t, x) /\ Legal(t)
<1>1. pc[t] = "out" /\ UNCHANGED kind BY DEF Lock
<1>2. PICK x \in {"block", "grab", "try", "push"} : pc' = [pc EXCEPT ![t] = x]
  <2>1. CASE kind \in BlockKinds
    <3>1. kind \notin WordKinds /\ kind # "go_mutex"
      BY <2>1 DEF BlockKinds, WordKinds, FutexKinds
    <3> QED BY <2>1, <3>1 DEF Lock
  <2>2. CASE kind \notin BlockKinds BY <2>2 DEF Lock
  <2> QED BY <2>1, <2>2
<1>3. Moves(t, x) BY <1>1, <1>2, MovesIs
<1>4. Legal(t) BY <1>1, <1>2, <1>3 DEF Moves, Legal, Phase
<1> QED BY <1>3, <1>4

\* Each of the nine kinds is a mutual exclusion: a thread gets in only while
\* no other is (locks.hfa:137-440, :656-762).
THEOREM EveryKindIsAMutex == Spec => Abstract!Spec
<1>1. Init => Abstract!Init
  BY DEF Init, Abstract!Init, Phase
<1>2. IInv /\ Exclusive' /\ [Next]_vars => [Abstract!Next]_([t \in Threads |-> Phase(t)])
  <2> SUFFICES ASSUME IInv, Exclusive', [Next]_vars
               PROVE  [Abstract!Next]_([t \in Threads |-> Phase(t)])
    OBVIOUS
  <2>1. CASE UNCHANGED vars BY <2>1 DEF vars, Phase
  <2>2. CASE Next
    <3>1. PICK t \in Threads : Lock(t) \/ Step(t) \/ Interrupted(t) BY <2>2 DEF Next
    <3>2. PICK x : Moves(t, x) /\ Legal(t)
      BY <3>1, LockLegal, QueueLegal, WordLegal DEF Step
    <3>3. \A u \in Threads : u # t => Phase(u)' = Phase(u) BY <3>2 DEF Moves, Phase
    <3> DEFINE view == [u \in Threads |-> Phase(u)]
    <3>4. view' = [view EXCEPT ![t] = Phase(t)'] BY <3>3
    <3>5. CASE Phase(t)' = Phase(t)
      <4>1. view' = view BY <3>4, <3>5
      <4> QED BY <4>1
    <3>6. CASE Phase(t) = "out" /\ Phase(t)' = "trying"
      <4>1. Abstract!Try(t) BY <3>4, <3>6 DEF Abstract!Try
      <4> QED BY <4>1 DEF Abstract!Next
    <3>7. CASE Phase(t) = "trying" /\ Phase(t)' = "in"
      <4>1. \A u \in Threads : Phase(u) # "in"
        BY <3>3, <3>7 DEF Exclusive
      <4>2. Abstract!Acquire(t) BY <3>4, <3>7, <4>1 DEF Abstract!Acquire
      <4> QED BY <4>2 DEF Abstract!Next
    <3>8. CASE Phase(t) = "in" /\ Phase(t)' = "out"
      <4>1. Abstract!Release(t) BY <3>4, <3>8 DEF Abstract!Release
      <4> QED BY <4>1 DEF Abstract!Next
    <3> QED BY <3>2, <3>5, <3>6, <3>7, <3>8 DEF Legal
  <2> QED BY <2>1, <2>2
<1> QED BY <1>1, <1>2, Invariance, MutualExclusion, PTL DEF Spec, Abstract!Spec
=============================================================================
