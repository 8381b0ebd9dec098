---------------------------- MODULE KernelProofs ----------------------------
(***************************************************************************)
(* TLAPS proofs about Kernel: for any number of processors, threads and    *)
(* outside wakers, tickets match, a runnable thread is in one place, the   *)
(* states agree, park returns only when it was unparked, no ready thread   *)
(* is left to sleeping processors, and park and unpark are permits.        *)
(***************************************************************************)
EXTENDS Kernel, TLAPS

Holding == {"run", "cancel", "rerun", "exec", "back", "settle"}

\* What a processor or a waker holds is what its program counter says.
HeldInv ==
  /\ \A p \in Procs : cur[p] # NoThread <=> pc[p] \in Holding
  /\ \A w \in Wakers : wthr[w] # NoThread <=> wpc[w] \in {"unpark", "sched", "push"}
  /\ \A p \in Procs : wpc[p] # "idle" => pc[p] \in {"resched", "finish"}

Taken(w, t) == wpc[w] = "unpark" /\ wthr[w] = t

\* Nobody owes the thread a wake, and its ticket is balanced.
Free(t) == ticket[t] = 0 /\ ~enlisted[t] /\ \A w \in Wakers : ~Taken(w, t)

\* At most one waker owes a thread its wake, and it has not paid it yet.
TakenInv ==
  /\ \A t \in Threads : enlisted[t] => code[t] \in {"parking", "parked"} /\ ticket[t] \in {0, -1}
  /\ \A w \in Wakers, t \in Threads : Taken(w, t) =>
       code[t] \in {"parking", "parked"} /\ ticket[t] \in {0, -1} /\ ~enlisted[t]
  /\ \A v, w \in Wakers, t \in Threads : Taken(v, t) /\ Taken(w, t) => v = w

\* How the ticket and the states of a thread depend on where its code is.
CodeInv ==
  \A t \in Threads :
    /\ code[t] \in {"new", "user"} => ticket[t] = 0
    /\ code[t] = "new" => state[t] = "Start" /\ ~preempted[t]
    /\ code[t] = "parking" => ticket[t] \in {0, 1}
    /\ code[t] = "parked" => ticket[t] \in {-1, 0, 1}
    /\ code[t] = "left" => ticket[t] = TICKET_DEAD /\ state[t] \in {"Halting", "Halted"}
    /\ ticket[t] = -1 => state[t] = "Blocked" /\ ~preempted[t]
    /\ preempted[t] => code[t] \in {"user", "parking"} /\ state[t] = "Active"

\* A thread about to run: it is not blocked, and if it was, it was unparked.
Runnable(t) ==
  /\ code[t] \in {"user", "parking", "parked"} /\ ticket[t] # -1
  /\ code[t] = "parked" => Free(t)

PlaceInv ==
  /\ \A p \in Procs : pc[p] \in Holding =>
       LET t == cur[p] IN
       /\ ticket[t] # -1 /\ code[t] # "new"
       /\ pc[p] \in {"run", "cancel"} => Runnable(t) /\ (state[t] = "Ready" \/ preempted[t])
       /\ pc[p] = "rerun" => Runnable(t) /\ state[t] = "Blocked" /\ code[t] = "parked"
       /\ pc[p] = "exec" =>
            state[t] = "Active" /\ ~preempted[t] /\ code[t] \in {"user", "parking"}
       /\ pc[p] = "back" =>
            \/ state[t] = "Active" /\ (preempted[t] \/ code[t] = "parked")
            \/ state[t] = "Halting" /\ code[t] = "left"
       /\ pc[p] = "settle" => state[t] = "Blocked" /\ code[t] = "parked"
  /\ \A w \in Wakers : wpc[w] \in {"sched", "push"} =>
       LET t == wthr[w] IN
       /\ Runnable(t)
       /\ wpc[w] = "sched" => state[t] \in {"Start", "Blocked"} \/ preempted[t]
       /\ wpc[w] = "push" => state[t] = "Ready" \/ preempted[t]
  /\ \A t \in readyQ : Runnable(t) /\ (state[t] = "Ready" \/ preempted[t])

IInv == TypeOK /\ HeldInv /\ TakenInv /\ CodeInv /\ PlaceInv /\ OnePlace
-----------------------------------------------------------------------------
USE KernelAssumption DEF Wakers, States, Tickets, FD,
    TICKET_BLOCKED, TICKET_RUNNING, TICKET_UNBLOCK, TICKET_DEAD

\* Updating one value of a function keeps its type.
LEMMA ExceptType ==
  ASSUME NEW S, NEW T, NEW f \in [S -> T], NEW x, NEW v \in T
  PROVE  [f EXCEPT ![x] = v] \in [S -> T]
OBVIOUS

\* Where a predicate given as a function still holds after one value of it
\* became false, it held before.
LEMMA ExceptFalse ==
  ASSUME NEW S, NEW f \in [S -> BOOLEAN], NEW x \in S, NEW y \in S,
         [f EXCEPT ![x] = FALSE][y]
  PROVE  f[y] /\ y # x
OBVIOUS

\* The initial state satisfies the inductive invariant.
LEMMA InitInv == Init => IInv
BY DEF Init, IInv, TypeOK, HeldInv, TakenInv, CodeInv, PlaceInv, OnePlace, Holding,
       Taken, Free, Runnable, Scheduling

\* A step that moves no thread and touches none of its scheduling state.
Quiet ==
  /\ UNCHANGED <<thrdVars, readyQ, wthr, cur>>
  /\ \A p \in Procs : pc'[p] # pc[p] =>
       \/ pc[p] \notin Holding /\ pc'[p] \notin Holding
       \/ pc[p] = "cancel" /\ pc'[p] = "run"
  /\ \A w \in Wakers : wpc'[w] # wpc[w] =>
       /\ wpc[w] \notin {"unpark", "sched", "push"}
       /\ wpc'[w] \notin {"unpark", "sched", "push"}
  /\ \A p \in Procs : wpc'[p] # "idle" => pc'[p] \in {"resched", "finish"}

LEMMA QuietStep == ASSUME IInv, TypeOK', Quiet PROVE IInv'
<1> USE DEF Quiet, thrdVars
<1>1. HeldInv' BY DEF IInv, HeldInv, Holding
<1>2. \A w \in Wakers, t \in Threads : Taken(w, t)' => Taken(w, t)
  BY DEF Taken
<1>3. TakenInv' BY <1>2 DEF IInv, TakenInv
<1>4. CodeInv' BY DEF IInv, CodeInv
<1>5. \A t : Runnable(t) => Runnable(t)' BY DEF Runnable, Free, Taken
<1>6. \A p \in Procs : pc'[p] \in Holding =>
          pc[p] \in Holding /\ (pc'[p] = pc[p] \/ (pc[p] = "cancel" /\ pc'[p] = "run"))
  BY DEF Holding
<1>7. PlaceInv'
  <2>1. \A w \in Wakers : wpc'[w] \in {"sched", "push"} => wpc'[w] = wpc[w]
    OBVIOUS
  <2> QED BY <1>5, <1>6, <2>1 DEF IInv, PlaceInv
<1>8. \A w \in Wakers : Scheduling(w)' => Scheduling(w)
  BY DEF Scheduling
<1>9. OnePlace' BY <1>8 DEF IInv, OnePlace
<1> QED BY <1>1, <1>3, <1>4, <1>7, <1>9 DEF IInv

LEMMA WakeOneLoadInv == ASSUME NEW w \in Wakers, IInv, WakeOneLoad(w) PROVE IInv'
<1>1. TypeOK' BY DEF WakeOneLoad, IInv, TypeOK, WStep, thrdVars, wakeVars, procVars, idleVars
<1>2. Quiet BY DEF IInv, TypeOK, HeldInv, WakeOneLoad, Quiet, Go, WStep, CanStep, UserCode, thrdVars, wakeVars, procVars, idleVars, Holding
<1> QED BY <1>1, <1>2, QuietStep

LEMMA WakeOneExchangeInv == ASSUME NEW w \in Wakers, IInv, WakeOneExchange(w) PROVE IInv'
<1>1. TypeOK'
  <2>1. sem' \in [Procs -> {0, 1, FD}]
    <3>1. sem' = [sem EXCEPT ![wfd[w]] = 1] BY DEF WakeOneExchange
    <3> QED BY <3>1, ExceptType DEF IInv, TypeOK
  <2> QED BY <2>1 DEF WakeOneExchange, IInv, TypeOK, WStep, thrdVars, wakeVars, procVars, idleVars
<1>2. Quiet BY DEF IInv, TypeOK, HeldInv, WakeOneExchange, Quiet, Go, WStep, CanStep, UserCode, thrdVars, wakeVars, procVars, idleVars, Holding
<1> QED BY <1>1, <1>2, QuietStep

LEMMA WakeOneWriteInv == ASSUME NEW w \in Wakers, IInv, WakeOneWrite(w) PROVE IInv'
<1>1. TypeOK'
  <2>1. evfd' \in [Procs -> BOOLEAN]
    <3>1. evfd' = [evfd EXCEPT ![wfd[w]] = TRUE]
      BY Zenon DEF WakeOneWrite
    <3>2. evfd \in [Procs -> BOOLEAN] BY DEF IInv, TypeOK
    <3> QED BY <3>1, <3>2, ExceptType
  <2> QED BY <2>1 DEF WakeOneWrite, IInv, TypeOK, WStep, thrdVars, wakeVars, procVars, idleVars
<1>2. Quiet BY DEF IInv, TypeOK, HeldInv, WakeOneWrite, Quiet, Go, WStep, CanStep, UserCode, thrdVars, wakeVars, procVars, idleVars, Holding
<1> QED BY <1>1, <1>2, QuietStep

LEMMA FinishRunInv == ASSUME NEW p \in Procs, IInv, FinishRun(p) PROVE IInv'
<1>1. TypeOK' BY DEF FinishRun, IInv, TypeOK, Go, thrdVars, wakeVars, procVars, idleVars
<1>2. Quiet BY DEF IInv, TypeOK, HeldInv, FinishRun, Quiet, Go, WStep, CanStep, UserCode, thrdVars, wakeVars, procVars, idleVars, Holding
<1> QED BY <1>1, <1>2, QuietStep

LEMMA AfterRunInv == ASSUME NEW p \in Procs, IInv, AfterRun(p) PROVE IInv'
<1>1. TypeOK' BY DEF AfterRun, IInv, TypeOK, Go, thrdVars, wakeVars, procVars, idleVars
<1>2. Quiet BY DEF IInv, TypeOK, HeldInv, AfterRun, Quiet, Go, WStep, CanStep, UserCode, thrdVars, wakeVars, procVars, idleVars, Holding
<1> QED BY <1>1, <1>2, QuietStep

LEMMA EnterLaneInv == ASSUME NEW p \in Procs, IInv, EnterLane(p) PROVE IInv'
<1>1. TypeOK' BY DEF EnterLane, IInv, TypeOK, Go, thrdVars, wakeVars, procVars, idleVars
<1>2. Quiet BY DEF IInv, TypeOK, HeldInv, EnterLane, Quiet, Go, WStep, CanStep, UserCode, thrdVars, wakeVars, procVars, idleVars, Holding
<1> QED BY <1>1, <1>2, QuietStep

LEMMA CheckTerminateInv == ASSUME NEW p \in Procs, IInv, CheckTerminate(p) PROVE IInv'
<1>1. TypeOK' BY DEF CheckTerminate, IInv, TypeOK, Go, thrdVars, wakeVars, procVars, idleVars
<1>2. Quiet BY DEF IInv, TypeOK, HeldInv, CheckTerminate, Quiet, Go, WStep, CanStep, UserCode, thrdVars, wakeVars, procVars, idleVars, Holding
<1> QED BY <1>1, <1>2, QuietStep

LEMMA ResetSemInv == ASSUME NEW p \in Procs, IInv, ResetSem(p) PROVE IInv'
<1>1. TypeOK' BY DEF ResetSem, IInv, TypeOK, Go, thrdVars, wakeVars, procVars, idleVars
<1>2. Quiet BY DEF IInv, TypeOK, HeldInv, ResetSem, Quiet, Go, WStep, CanStep, UserCode, thrdVars, wakeVars, procVars, idleVars, Holding
<1> QED BY <1>1, <1>2, QuietStep

LEMMA MarkIdleInv == ASSUME NEW p \in Procs, IInv, MarkIdle(p) PROVE IInv'
<1>1. TypeOK' BY DEF MarkIdle, IInv, TypeOK, Go, thrdVars, wakeVars, procVars, idleVars
<1>2. Quiet BY DEF IInv, TypeOK, HeldInv, MarkIdle, Quiet, Go, WStep, CanStep, UserCode, thrdVars, wakeVars, procVars, idleVars, Holding
<1> QED BY <1>1, <1>2, QuietStep

LEMMA MissSearchInv == ASSUME NEW p \in Procs, IInv, MissSearch(p) PROVE IInv'
<1>1. TypeOK' BY DEF MissSearch, IInv, TypeOK, Go, thrdVars, wakeVars, procVars, idleVars
<1>2. Quiet BY DEF IInv, TypeOK, HeldInv, MissSearch, Quiet, Go, WStep, CanStep, UserCode, thrdVars, wakeVars, procVars, idleVars, Holding
<1> QED BY <1>1, <1>2, QuietStep

LEMMA IdleSleepInv == ASSUME NEW p \in Procs, IInv, IdleSleep(p) PROVE IInv'
<1>1. TypeOK' BY DEF IdleSleep, IInv, TypeOK, Go, thrdVars, wakeVars, procVars, idleVars
<1>2. Quiet BY DEF IInv, TypeOK, HeldInv, IdleSleep, Quiet, Go, WStep, CanStep, UserCode, thrdVars, wakeVars, procVars, idleVars, Holding
<1> QED BY <1>1, <1>2, QuietStep

LEMMA ReadEventfdInv == ASSUME NEW p \in Procs, IInv, ReadEventfd(p) PROVE IInv'
<1>1. TypeOK'
  <2>1. evfd' \in [Procs -> BOOLEAN]
    <3>1. evfd' = [evfd EXCEPT ![p] = FALSE]
      BY Zenon DEF ReadEventfd
    <3>2. evfd \in [Procs -> BOOLEAN] BY DEF IInv, TypeOK
    <3> QED BY <3>1, <3>2, ExceptType
  <2> QED BY <2>1 DEF ReadEventfd, IInv, TypeOK, Go, thrdVars, wakeVars, procVars, idleVars
<1>2. Quiet BY DEF IInv, TypeOK, HeldInv, ReadEventfd, Quiet, Go, WStep, CanStep, UserCode, thrdVars, wakeVars, procVars, idleVars, Holding
<1> QED BY <1>1, <1>2, QuietStep

LEMMA InterruptedInv == ASSUME NEW p \in Procs, IInv, Interrupted(p) PROVE IInv'
<1>1. TypeOK' BY DEF Interrupted, IInv, TypeOK, Go, thrdVars, wakeVars, procVars, idleVars
<1>2. Quiet BY DEF IInv, TypeOK, HeldInv, Interrupted, Quiet, Go, WStep, CanStep, UserCode, thrdVars, wakeVars, procVars, idleVars, Holding
<1> QED BY <1>1, <1>2, QuietStep

LEMMA MarkAwakeInv == ASSUME NEW p \in Procs, IInv, MarkAwake(p) PROVE IInv'
<1>1. TypeOK' BY DEF MarkAwake, IInv, TypeOK, Go, thrdVars, wakeVars, procVars, idleVars
<1>2. Quiet BY DEF IInv, TypeOK, HeldInv, MarkAwake, Quiet, Go, WStep, CanStep, UserCode, thrdVars, wakeVars, procVars, idleVars, Holding
<1> QED BY <1>1, <1>2, QuietStep

LEMMA DestroyInv == ASSUME NEW p \in Procs, IInv, Destroy(p) PROVE IInv'
<1>1. TypeOK'
  <2>1. evfd' \in [Procs -> BOOLEAN]
    <3>1. evfd' = evfd \/ evfd' = [evfd EXCEPT ![p] = TRUE]
      BY Zenon DEF Destroy
    <3>2. evfd \in [Procs -> BOOLEAN] BY DEF IInv, TypeOK
    <3> QED BY <3>1, <3>2, ExceptType
  <2> QED BY <2>1 DEF Destroy, IInv, TypeOK, Go, thrdVars, wakeVars, procVars, idleVars
<1>2. Quiet BY DEF IInv, TypeOK, HeldInv, Destroy, Quiet, Go, WStep, CanStep, UserCode, thrdVars, wakeVars, procVars, idleVars, Holding
<1> QED BY <1>1, <1>2, QuietStep

LEMMA TakeInv ==
  ASSUME NEW w \in Wakers, NEW u \in Threads, IInv, Take(w, u)
  PROVE  IInv'
<1> USE DEF IInv, TypeOK, Take, WStep, CanStep, UserCode, OnCpu, thrdVars, procVars, idleVars
<1>1. TypeOK' BY DEF HeldInv, Holding
<1>2. HeldInv' BY DEF HeldInv, Holding
<1>3. TakenInv'
  <2>1. enlisted[u] /\ enlisted' = [enlisted EXCEPT ![u] = FALSE] /\ UNCHANGED <<code, ticket>>
    OBVIOUS
  <2>2. \A v \in Wakers, t \in Threads : Taken(v, t)' => (v = w /\ t = u) \/ Taken(v, t)
    BY DEF Taken
  <2>3. \A v \in Wakers : ~Taken(v, u) BY <2>1 DEF TakenInv
  <2>4. enlisted \in [Threads -> BOOLEAN] /\ TakenInv OBVIOUS
  <2> HIDE DEF IInv, TypeOK, Take, WStep, CanStep, UserCode, OnCpu
  <2>5. ~enlisted'[u] /\ \A t \in Threads : t # u => (enlisted'[t] <=> enlisted[t])
    BY <2>1, <2>4
  <2> QED BY <2>1, <2>2, <2>3, <2>4, <2>5 DEF TakenInv
<1>4. CodeInv' BY DEF CodeInv, HeldInv, TakenInv, PlaceInv, Taken, Runnable, Free, OnePlace, Holding
<1>5. PlaceInv' BY DEF PlaceInv, HeldInv, TakenInv, CodeInv, Taken, Runnable, Free, OnePlace, Scheduling, Holding
<1>6. OnePlace' BY DEF OnePlace, HeldInv, TakenInv, CodeInv, PlaceInv, Taken, Runnable, Scheduling, Holding
<1> QED BY <1>1, <1>2, <1>3, <1>4, <1>5, <1>6

LEMMA ThrdStartInv ==
  ASSUME NEW w \in Wakers, NEW u \in Threads, IInv, ThrdStart(w, u)
  PROVE  IInv'
<1> USE DEF IInv, TypeOK, ThrdStart, WStep, CanStep, UserCode, OnCpu, thrdVars, procVars, idleVars
<1>1. TypeOK' BY DEF HeldInv, Holding
<1>2. HeldInv' BY DEF HeldInv, Holding
<1>3. TakenInv'
  <2>1. \A v \in Wakers, t \in Threads : Taken(v, t)' => Taken(v, t)
    BY DEF Taken
  <2>2. /\ TakenInv /\ code[u] = "new" /\ code' = [code EXCEPT ![u] = "user"]
        /\ code \in [Threads -> {"new", "user", "parking", "parked", "left"}]
        /\ UNCHANGED <<ticket, enlisted>>
    OBVIOUS
  <2> HIDE DEF IInv, TypeOK, ThrdStart
  <2>3. ~enlisted[u] /\ \A v \in Wakers : ~Taken(v, u)
    BY <2>2 DEF TakenInv
  <2>4. \A t \in Threads : t # u => code'[t] = code[t]
    BY <2>2
  <2> QED BY <2>1, <2>2, <2>3, <2>4 DEF TakenInv
<1>4. CodeInv' BY DEF CodeInv, HeldInv, TakenInv, PlaceInv, Taken, Runnable, Free, OnePlace, Holding
<1>5. PlaceInv' BY SMTT(30) DEF PlaceInv, HeldInv, TakenInv, CodeInv, Taken, Runnable, Free, OnePlace, Scheduling, Holding
<1>6. OnePlace'
  <2>1. /\ \A p \in Procs : cur[p] # u
        /\ \A v \in Wakers : Scheduling(v) => wthr[v] # u
        /\ u \notin readyQ
    BY DEF PlaceInv, HeldInv, Runnable, Scheduling, Holding
  <2>2. /\ UNCHANGED <<cur, readyQ>> /\ wpc[w] = "idle"
        /\ wpc' = [wpc EXCEPT ![w] = "sched"] /\ wthr' = [wthr EXCEPT ![w] = u]
    OBVIOUS
  <2> QED BY <2>1, <2>2 DEF OnePlace, Scheduling
<1> QED BY <1>1, <1>2, <1>3, <1>4, <1>5, <1>6

LEMMA MustUnparkInv ==
  ASSUME NEW w \in Wakers, IInv, MustUnpark(w)
  PROVE  IInv'
<1> USE DEF IInv, TypeOK, MustUnpark, WStep, CanStep, UserCode, OnCpu, thrdVars, procVars, idleVars
<1>1. TypeOK' BY DEF HeldInv, Holding
<1>2. HeldInv' BY DEF HeldInv, Holding
<1>3. TakenInv'
  <2>1. PICK u \in Threads : u = wthr[w] /\ Taken(w, u) BY DEF HeldInv, Taken
  <2>2. ticket' = [ticket EXCEPT ![u] = @ + 1] /\ UNCHANGED <<code, enlisted>> BY <2>1
  <2>3. \A v \in Wakers, t \in Threads : Taken(v, t)' => Taken(v, t) /\ v # w BY DEF Taken
  <2>4. TakenInv /\ ticket \in [Threads -> Tickets] OBVIOUS
  <2> HIDE DEF IInv, TypeOK, MustUnpark, WStep, CanStep
  <2>5. ~enlisted[u] BY <2>1, <2>4 DEF TakenInv
  <2>6. \A v \in Wakers, t \in Threads : Taken(v, t)' => t # u BY <2>1, <2>3, <2>4 DEF TakenInv
  <2> QED BY <2>2, <2>3, <2>4, <2>5, <2>6 DEF TakenInv
<1>4. CodeInv'
  <2> DEFINE u == wthr[w]
  <2>1. u \in Threads /\ Taken(w, u) BY DEF HeldInv, Taken
  <2>2. code[u] \in {"parking", "parked"} /\ ticket[u] \in {0, -1} BY <2>1 DEF TakenInv
  <2>3. ticket' = [ticket EXCEPT ![u] = @ + 1] /\ UNCHANGED <<state, preempted, code>> OBVIOUS
  <2> HIDE DEF u, MustUnpark
  <2> QED BY <2>1, <2>2, <2>3 DEF CodeInv
<1>5. PlaceInv'
  <2>1. PICK u \in Threads : u = wthr[w] /\ Taken(w, u) BY DEF HeldInv, Taken
  <2>2. code[u] \in {"parking", "parked"} /\ ticket[u] \in {0, -1} /\ ~enlisted[u]
    BY <2>1 DEF TakenInv
  <2>3. /\ ticket' = [ticket EXCEPT ![u] = @ + 1]
        /\ UNCHANGED <<state, preempted, code, enlisted, readyQ, pc, cur>>
    BY <2>1
  <2>4. /\ wpc' = [wpc EXCEPT ![w] = IF ticket[u] = -1 THEN "sched" ELSE "idle"]
        /\ wthr' = IF ticket[u] = -1 THEN wthr ELSE [wthr EXCEPT ![w] = NoThread]
    BY <2>1
  <2>0. PlaceInv /\ CodeInv /\ TakenInv /\ TypeOK OBVIOUS
  <2>5. ticket \in [Threads -> Tickets] /\ wpc[w] = "unpark" /\ wpc \in [Wakers -> {"idle", "unpark", "sched", "push", "wake", "xchg", "write"}]
    OBVIOUS
  <2> HIDE DEF MustUnpark, IInv, TypeOK, WStep, CanStep
  <2>6. ASSUME NEW v \in Wakers, NEW t \in Threads, Taken(v, t)'
        PROVE  Taken(v, t) /\ v # w
    BY <2>4, <2>5, <2>6 DEF Taken
  <2>7. ASSUME NEW t \in Threads, Runnable(t)
        PROVE  Runnable(t)'
    <3>1. CASE t = u
      BY <2>1, <2>2, <2>3, <2>5, <2>7, <3>1 DEF Runnable, Free
    <3>2. CASE t # u
      BY <2>3, <2>5, <2>6, <2>7, <3>2 DEF Runnable, Free
    <3> QED BY <3>1, <3>2
  <2>8. ASSUME ticket[u] = -1
        PROVE  Runnable(u)' /\ state[u] = "Blocked"
    <3>1. \A v \in Wakers : ~Taken(v, u)'
      BY <2>0, <2>1, <2>6 DEF TakenInv
    <3>2. ticket'[u] = 0 BY <2>1, <2>3, <2>5, <2>8
    <3>3. state[u] = "Blocked" BY <2>0, <2>1, <2>8 DEF CodeInv
    <3> QED BY <2>2, <2>3, <3>1, <3>2, <3>3 DEF Runnable, Free
  <2>9. ASSUME NEW t \in Threads, ticket[t] # -1
        PROVE  ticket'[t] # -1
    BY <2>2, <2>3, <2>5, <2>9
  <2>10. ASSUME NEW p \in Procs, pc[p] \in Holding, NEW t \in Threads, t = cur[p]
         PROVE  /\ ticket'[t] # -1 /\ code'[t] # "new"
                /\ pc[p] \in {"run", "cancel"} => Runnable(t)' /\ (state'[t] = "Ready" \/ preempted'[t])
                /\ pc[p] = "rerun" => Runnable(t)' /\ state'[t] = "Blocked" /\ code'[t] = "parked"
                /\ pc[p] = "exec" =>
                     state'[t] = "Active" /\ ~preempted'[t] /\ code'[t] \in {"user", "parking"}
                /\ pc[p] = "back" =>
                     \/ state'[t] = "Active" /\ (preempted'[t] \/ code'[t] = "parked")
                     \/ state'[t] = "Halting" /\ code'[t] = "left"
                /\ pc[p] = "settle" => state'[t] = "Blocked" /\ code'[t] = "parked"
    BY <2>0, <2>3, <2>7, <2>9, <2>10 DEF PlaceInv
  <2>11. ASSUME NEW v \in Wakers, wpc'[v] \in {"sched", "push"}
         PROVE  \E t \in Threads :
                  /\ t = wthr'[v]
                  /\ Runnable(t)'
                  /\ wpc'[v] = "sched" => state'[t] \in {"Start", "Blocked"} \/ preempted'[t]
                  /\ wpc'[v] = "push" => state'[t] = "Ready" \/ preempted'[t]
    <3>1. CASE v = w
      <4>1. ticket[u] = -1 BY <2>4, <2>5, <2>11, <3>1
      <4>2. wpc'[w] = "sched" /\ wthr'[w] = u BY <2>1, <2>4, <2>5, <4>1
      <4>3. state'[u] = "Blocked" /\ Runnable(u)' BY <2>3, <2>8, <4>1
      <4> QED BY <3>1, <4>2, <4>3
    <3>2. CASE v # w
      <4>1. wpc'[v] = wpc[v] /\ wthr'[v] = wthr[v] BY <2>4, <3>2
      <4>2. PICK t \in Threads : t = wthr[v] BY <2>11, <4>1 DEF IInv, TypeOK, HeldInv
      <4>3. /\ Runnable(t)
            /\ wpc[v] = "sched" => state[t] \in {"Start", "Blocked"} \/ preempted[t]
            /\ wpc[v] = "push" => state[t] = "Ready" \/ preempted[t]
        BY <2>0, <2>11, <4>1, <4>2 DEF PlaceInv
      <4>4. Runnable(t)' BY <2>7, <4>3
      <4> QED BY <2>3, <4>1, <4>2, <4>3, <4>4
    <3> QED BY <3>1, <3>2
  <2>12. ASSUME NEW t \in readyQ'
         PROVE  Runnable(t)' /\ (state'[t] = "Ready" \/ preempted'[t])
    <3>1. t \in Threads BY <2>3, <2>12 DEF IInv, TypeOK
    <3> QED BY <2>0, <2>3, <2>7, <2>12, <3>1 DEF PlaceInv
  <2>13. \A p \in Procs : pc[p] \in Holding => cur[p] \in Threads
    BY DEF HeldInv, IInv, TypeOK
  <2>14. UNCHANGED <<pc, cur>> BY <2>3
  <2> HIDE DEF Runnable
  <2> QED BY <2>10, <2>11, <2>12, <2>13, <2>14 DEF PlaceInv
<1>6. OnePlace' BY DEF OnePlace, HeldInv, TakenInv, CodeInv, PlaceInv, Taken, Runnable, Scheduling, Holding
<1> QED BY <1>1, <1>2, <1>3, <1>4, <1>5, <1>6

LEMMA ScheduleThreadInv ==
  ASSUME NEW w \in Wakers, IInv, ScheduleThread(w)
  PROVE  IInv'
<1> USE DEF IInv, TypeOK, ScheduleThread, WStep, CanStep, UserCode, OnCpu, thrdVars, procVars, idleVars
<1>1. TypeOK' BY DEF HeldInv, Holding
<1>2. HeldInv' BY DEF HeldInv, Holding
<1>3. TakenInv' BY DEF TakenInv, HeldInv, CodeInv, PlaceInv, Taken, Runnable, Free, Holding
<1>4. CodeInv' BY DEF CodeInv, HeldInv, TakenInv, PlaceInv, Taken, Runnable, Free, OnePlace, Holding
<1>5. PlaceInv' BY DEF PlaceInv, HeldInv, TakenInv, CodeInv, Taken, Runnable, Free, OnePlace, Scheduling, Holding
<1>6. OnePlace' BY DEF OnePlace, HeldInv, TakenInv, CodeInv, PlaceInv, Taken, Runnable, Scheduling, Holding
<1> QED BY <1>1, <1>2, <1>3, <1>4, <1>5, <1>6

LEMMA PushInv ==
  ASSUME NEW w \in Wakers, IInv, Push(w)
  PROVE  IInv'
<1> USE DEF IInv, TypeOK, Push, WStep, CanStep, UserCode, OnCpu, thrdVars, procVars, idleVars
<1>1. TypeOK' BY DEF HeldInv, Holding
<1>2. HeldInv' BY DEF HeldInv, Holding
<1>3. TakenInv'
  <2>1. \A v \in Wakers, t \in Threads : Taken(v, t)' => Taken(v, t) BY DEF Taken
  <2>2. TakenInv /\ UNCHANGED <<code, ticket, enlisted>> OBVIOUS
  <2> HIDE DEF IInv, TypeOK, Push, WStep, CanStep, UserCode, OnCpu
  <2> QED BY <2>1, <2>2 DEF TakenInv
<1>4. CodeInv' BY DEF CodeInv, HeldInv, TakenInv, PlaceInv, Taken, Runnable, Free, OnePlace, Holding
<1>5. PlaceInv' BY DEF PlaceInv, HeldInv, TakenInv, CodeInv, Taken, Runnable, Free, OnePlace, Scheduling, Holding
<1>6. OnePlace' BY DEF OnePlace, HeldInv, TakenInv, CodeInv, PlaceInv, Taken, Runnable, Scheduling, Holding
<1> QED BY <1>1, <1>2, <1>3, <1>4, <1>5, <1>6

LEMMA EnlistInv ==
  ASSUME NEW u \in Threads, IInv, Enlist(u)
  PROVE  IInv'
<1> USE DEF IInv, TypeOK, Enlist, ReturnToKernel, Go, wakeVars, idleVars, OnCpu, procVars
<1>1. TypeOK' BY DEF HeldInv, Holding
<1>2. HeldInv' BY DEF HeldInv, Holding
<1>3. TakenInv' BY DEF TakenInv, HeldInv, CodeInv, PlaceInv, Taken, Runnable, Free, Holding
<1>4. CodeInv' BY DEF CodeInv, HeldInv, TakenInv, PlaceInv, Taken, Runnable, Free, OnePlace, Holding
<1>5. PlaceInv' BY DEF PlaceInv, HeldInv, TakenInv, CodeInv, Taken, Runnable, Free, OnePlace, Scheduling, Holding
<1>6. OnePlace' BY DEF OnePlace, HeldInv, TakenInv, CodeInv, PlaceInv, Taken, Runnable, Scheduling, Holding
<1> QED BY <1>1, <1>2, <1>3, <1>4, <1>5, <1>6

LEMMA ParkInv ==
  ASSUME NEW u \in Threads, IInv, Park(u)
  PROVE  IInv'
<1> USE DEF IInv, TypeOK, Park, ReturnToKernel, Go, wakeVars, idleVars, InterruptsEnabled
<1>1. TypeOK' BY DEF HeldInv, Holding
<1>2. HeldInv' BY DEF HeldInv, Holding
<1>3. TakenInv'
  <2>1. /\ UNCHANGED <<ticket, enlisted, wpc, wthr>> /\ code[u] = "parking"
        /\ code' = [code EXCEPT ![u] = "parked"] /\ code \in [Threads -> {"new", "user", "parking", "parked", "left"}]
    OBVIOUS
  <2>2. TakenInv OBVIOUS
  <2> HIDE DEF IInv, TypeOK, Park, ReturnToKernel
  <2>3. \A t \in Threads : code[t] \in {"parking", "parked"} => code'[t] \in {"parking", "parked"}
    BY <2>1
  <2> QED BY <2>1, <2>2, <2>3 DEF TakenInv, Taken
<1>4. CodeInv' BY DEF CodeInv, HeldInv, TakenInv, PlaceInv, Taken, Runnable, Free, OnePlace, Holding
<1>5. PlaceInv' BY DEF PlaceInv, HeldInv, TakenInv, CodeInv, Taken, Runnable, Free, OnePlace, Scheduling, Holding
<1>6. OnePlace' BY DEF OnePlace, HeldInv, TakenInv, CodeInv, PlaceInv, Taken, Runnable, Scheduling, Holding
<1> QED BY <1>1, <1>2, <1>3, <1>4, <1>5, <1>6

LEMMA ForceYieldInv ==
  ASSUME NEW u \in Threads, IInv, ForceYield(u)
  PROVE  IInv'
<1> USE DEF IInv, TypeOK, ForceYield, ReturnToKernel, Go, wakeVars, idleVars, InterruptsEnabled
<1>1. TypeOK' BY DEF HeldInv, Holding
<1>2. HeldInv' BY DEF HeldInv, Holding
<1>3. TakenInv' BY DEF TakenInv, HeldInv, CodeInv, PlaceInv, Taken, Runnable, Free, Holding
<1>4. CodeInv' BY DEF CodeInv, HeldInv, TakenInv, PlaceInv, Taken, Runnable, Free, OnePlace, Holding
<1>5. PlaceInv' BY DEF PlaceInv, HeldInv, TakenInv, CodeInv, Taken, Runnable, Free, OnePlace, Scheduling, Holding
<1>6. OnePlace' BY DEF OnePlace, HeldInv, TakenInv, CodeInv, PlaceInv, Taken, Runnable, Scheduling, Holding
<1> QED BY <1>1, <1>2, <1>3, <1>4, <1>5, <1>6

LEMMA ThrdLeaveInv ==
  ASSUME NEW u \in Threads, IInv, ThrdLeave(u)
  PROVE  IInv'
<1> USE DEF IInv, TypeOK, ThrdLeave, ReturnToKernel, Go, wakeVars, idleVars, InterruptsEnabled
<1>1. TypeOK' BY DEF HeldInv, Holding
<1>2. HeldInv' BY DEF HeldInv, Holding
<1>3. TakenInv' BY DEF TakenInv, HeldInv, CodeInv, PlaceInv, Taken, Runnable, Free, Holding
<1>4. CodeInv' BY DEF CodeInv, HeldInv, TakenInv, PlaceInv, Taken, Runnable, Free, OnePlace, Holding
<1>5. PlaceInv' BY DEF PlaceInv, HeldInv, TakenInv, CodeInv, Taken, Runnable, Free, OnePlace, Scheduling, Holding
<1>6. OnePlace' BY DEF OnePlace, HeldInv, TakenInv, CodeInv, PlaceInv, Taken, Runnable, Scheduling, Holding
<1> QED BY <1>1, <1>2, <1>3, <1>4, <1>5, <1>6

LEMMA RunThreadInv ==
  ASSUME NEW p \in Procs, IInv, RunThread(p)
  PROVE  IInv'
<1> USE DEF IInv, TypeOK, RunThread, ReturnToKernel, Go, wakeVars, idleVars
<1>1. TypeOK' BY DEF HeldInv, Holding
<1>2. HeldInv' BY DEF HeldInv, Holding
<1>3. TakenInv'
  <2> DEFINE u == cur[p]
  <2>1. u \in Threads /\ (code[u] = "parked" => Free(u))
    BY DEF HeldInv, PlaceInv, Runnable, Holding
  <2>2. \/ UNCHANGED code
        \/ code[u] = "parked" /\ code' = [code EXCEPT ![u] = "user"]
    OBVIOUS
  <2>3. UNCHANGED <<ticket, enlisted, wpc, wthr>> OBVIOUS
  <2>4. code \in [Threads -> {"new", "user", "parking", "parked", "left"}]
    OBVIOUS
  <2> HIDE DEF u, RunThread, IInv
  <2>5. TakenInv BY DEF IInv
  <2>6. CASE UNCHANGED code
    BY <2>3, <2>5, <2>6 DEF TakenInv, Taken
  <2>7. CASE code[u] = "parked" /\ code' = [code EXCEPT ![u] = "user"]
    <3>1. ~enlisted[u] /\ \A w \in Wakers : ~Taken(w, u) BY <2>1, <2>7 DEF Free
    <3>2. \A x \in Threads : x # u => code'[x] = code[x] BY <2>4, <2>7
    <3> QED BY <2>3, <2>5, <3>1, <3>2 DEF TakenInv, Taken
  <2> QED BY <2>2, <2>6, <2>7
<1>4. CodeInv' BY DEF CodeInv, HeldInv, TakenInv, PlaceInv, Taken, Runnable, Free, OnePlace, Holding
<1>5. PlaceInv' BY DEF PlaceInv, HeldInv, TakenInv, CodeInv, Taken, Runnable, Free, OnePlace, Scheduling, Holding
<1>6. OnePlace' BY DEF OnePlace, HeldInv, TakenInv, CodeInv, PlaceInv, Taken, Runnable, Scheduling, Holding
<1> QED BY <1>1, <1>2, <1>3, <1>4, <1>5, <1>6

LEMMA RescheduleInv ==
  ASSUME NEW p \in Procs, IInv, Reschedule(p)
  PROVE  IInv'
<1> USE DEF IInv, TypeOK, Reschedule, ReturnToKernel, Go, wakeVars, idleVars, thrdVars
<1>1. TypeOK' BY DEF HeldInv, Holding
<1>2. HeldInv' BY DEF HeldInv, Holding
<1>3. TakenInv'
  <2>0. /\ \A v \in Wakers, t \in Threads : Taken(v, t)' => Taken(v, t)
        /\ UNCHANGED <<code, ticket, enlisted>>
    BY DEF Taken
  <2>1. (\A t \in Threads : enlisted[t] =>
           code[t] \in {"parking", "parked"} /\ ticket[t] \in {0, -1})'
    BY <2>0 DEF TakenInv
  <2>2. (\A v \in Wakers, t \in Threads : Taken(v, t) =>
           code[t] \in {"parking", "parked"} /\ ticket[t] \in {0, -1} /\ ~enlisted[t])'
    BY <2>0 DEF TakenInv
  <2>3. (\A v, x \in Wakers, t \in Threads : Taken(v, t) /\ Taken(x, t) => v = x)'
    BY <2>0 DEF TakenInv
  <2> QED BY <2>1, <2>2, <2>3 DEF TakenInv
<1>4. CodeInv' BY DEF CodeInv, HeldInv, TakenInv, PlaceInv, Taken, Runnable, Free, OnePlace, Holding
<1>5. PlaceInv' BY SMTT(30) DEF PlaceInv, HeldInv, TakenInv, CodeInv, Taken, Runnable, Free, OnePlace, Scheduling, Holding
<1>6. OnePlace' BY DEF OnePlace, HeldInv, TakenInv, CodeInv, PlaceInv, Taken, Runnable, Scheduling, Holding
<1> QED BY <1>1, <1>2, <1>3, <1>4, <1>5, <1>6

LEMMA ThreadFinishInv ==
  ASSUME NEW p \in Procs, IInv, ThreadFinish(p)
  PROVE  IInv'
<1> DEFINE t == cur[p]
<1>1. /\ pc[p] = "back" /\ pc' = [pc EXCEPT ![p] = "finish"]
      /\ ~preempted[t] /\ state[t] = "Halting" /\ state' = [state EXCEPT ![t] = "Halted"]
      /\ cur' = [cur EXCEPT ![p] = NoThread]
      /\ UNCHANGED <<ticket, preempted, code, readyQ, wfd, idleVars, dying>>
  BY DEF ThreadFinish, Go
<1>2. CASE UNCHANGED <<enlisted, wpc, wthr>>
  <2> USE <1>1, <1>2 DEF IInv, TypeOK, idleVars
  <2>1. TypeOK' BY DEF HeldInv, Holding
  <2>2. HeldInv' BY DEF HeldInv, Holding
  <2>3. TakenInv' BY DEF TakenInv, Taken
  <2>4. CodeInv' BY DEF CodeInv, PlaceInv, HeldInv, Holding
  <2>5. PlaceInv' BY DEF PlaceInv, HeldInv, Runnable, Free, Taken, OnePlace, Scheduling, Holding
  <2>6. OnePlace' BY DEF OnePlace, HeldInv, Scheduling
  <2> QED BY <2>1, <2>2, <2>3, <2>4, <2>5, <2>6
<1>3. CASE \E n \in Threads :
             /\ enlisted[n]
             /\ enlisted' = [enlisted EXCEPT ![n] = FALSE]
             /\ wpc' = [wpc EXCEPT ![p] = "unpark"]
             /\ wthr' = [wthr EXCEPT ![p] = n]
  <2> PICK n \in Threads : /\ enlisted[n]
                           /\ enlisted' = [enlisted EXCEPT ![n] = FALSE]
                           /\ wpc' = [wpc EXCEPT ![p] = "unpark"]
                           /\ wthr' = [wthr EXCEPT ![p] = n]
    BY <1>3
  <2>a. enlisted \in [Threads -> BOOLEAN] BY DEF IInv, TypeOK
  <2>b. enlisted' \in [Threads -> BOOLEAN] BY <2>a, ExceptType
  <2>c. \A x \in Threads : enlisted'[x] => enlisted[x] /\ x # n
    BY <2>a, ExceptFalse
  <2> USE <1>1 DEF IInv, TypeOK, idleVars
  <2>1. TypeOK' BY <2>b DEF HeldInv, Holding
  <2>2. HeldInv' BY DEF HeldInv, Holding
  <2>3. TakenInv'
    <3>1. \A w \in Wakers, x \in Threads : Taken(w, x)' => (w = p /\ x = n) \/ Taken(w, x)
      BY DEF Taken
    <3>2. \A w \in Wakers : ~Taken(w, n) BY DEF TakenInv
    <3>3. ~enlisted'[n] BY <2>c
    <3>4. (\A x \in Threads : enlisted[x] =>
             code[x] \in {"parking", "parked"} /\ ticket[x] \in {0, -1})'
      BY <2>c DEF TakenInv
    <3>5. (\A w \in Wakers, x \in Threads : Taken(w, x) =>
             code[x] \in {"parking", "parked"} /\ ticket[x] \in {0, -1} /\ ~enlisted[x])'
      BY <2>c, <3>1, <3>3 DEF TakenInv
    <3>6. (\A v, w \in Wakers, x \in Threads : Taken(v, x) /\ Taken(w, x) => v = w)'
      <4>1. \A v, w \in Wakers, x \in Threads : Taken(v, x) /\ Taken(w, x) => v = w
        BY DEF TakenInv
      <4>2. UNCHANGED <<Wakers, Threads>> OBVIOUS
      <4> HIDE DEF IInv, TypeOK, Taken, Wakers
      <4> QED BY <3>1, <3>2, <4>1, <4>2, Zenon
    <3> QED BY <3>4, <3>5, <3>6 DEF TakenInv
  <2>4. CodeInv' BY DEF CodeInv, PlaceInv, HeldInv, Holding
  <2>5. \A x \in Threads : Runnable(x) => Runnable(x)'
    <3>1. \A x \in Threads : Free(x) => Free(x)'
      BY <2>c DEF Free, Taken
    <3> QED BY <3>1 DEF Runnable
  <2>6. PlaceInv' BY <2>5 DEF PlaceInv, HeldInv, OnePlace, Scheduling, Holding
  <2>7. OnePlace' BY DEF OnePlace, HeldInv, Scheduling
  <2> QED BY <2>1, <2>2, <2>3, <2>4, <2>6, <2>7
<1> QED BY <1>2, <1>3 DEF ThreadFinish

LEMMA SettleInv ==
  ASSUME NEW p \in Procs, IInv, Settle(p)
  PROVE  IInv'
<1> USE DEF IInv, TypeOK, Settle, ReturnToKernel, Go, wakeVars, idleVars
<1>1. TypeOK' BY DEF HeldInv, Holding
<1>2. HeldInv' BY DEF HeldInv, Holding
<1>3. TakenInv' BY DEF TakenInv, HeldInv, CodeInv, PlaceInv, Taken, Runnable, Free, Holding
<1>4. CodeInv' BY DEF CodeInv, HeldInv, TakenInv, PlaceInv, Taken, Runnable, Free, OnePlace, Holding
<1>5. PlaceInv' BY DEF PlaceInv, HeldInv, TakenInv, CodeInv, Taken, Runnable, Free, OnePlace, Scheduling, Holding
<1>6. OnePlace' BY DEF OnePlace, HeldInv, TakenInv, CodeInv, PlaceInv, Taken, Runnable, Scheduling, Holding
<1> QED BY <1>1, <1>2, <1>3, <1>4, <1>5, <1>6

LEMMA DropTicketInv ==
  ASSUME NEW p \in Procs, IInv, DropTicket(p)
  PROVE  IInv'
<1> USE DEF IInv, TypeOK, DropTicket, ReturnToKernel, Go, wakeVars, idleVars
<1>1. TypeOK' BY DEF HeldInv, Holding
<1>2. HeldInv' BY DEF HeldInv, Holding
<1>3. TakenInv'
  <2>1. ticket[cur[p]] \in {0, 1} OBVIOUS
  <2>2. \A t \in Threads : ticket'[t] = IF t = cur[p] THEN ticket[t] - 1 ELSE ticket[t] OBVIOUS
  <2>3. UNCHANGED <<code, enlisted, wpc, wthr>> OBVIOUS
  <2>4. TakenInv OBVIOUS
  <2> HIDE DEF IInv, TypeOK, DropTicket, ReturnToKernel, Go
  <2>5. \A t \in Threads : ticket[t] \in {0, -1} => ticket'[t] \in {0, -1}
    <3> SUFFICES ASSUME NEW t \in Threads, ticket[t] \in {0, -1} PROVE ticket'[t] \in {0, -1}
      OBVIOUS
    <3>1. CASE t = cur[p] BY <2>1, <2>2, <3>1
    <3>2. CASE t # cur[p] BY <2>2, <3>2
    <3> QED BY <3>1, <3>2
  <2> QED BY <2>3, <2>4, <2>5 DEF TakenInv, Taken
<1>4. CodeInv' BY DEF CodeInv, HeldInv, TakenInv, PlaceInv, Taken, Runnable, Free, OnePlace, Holding
<1>5. PlaceInv'
  <2>1. (\A q \in Procs : pc[q] \in Holding =>
       LET t == cur[q] IN
       /\ ticket[t] # -1 /\ code[t] # "new"
       /\ pc[q] \in {"run", "cancel"} => Runnable(t) /\ (state[t] = "Ready" \/ preempted[t])
       /\ pc[q] = "rerun" => Runnable(t) /\ state[t] = "Blocked" /\ code[t] = "parked"
       /\ pc[q] = "exec" =>
            state[t] = "Active" /\ ~preempted[t] /\ code[t] \in {"user", "parking"}
       /\ pc[q] = "back" =>
            \/ state[t] = "Active" /\ (preempted[t] \/ code[t] = "parked")
            \/ state[t] = "Halting" /\ code[t] = "left"
       /\ pc[q] = "settle" => state[t] = "Blocked" /\ code[t] = "parked")'
    BY DEF PlaceInv, HeldInv, TakenInv, CodeInv, Taken, Runnable, Free, OnePlace, Scheduling, Holding
  <2>2. (\A w \in Wakers : wpc[w] \in {"sched", "push"} =>
       LET t == wthr[w] IN
       /\ Runnable(t)
       /\ wpc[w] = "sched" => state[t] \in {"Start", "Blocked"} \/ preempted[t]
       /\ wpc[w] = "push" => state[t] = "Ready" \/ preempted[t])'
    BY DEF PlaceInv, HeldInv, TakenInv, CodeInv, Taken, Runnable, Free, OnePlace, Scheduling, Holding
  <2>3. (\A t \in readyQ : Runnable(t) /\ (state[t] = "Ready" \/ preempted[t]))'
    BY DEF PlaceInv, HeldInv, TakenInv, CodeInv, Taken, Runnable, Free, OnePlace, Scheduling, Holding
  <2> QED BY <2>1, <2>2, <2>3 DEF PlaceInv
<1>6. OnePlace' BY DEF OnePlace, HeldInv, TakenInv, CodeInv, PlaceInv, Taken, Runnable, Scheduling, Holding
<1> QED BY <1>1, <1>2, <1>3, <1>4, <1>5, <1>6

LEMMA PopLaneInv ==
  ASSUME NEW p \in Procs, IInv, PopLane(p)
  PROVE  IInv'
<1>1. CASE readyQ = {} /\ UNCHANGED <<readyQ, cur>> /\ (Go(p, "lane", "next") \/ Go(p, "slane", "sleep"))
  <2> USE DEF IInv, TypeOK, Go, thrdVars, wakeVars, idleVars
  <2>1. TypeOK' BY <1>1 DEF PopLane
  <2>2. Quiet BY <1>1 DEF PopLane, Quiet, HeldInv, Holding
  <2> QED BY <2>1, <2>2, QuietStep
<1>2. CASE \E t \in readyQ :
             /\ readyQ' = readyQ \ {t}
             /\ cur' = [cur EXCEPT ![p] = t]
             /\ Go(p, "lane", "run") \/ Go(p, "slane", "cancel")
  <2> PICK t \in readyQ : /\ readyQ' = readyQ \ {t}
                          /\ cur' = [cur EXCEPT ![p] = t]
                          /\ Go(p, "lane", "run") \/ Go(p, "slane", "cancel")
    BY <1>2
  <2> USE DEF IInv, TypeOK, Go, thrdVars, wakeVars, idleVars
  <2>0. UNCHANGED <<thrdVars, wakeVars, idleVars, dying>> BY DEF PopLane
  <2>1. TypeOK' BY <2>0
  <2>2. HeldInv' BY <2>0 DEF HeldInv, Holding
  <2>3. TakenInv' BY <2>0 DEF TakenInv, Taken
  <2>4. CodeInv' BY <2>0 DEF CodeInv
  <2>5. PlaceInv' BY <2>0 DEF PlaceInv, Runnable, Free, Taken, Holding
  <2>6. OnePlace' BY <2>0 DEF OnePlace, Scheduling
  <2> QED BY <2>1, <2>2, <2>3, <2>4, <2>5, <2>6
<1> QED BY <1>1, <1>2 DEF PopLane

-----------------------------------------------------------------------------
\* Every step of the kernel keeps the inductive invariant.
LEMMA NextInv == IInv /\ [Next]_vars => IInv'
<1> SUFFICES ASSUME IInv, [Next]_vars PROVE IInv'
  OBVIOUS
<1>1. ASSUME NEW p \in Procs, ProcStep(p) PROVE IInv'
  BY <1>1, RunThreadInv, RescheduleInv, ThreadFinishInv, SettleInv, DropTicketInv,
     FinishRunInv, AfterRunInv, EnterLaneInv, PopLaneInv, CheckTerminateInv,
     ResetSemInv, MarkIdleInv, MissSearchInv, IdleSleepInv, ReadEventfdInv, MarkAwakeInv
  DEF ProcStep
<1>2. ASSUME NEW p \in Procs, Interrupted(p) \/ Destroy(p) PROVE IInv'
  BY <1>2, InterruptedInv, DestroyInv
<1>3. ASSUME NEW t \in Threads, ThreadStep(t) PROVE IInv'
  BY <1>3, EnlistInv, ParkInv, ForceYieldInv, ThrdLeaveInv DEF ThreadStep
<1>4. ASSUME NEW w \in Wakers, WakerStep(w) PROVE IInv'
  BY <1>4, MustUnparkInv, ScheduleThreadInv, PushInv,
     WakeOneLoadInv, WakeOneExchangeInv, WakeOneWriteInv DEF WakerStep
<1>5. ASSUME NEW w \in Wakers, NEW t \in Threads, Take(w, t) \/ ThrdStart(w, t) PROVE IInv'
  BY <1>5, TakeInv, ThrdStartInv
<1>6. CASE UNCHANGED vars
  <2> USE <1>6 DEF vars, thrdVars, wakeVars, procVars, idleVars
  <2>1. TypeOK' BY DEF IInv, TypeOK
  <2>2. Quiet BY DEF Quiet, IInv, HeldInv
  <2> QED BY <2>1, <2>2, QuietStep
<1> QED BY <1>1, <1>2, <1>3, <1>4, <1>5, <1>6 DEF Next

\* The inductive invariant holds in every reachable state.
THEOREM Inductive == Spec => []IInv
BY InitInv, NextInv, PTL DEF Spec

\* Every variable keeps its type: in particular the ticket of a thread never
\* leaves its four values, which is why a four-way switch decides in the code.
THEOREM TypeCorrect == Spec => []TypeOK
<1>1. IInv => TypeOK BY DEF IInv
<1> QED BY <1>1, Inductive, PTL

\* A runnable thread is in one place, whatever park, unpark, yield and
\* preemption do concurrently: the code's thrd->executing and rdy_link checks.
THEOREM RunnableInOnePlace == Spec => []OnePlace
<1>1. IInv => OnePlace BY DEF IInv
<1> QED BY <1>1, Inductive, PTL

\* No abort on a ticket can happen as long as every thread is unparked once
\* for each park.
THEOREM TicketsNeverAbort == Spec => []TicketsMatch
<1>1. IInv => TicketsMatch
  <2> SUFFICES ASSUME IInv PROVE TicketsMatch
    OBVIOUS
  <2> USE DEF IInv
  <2>1. ASSUME NEW w \in Wakers, wpc[w] = "unpark"
        PROVE  /\ ticket[wthr[w]] \in {TICKET_RUNNING, TICKET_BLOCKED}
               /\ ticket[wthr[w]] = TICKET_BLOCKED =>
                    state[wthr[w]] = "Blocked" /\ ~preempted[wthr[w]]
    <3>1. wthr[w] \in Threads BY <2>1 DEF TypeOK, HeldInv
    <3> QED BY <2>1, <3>1 DEF TakenInv, CodeInv, Taken
  <2>2. ASSUME NEW p \in Procs, pc[p] = "settle"
        PROVE  ticket[cur[p]] \in {TICKET_RUNNING, TICKET_UNBLOCK}
    <3>1. cur[p] \in Threads BY <2>2 DEF TypeOK, HeldInv, Holding
    <3>2. code[cur[p]] = "parked" /\ ticket[cur[p]] # -1 BY <2>2 DEF PlaceInv, Holding
    <3> QED BY <3>1, <3>2 DEF CodeInv
  <2>3. \A t \in Threads : code[t] = "user" => ticket[t] = TICKET_RUNNING BY DEF CodeInv
  <2> QED BY <2>1, <2>2, <2>3 DEF TicketsMatch
<1> QED BY <1>1, Inductive, PTL

\* The scheduling state a waker or a processor finds is the one it asserts.
THEOREM StatesAlwaysAgree == Spec => []StatesAgree
<1>1. IInv => StatesAgree
  <2> SUFFICES ASSUME IInv PROVE StatesAgree
    OBVIOUS
  <2> USE DEF IInv
  <2>1. ASSUME NEW w \in Wakers, wpc[w] = "sched"
        PROVE  /\ state[wthr[w]] \notin {"Halted", "Halting"}
               /\ preempted[wthr[w]] <=> state[wthr[w]] = "Active"
    <3>1. wthr[w] \in Threads BY <2>1 DEF TypeOK, HeldInv
    <3>2. state[wthr[w]] \in {"Start", "Blocked"} \/ preempted[wthr[w]]
      BY <2>1 DEF PlaceInv
    <3>3. preempted[wthr[w]] => state[wthr[w]] = "Active" BY <3>1 DEF CodeInv
    <3> QED BY <3>1, <3>2, <3>3 DEF TypeOK
  <2>2. ASSUME NEW p \in Procs
        PROVE  /\ pc[p] = "run" => state[cur[p]] = "Ready" \/ preempted[cur[p]]
               /\ pc[p] = "rerun" => state[cur[p]] = "Blocked"
               /\ pc[p] = "exec" => state[cur[p]] = "Active" /\ ~preempted[cur[p]]
    BY DEF PlaceInv, Holding
  <2> QED BY <2>1, <2>2 DEF StatesAgree
<1> QED BY <1>1, Inductive, PTL

\* park() returns only to a thread that was unparked: at that moment nobody
\* has its handle any more, and nobody is about to unpark it.
THEOREM NoSpuriousReturn == Spec => ParkReturnsUnparked
<1> DEFINE Back(t) == code[t] = "parked" /\ code'[t] = "user"
           Unparked(t) == ~enlisted[t] /\ \A w \in Wakers : ~(wpc[w] = "unpark" /\ wthr[w] = t)
<1>1. IInv /\ [Next]_vars =>
        [\A t \in Threads : code[t] = "parked" /\ code'[t] = "user" =>
           /\ ~enlisted[t]
           /\ \A w \in Wakers : ~(wpc[w] = "unpark" /\ wthr[w] = t)]_vars
  <2> SUFFICES ASSUME IInv, [Next]_vars, NEW t \in Threads, Back(t) PROVE Unparked(t)
    OBVIOUS
  <2>0. code \in [Threads -> {"new", "user", "parking", "parked", "left"}]
    BY DEF IInv, TypeOK
  <2>1. ASSUME NEW p \in Procs, RunThread(p) PROVE Unparked(t)
    <3>1. cur[p] \in Threads BY <2>1 DEF IInv, TypeOK, HeldInv, RunThread, Holding
    <3>2. cur[p] = t BY <2>0, <2>1, <3>1 DEF RunThread
    <3>3. Free(t) BY <2>1, <3>2 DEF IInv, PlaceInv, Runnable, RunThread, Holding
    <3> QED BY <3>3 DEF Free, Taken
  <2>2. ASSUME NEW p \in Procs, ProcStep(p), ~RunThread(p) PROVE FALSE
    <3>1. code' = code
      BY <2>2 DEF ProcStep, Reschedule, ThreadFinish, Settle, DropTicket, FinishRun, AfterRun,
         EnterLane, PopLane, CheckTerminate, ResetSem, MarkIdle, MissSearch, IdleSleep,
         ReadEventfd, MarkAwake, thrdVars
    <3> QED BY <3>1
  <2>3. ASSUME NEW p \in Procs, Interrupted(p) \/ Destroy(p) PROVE FALSE
    BY <2>3 DEF Interrupted, Destroy, thrdVars
  <2>4. ASSUME NEW u \in Threads, ThreadStep(u) PROVE FALSE
    BY <2>0, <2>4 DEF ThreadStep, Enlist, Park, ForceYield, ThrdLeave
  <2>5. ASSUME NEW w \in Wakers, WakerStep(w) PROVE FALSE
    BY <2>5 DEF WakerStep, MustUnpark, ScheduleThread, Push, WakeOneLoad, WakeOneExchange,
       WakeOneWrite, thrdVars
  <2>6. ASSUME NEW w \in Wakers, NEW u \in Threads, Take(w, u) \/ ThrdStart(w, u) PROVE FALSE
    BY <2>0, <2>6 DEF Take, ThrdStart
  <2>7. CASE UNCHANGED vars
    BY <2>7 DEF vars, thrdVars
  <2> QED BY <2>1, <2>2, <2>3, <2>4, <2>5, <2>6, <2>7 DEF Next
<1> QED BY <1>1, Inductive, PTL DEF Spec, ParkReturnsUnparked
-----------------------------------------------------------------------------
(***************************************************************************)
(* The idle list, and why no ready thread is left to sleeping processors:  *)
(* a processor that goes to sleep was posted, or looks again, or saw an    *)
(* empty queue after it had made itself known to wakers.                   *)
(***************************************************************************)
\* A waker is about to write to the event descriptor of a processor.
Writing(p) == \E w \in Wakers : wpc[w] = "write" /\ wfd[w] = p

\* A processor that will look at the ready queue once more before it sleeps.
Live(p) ==
  \/ pc[p] \notin {"sleep", "asleep", "dead"}
  \/ pc[p] = "sleep" /\ sem[p] = 1
  \/ pc[p] = "asleep" /\ (evfd[p] \/ Writing(p))

\* Wakers on their way through __wake_one hold a processor, and a sleeping
\* processor whose semaphore was posted is being woken.
SleepInv ==
  /\ \A w \in Wakers : wpc[w] \in {"xchg", "write"} => wfd[w] \in Procs
  /\ \A p \in Procs :
       /\ pc[p] = "dead" => DoTerminate(p)
       /\ pc[p] = "asleep" => sem[p] # 0
       /\ pc[p] = "asleep" /\ sem[p] = 1 /\ ~DoTerminate(p) => evfd[p] \/ Writing(p)

\* Past the check of do_terminate, on the way into the sleep.
Drowsy == {"reset", "mark", "search", "slane", "sleep", "asleep"}

\* What the destructor wrote to the eventfd stays there until the processor
\* reads it or is past the sleep: the flag was set before, so a processor
\* that checks it later ends.  (The semaphore says nothing: mark_idle may
\* have erased the post.)
DyingInv == \A p \in Procs : dying[p] = "woken" /\ pc[p] \in Drowsy => evfd[p]

\* What is in the ready queue will be found.
FoundInv ==
  readyQ # {} /\ (\A p \in Procs : ~DoTerminate(p)) =>
    \/ \E p \in Procs : Live(p)
    \/ \E w \in Wakers : wpc[w] \in {"push", "wake", "xchg"}

IdleInv == IdleListExact /\ SleepInv /\ DyingInv /\ FoundInv

Idling == {"search", "slane", "cancel", "sleep", "asleep", "awake"}

LEMMA IdleInit == Init => IdleInv
BY DEF Init, IdleInv, IdleListExact, SleepInv, DyingInv, FoundInv, Live, DoTerminate

\* A step outside the idle protocol: no processor goes to sleep or wakes up,
\* and no waker in __wake_one moves.
AwakeStep ==
  /\ UNCHANGED <<idleVars, dying>>
  /\ readyQ' \subseteq readyQ
  /\ \A p \in Procs : pc'[p] # pc[p] => pc[p] \notin Idling /\ pc'[p] \notin Idling \cup Drowsy \cup {"dead"}
  /\ \A w \in Wakers :
       \/ wpc'[w] = wpc[w]
       \/ /\ wpc[w] \notin {"push", "wake", "xchg", "write"}
          /\ wpc'[w] \notin {"wake", "xchg", "write"}
  /\ wfd' = wfd

LEMMA AwakeStepIdle == ASSUME TypeOK, TypeOK', IdleInv, AwakeStep PROVE IdleInv'
<1> USE DEF AwakeStep, idleVars, Idling
<1>1. IdleListExact'
  <2>1. \A p \in Procs : pc'[p] \in Idling <=> pc[p] \in Idling OBVIOUS
  <2> QED BY <2>1 DEF IdleInv, IdleListExact
<1>2. \A p \in Procs : Writing(p) => Writing(p)'
  BY DEF Writing
<1>3. \A w \in Wakers : wpc'[w] \in {"xchg", "write"} => wpc'[w] = wpc[w]
  OBVIOUS
<1>4. SleepInv' BY <1>2, <1>3 DEF IdleInv, SleepInv, DoTerminate
<1>5. DyingInv' BY <1>2 DEF IdleInv, DyingInv
<1>6. \A p \in Procs : Live(p) => Live(p)' BY <1>2 DEF Live
<1>7. \A w \in Wakers : wpc[w] \in {"push", "wake", "xchg"} => wpc'[w] = wpc[w]
  OBVIOUS
<1>8. FoundInv' BY <1>6, <1>7 DEF IdleInv, FoundInv, DoTerminate
<1> QED BY <1>1, <1>4, <1>5, <1>8 DEF IdleInv

\* The steps of threads and wakers before the lane, and of the run loop.
LEMMA ThreadStepAwake ==
  ASSUME TypeOK, NEW t \in Threads, ThreadStep(t) PROVE AwakeStep
<1> USE DEF TypeOK, ReturnToKernel, Go, AwakeStep, Idling, Drowsy, wakeVars, procVars, idleVars
<1>1. CASE Enlist(t) BY <1>1 DEF Enlist
<1>2. CASE Park(t) BY <1>2 DEF Park
<1>3. CASE ForceYield(t) BY <1>3 DEF ForceYield
<1>4. CASE ThrdLeave(t) BY <1>4 DEF ThrdLeave
<1> QED BY <1>1, <1>2, <1>3, <1>4 DEF ThreadStep

LEMMA StartAwake ==
  ASSUME TypeOK, NEW w \in Wakers, NEW t \in Threads, Take(w, t) \/ ThrdStart(w, t) PROVE AwakeStep
BY DEF TypeOK, Take, ThrdStart, WStep, AwakeStep, Idling, Drowsy, thrdVars, wakeVars, procVars, idleVars

LEMMA WakerAwake ==
  ASSUME TypeOK, NEW w \in Wakers, MustUnpark(w) \/ ScheduleThread(w) PROVE AwakeStep
BY DEF TypeOK, MustUnpark, ScheduleThread, WStep, AwakeStep, Idling, Drowsy, thrdVars, wakeVars, procVars,
       idleVars

LEMMA RunAwake ==
  ASSUME TypeOK, NEW p \in Procs,
         \A q \in Procs : wpc[q] # "idle" => pc[q] \in {"resched", "finish"},
         RunThread(p) \/ Reschedule(p) \/ ThreadFinish(p) \/ Settle(p) \/ DropTicket(p)
         \/ FinishRun(p)
  PROVE  AwakeStep
<1> USE DEF TypeOK, Go, AwakeStep, Idling, Drowsy, thrdVars, wakeVars, procVars, idleVars
<1>1. CASE RunThread(p) BY <1>1 DEF RunThread
<1>2. CASE Reschedule(p) BY <1>2 DEF Reschedule
<1>3. CASE ThreadFinish(p) BY <1>3 DEF ThreadFinish
<1>4. CASE Settle(p) BY <1>4 DEF Settle
<1>5. CASE DropTicket(p) BY <1>5 DEF DropTicket
<1>6. CASE FinishRun(p) BY <1>6 DEF FinishRun
<1> QED BY <1>1, <1>2, <1>3, <1>4, <1>5, <1>6

\* The rest of the main loop, and of __wake_one.  Only the sleeping of a
\* processor, and the end of a waker, can break FoundInv.
LEMMA PushIdle == ASSUME TypeOK, TypeOK', IdleInv, NEW w \in Wakers, Push(w) PROVE IdleInv'
<1> USE DEF TypeOK, IdleInv, Push, WStep, thrdVars, procVars, idleVars
<1>1. \A p \in Procs : Writing(p) => Writing(p)' BY DEF Writing
<1>2. wpc'[w] = "wake" OBVIOUS
<1>3. IdleListExact' BY DEF IdleListExact
<1>4. SleepInv' BY <1>1 DEF SleepInv, DoTerminate
<1>5. DyingInv' BY <1>1 DEF DyingInv
<1>6. FoundInv' BY <1>2 DEF FoundInv
<1> QED BY <1>3, <1>4, <1>5, <1>6

LEMMA WakeOneLoadIdle ==
  ASSUME TypeOK, TypeOK', IdleInv, NEW w \in Wakers, WakeOneLoad(w) PROVE IdleInv'
<1> USE DEF TypeOK, IdleInv, WakeOneLoad, WStep, thrdVars, procVars, idleVars
<1>1. \A p \in Procs : Writing(p) => Writing(p)' BY DEF Writing
<1>2. IdleListExact' BY DEF IdleListExact
<1>3. fdw # NoProc => fdw \in Procs OBVIOUS
<1>4. SleepInv' BY <1>1, <1>3 DEF SleepInv, DoTerminate
<1>5. DyingInv' BY <1>1 DEF DyingInv
<1>6. \A p \in Procs : Live(p) => Live(p)' BY <1>1 DEF Live
<1>7. FoundInv'
  <2> SUFFICES ASSUME readyQ # {}, \A p \in Procs : ~DoTerminate(p)
               PROVE  \/ \E p \in Procs : Live(p)'
                      \/ \E v \in Wakers : wpc'[v] \in {"push", "wake", "xchg"}
    BY DEF FoundInv, DoTerminate
  <2>1. CASE fdw = NoProc
    <3>1. \A p \in Procs : pc[p] \notin {"sleep", "asleep", "dead"}
      BY <2>1 DEF IdleListExact, SleepInv
    <3>2. PICK p \in Procs : TRUE OBVIOUS
    <3> QED BY <3>1, <3>2 DEF Live
  <2>2. CASE fdw # NoProc
    <3>1. wpc'[w] = "xchg" BY <2>2
    <3> QED BY <3>1
  <2> QED BY <2>1, <2>2
<1> QED BY <1>2, <1>4, <1>5, <1>7

LEMMA WakeOneExchangeIdle ==
  ASSUME TypeOK, TypeOK', IdleInv, NEW w \in Wakers, WakeOneExchange(w) PROVE IdleInv'
<1> USE DEF TypeOK, IdleInv, WakeOneExchange, WStep, thrdVars, procVars
<1>q. PICK q \in Procs : q = wfd[w] BY DEF SleepInv
<1>0. q = wfd[w] /\ wpc[w] = "xchg" BY <1>q
<1>1. \A p \in Procs : Writing(p) => Writing(p)' BY <1>0 DEF Writing
<1>2. sem[q] = FD => Writing(q)' BY <1>0 DEF Writing
<1>3. \A p \in Procs : sem'[p] = sem[p] \/ (p = q /\ sem'[p] = 1) BY <1>0
<1>3a. sem'[q] = 1 BY <1>0
<1>4. IdleListExact' BY DEF IdleListExact
<1>5. SleepInv'
  <2>1. (\A v \in Wakers : wpc[v] \in {"xchg", "write"} => wfd[v] \in Procs)'
    BY <1>0 DEF SleepInv
  <2>2. ASSUME NEW p \in Procs
        PROVE  /\ pc[p] = "dead" => DoTerminate(p)
               /\ pc[p] = "asleep" => sem'[p] # 0
               /\ pc[p] = "asleep" /\ sem'[p] = 1 /\ ~DoTerminate(p) => evfd[p] \/ Writing(p)'
    BY <1>1, <1>2, <1>3 DEF SleepInv
  <2> QED BY <2>1, <2>2 DEF SleepInv, DoTerminate
<1>6. DyingInv' BY <1>1, <1>3 DEF DyingInv
<1>7. FoundInv'
  <2> SUFFICES ASSUME readyQ # {}, \A p \in Procs : ~DoTerminate(p)
               PROVE  \E p \in Procs : Live(p)'
    BY DEF FoundInv, DoTerminate
  <2>1. pc[q] # "dead" BY <1>0 DEF SleepInv
  <2>2. sem[q] \in {0, 1, FD} BY <1>0
  <2>3. pc' = pc /\ evfd' = evfd OBVIOUS
  <2> HIDE DEF WakeOneExchange
  <2>4. pc[q] = "asleep" => evfd[q] \/ Writing(q)'
    BY <1>0, <1>1, <1>2, <2>2 DEF SleepInv
  <2>5. Live(q)' BY <1>3a, <2>1, <2>3, <2>4 DEF Live
  <2> QED BY <1>0, <2>5
<1> QED BY <1>4, <1>5, <1>6, <1>7

LEMMA WakeOneWriteIdle ==
  ASSUME TypeOK, TypeOK', IdleInv, NEW w \in Wakers, WakeOneWrite(w) PROVE IdleInv'
<1> USE DEF WakeOneWrite, WStep, thrdVars, procVars
<1>q. PICK q \in Procs : q = wfd[w] BY DEF IdleInv, SleepInv
<1>0. q = wfd[w] /\ wpc[w] = "write" BY <1>q
<1>e. \A p \in Procs : evfd'[p] <=> (evfd[p] \/ p = q) BY <1>0 DEF TypeOK
<1>f. /\ \A v \in Wakers : v # w => wpc'[v] = wpc[v] /\ wfd'[v] = wfd[v]
      /\ wpc'[w] = "idle"
  BY DEF TypeOK
<1>1. \A p \in Procs : evfd[p] \/ Writing(p) => evfd'[p] \/ Writing(p)'
  BY <1>0, <1>e, <1>f DEF Writing
<1>4. IdleListExact' BY DEF IdleInv, IdleListExact
<1>5. SleepInv' BY <1>1, <1>f DEF IdleInv, SleepInv, DoTerminate
<1>6. DyingInv' BY <1>1 DEF IdleInv, DyingInv
<1>7. \A p \in Procs : Live(p) => Live(p)' BY <1>1 DEF Live
<1>8. \A v \in Wakers : wpc[v] \in {"push", "wake", "xchg"} => wpc'[v] = wpc[v] BY <1>0, <1>f
<1>9. FoundInv' BY <1>7, <1>8 DEF IdleInv, FoundInv, DoTerminate
<1> QED BY <1>4, <1>5, <1>6, <1>9 DEF IdleInv

\* A processor in its main loop changes neither wakers nor descriptors: what
\* has to be shown for each step is that it stays in the idle list or leaves
\* it, that it does not fall asleep unseen, and what becomes of its semaphore.
LoopStep(p) ==
  /\ UNCHANGED <<wakeVars, dying>>
  /\ readyQ' \subseteq readyQ
  /\ \A q \in Procs \ {p} : pc'[q] = pc[q] /\ sem'[q] = sem[q] /\ (evfd'[q] <=> evfd[q])
  /\ pc'[p] = "dead" => DoTerminate(p)
  /\ pc'[p] = "asleep" => sem'[p] # 0 /\ (evfd[p] \/ sem'[p] # 1 => (evfd'[p] <=> evfd[p]))
  /\ pc'[p] = "asleep" /\ pc[p] # "asleep" => sem'[p] # 1
  /\ pc[p] = "asleep" /\ pc'[p] = "asleep" => sem'[p] = sem[p] /\ (evfd'[p] <=> evfd[p])
  /\ DoTerminate(p) /\ pc'[p] \in Drowsy => pc[p] \in Drowsy /\ (evfd'[p] <=> evfd[p])
  /\ Live(p) /\ readyQ' # {} /\ ~DoTerminate(p) =>
       \/ pc'[p] \notin {"sleep", "asleep", "dead"}
       \/ \E q \in Procs \ {p} : pc[q] \in {"lane", "slane"}
       \/ \E w \in Wakers : wpc[w] = "push"

LEMMA LoopStepIdle ==
  ASSUME TypeOK, TypeOK', IdleInv, IdleListExact', NEW p \in Procs, LoopStep(p)
  PROVE  IdleInv'
<1> USE DEF LoopStep, wakeVars
<1>1. \A q \in Procs : Writing(q)' <=> Writing(q) BY DEF Writing
<1>2. \A q \in Procs : DoTerminate(q)' <=> DoTerminate(q) BY DEF DoTerminate
<1>3. DyingInv'
  <2>1. ASSUME NEW q \in Procs, dying[q] = "woken", pc'[q] \in Drowsy PROVE evfd'[q]
    BY <2>1 DEF IdleInv, DyingInv, DoTerminate
  <2> QED BY <2>1 DEF DyingInv
<1>4. SleepInv'
  <2>1. ASSUME NEW q \in Procs, pc'[q] = "asleep", sem'[q] = 1, ~DoTerminate(q)
        PROVE  evfd'[q] \/ Writing(q)
    BY <2>1 DEF IdleInv, SleepInv
  <2>2. \A q \in Procs : pc'[q] = "asleep" => sem'[q] # 0 BY DEF IdleInv, SleepInv
  <2>3. \A q \in Procs : pc'[q] = "dead" => DoTerminate(q) BY DEF IdleInv, SleepInv
  <2> QED BY <1>1, <1>2, <2>1, <2>2, <2>3 DEF IdleInv, SleepInv
<1>5. \A q \in Procs \ {p} : Live(q) => Live(q)' BY <1>1 DEF Live
<1>6. FoundInv'
  <2>1. SUFFICES ASSUME readyQ' # {}, \A q \in Procs : ~DoTerminate(q),
                        ~\E w \in Wakers : wpc[w] \in {"push", "wake", "xchg"}
                 PROVE  \E q \in Procs : Live(q)'
    BY <1>2 DEF FoundInv
  <2>2. PICK q \in Procs : Live(q) BY <2>1 DEF IdleInv, FoundInv
  <2>3. CASE q # p BY <1>5, <2>2, <2>3
  <2>4. CASE q = p
    <3>1. CASE pc'[p] \notin {"sleep", "asleep", "dead"}
      BY <3>1 DEF Live
    <3>2. CASE \E r \in Procs \ {p} : pc[r] \in {"lane", "slane"}
      BY <3>2, <1>5 DEF Live
    <3>3. Live(p) /\ ~DoTerminate(p) BY <2>1, <2>2, <2>4
    <3>4. ~\E w \in Wakers : wpc[w] = "push" BY <2>1
    <3>5. \/ pc'[p] \notin {"sleep", "asleep", "dead"}
          \/ \E r \in Procs \ {p} : pc[r] \in {"lane", "slane"}
      BY <2>1, <3>3, <3>4
    <3> QED BY <3>1, <3>2, <3>5
  <2> QED BY <2>3, <2>4
<1> QED BY <1>3, <1>4, <1>6 DEF IdleInv

LEMMA MainLoopIdle ==
  ASSUME TypeOK, TypeOK', IdleInv, NEW p \in Procs,
         \/ AfterRun(p) \/ EnterLane(p) \/ PopLane(p) \/ CheckTerminate(p) \/ MissSearch(p)
         \/ ResetSem(p) \/ MarkIdle(p) \/ IdleSleep(p) \/ ReadEventfd(p) \/ Interrupted(p) \/ MarkAwake(p)
  PROVE  IdleInv'
<1> USE DEF TypeOK, Go, thrdVars, wakeVars, idleVars
<1>1. CASE AfterRun(p)
  <2>1. IdleListExact' BY <1>1 DEF AfterRun, IdleInv, IdleListExact
  <2>2. LoopStep(p) BY <1>1 DEF AfterRun, LoopStep, DoTerminate, Drowsy
  <2> QED BY <2>1, <2>2, LoopStepIdle
<1>2. CASE EnterLane(p)
  <2>1. IdleListExact' BY <1>2 DEF EnterLane, IdleInv, IdleListExact
  <2>2. LoopStep(p) BY <1>2 DEF EnterLane, LoopStep, Drowsy
  <2> QED BY <2>1, <2>2, LoopStepIdle
<1>3. CASE PopLane(p)
  <2>1. IdleListExact' BY <1>3 DEF PopLane, IdleInv, IdleListExact
  <2>2. LoopStep(p) BY <1>3 DEF PopLane, LoopStep, Drowsy
  <2> QED BY <2>1, <2>2, LoopStepIdle
<1>4. CASE CheckTerminate(p)
  <2>1. IdleListExact' BY <1>4 DEF CheckTerminate, IdleInv, IdleListExact
  <2>2. LoopStep(p) BY <1>4 DEF CheckTerminate, LoopStep, Drowsy
  <2> QED BY <2>1, <2>2, LoopStepIdle
<1>5. CASE MissSearch(p)
  <2>1. IdleListExact' BY <1>5 DEF MissSearch, IdleInv, IdleListExact
  <2>2. LoopStep(p) BY <1>5 DEF MissSearch, LaneBusy, LoopStep, Drowsy
  <2> QED BY <2>1, <2>2, LoopStepIdle
<1>6. CASE MarkIdle(p)
  <2>1. IdleListExact' BY <1>6 DEF MarkIdle, IdleInv, IdleListExact
  <2>2. LoopStep(p) BY <1>6 DEF MarkIdle, LoopStep, Drowsy
  <2> QED BY <2>1, <2>2, LoopStepIdle
<1>7. CASE IdleSleep(p)
  <2>1. IdleListExact' BY <1>7 DEF IdleSleep, IdleInv, IdleListExact
  <2>2. LoopStep(p) BY <1>7 DEF IdleSleep, LoopStep, Live, Drowsy
  <2> QED BY <2>1, <2>2, LoopStepIdle
<1>8. CASE ReadEventfd(p)
  <2>1. IdleListExact' BY <1>8 DEF ReadEventfd, IdleInv, IdleListExact
  <2>2. LoopStep(p) BY <1>8 DEF ReadEventfd, LoopStep, Drowsy
  <2> QED BY <2>1, <2>2, LoopStepIdle
<1>9. CASE Interrupted(p)
  <2>1. IdleListExact' BY <1>9 DEF Interrupted, IdleInv, IdleListExact
  <2>2. LoopStep(p) BY <1>9 DEF Interrupted, LoopStep, Drowsy
  <2> QED BY <2>1, <2>2, LoopStepIdle
<1>10. CASE MarkAwake(p)
  <2>1. IdleListExact' BY <1>10 DEF MarkAwake, IdleInv, IdleListExact
  <2>2. LoopStep(p) BY <1>10 DEF MarkAwake, LoopStep, Drowsy
  <2> QED BY <2>1, <2>2, LoopStepIdle
<1>11. CASE ResetSem(p)
  <2>1. IdleListExact' BY <1>11 DEF ResetSem, IdleInv, IdleListExact
  <2>2. LoopStep(p) BY <1>11 DEF ResetSem, LoopStep, Drowsy
  <2> QED BY <2>1, <2>2, LoopStepIdle
<1> QED BY <1>1, <1>2, <1>3, <1>4, <1>5, <1>6, <1>7, <1>8, <1>9, <1>10, <1>11

LEMMA DestroyIdle ==
  ASSUME TypeOK, TypeOK', IdleInv, NEW p \in Procs, Destroy(p) PROVE IdleInv'
<1> USE DEF Destroy, thrdVars, wakeVars, procVars
<1>1. \A q \in Procs : Writing(q)' <=> Writing(q) BY DEF Writing
<1>2. DoTerminate(p)' /\ \A q \in Procs : DoTerminate(q) => DoTerminate(q)'
  BY DEF DoTerminate, TypeOK
<1>3. IdleListExact' BY DEF IdleInv, IdleListExact
<1>4. \A q \in Procs : q # p => sem'[q] = sem[q] /\ (evfd'[q] <=> evfd[q]) /\ dying'[q] = dying[q]
  BY DEF TypeOK
<1>5. SleepInv' BY <1>1, <1>2, <1>4 DEF IdleInv, SleepInv, TypeOK
<1>6. DyingInv' BY <1>1, <1>4 DEF IdleInv, DyingInv, TypeOK
<1>7. FoundInv' BY <1>2 DEF FoundInv
<1> QED BY <1>3, <1>5, <1>6, <1>7 DEF IdleInv

LEMMA IdleNext ==
  ASSUME TypeOK, TypeOK', IdleInv, [Next]_vars,
         \A q \in Procs : wpc[q] # "idle" => pc[q] \in {"resched", "finish"}
  PROVE  IdleInv'
<1>1. ASSUME NEW p \in Procs, ProcStep(p) PROVE IdleInv'
  BY <1>1, RunAwake, AwakeStepIdle, MainLoopIdle DEF ProcStep
<1>2. ASSUME NEW p \in Procs, Interrupted(p) \/ Destroy(p) PROVE IdleInv'
  BY <1>2, MainLoopIdle, DestroyIdle
<1>3. ASSUME NEW t \in Threads, ThreadStep(t) PROVE IdleInv'
  BY <1>3, ThreadStepAwake, AwakeStepIdle
<1>4. ASSUME NEW w \in Wakers, WakerStep(w) PROVE IdleInv'
  BY <1>4, WakerAwake, AwakeStepIdle, PushIdle, WakeOneLoadIdle, WakeOneExchangeIdle,
     WakeOneWriteIdle DEF WakerStep
<1>5. ASSUME NEW w \in Wakers, NEW t \in Threads, Take(w, t) \/ ThrdStart(w, t) PROVE IdleInv'
  BY <1>5, StartAwake, AwakeStepIdle
<1>6. CASE UNCHANGED vars
  <2>1. AwakeStep
    BY <1>6 DEF AwakeStep, vars, thrdVars, wakeVars, procVars, idleVars
  <2> QED BY <2>1, AwakeStepIdle
<1> QED BY <1>1, <1>2, <1>3, <1>4, <1>5, <1>6 DEF Next

LEMMA IdleStranded == ASSUME TypeOK, IdleInv PROVE NobodyStranded
<1> USE DEF IdleInv, TypeOK
<1>1. \A p \in Procs : Live(p) => Roused(p) BY DEF Live, Roused, Writing
<1>2. ASSUME readyQ # {}, \A p \in Procs : ~DoTerminate(p)
      PROVE  \/ \E p \in Procs : Roused(p)
             \/ \E w \in Wakers : wpc[w] \in {"push", "wake", "xchg"}
  BY <1>1, <1>2 DEF FoundInv
<1>3. \A p \in Procs : dying[p] = "woken" /\ pc[p] = "asleep" => Roused(p)
  BY DEF DyingInv, Drowsy, Roused, Writing
<1> QED BY <1>2, <1>3 DEF NobodyStranded

\* The idle list is what the processors' own steps say, and its head pointer
\* is null only when it is empty: lock-free wakers never miss an idle processor.
THEOREM IdleListIsExact == Spec => []IdleListExact
<1>1. Init => IInv /\ IdleInv BY InitInv, IdleInit
<1>2. IInv /\ IdleInv /\ [Next]_vars => IInv' /\ IdleInv'
  BY NextInv, IdleNext DEF IInv, HeldInv
<1>3. IdleInv => IdleListExact BY DEF IdleInv
<1> QED BY <1>1, <1>2, <1>3, PTL DEF Spec

\* No wake is lost between the push of a thread and the sleep of a processor:
\* while a thread is ready, somebody is awake or is being woken.
THEOREM NobodyIsStranded == Spec => []NobodyStranded
<1>1. Init => IInv /\ IdleInv BY InitInv, IdleInit
<1>2. IInv /\ IdleInv /\ [Next]_vars => IInv' /\ IdleInv'
  BY NextInv, IdleNext DEF IInv, HeldInv
<1>3. IInv /\ IdleInv => NobodyStranded BY IdleStranded DEF IInv
<1> QED BY <1>1, <1>2, <1>3, PTL DEF Spec
-----------------------------------------------------------------------------
(***************************************************************************)
(* The kernel implements ParkUnpark, step by step.                         *)
(***************************************************************************)
\* What ParkUnpark sees of a thread.
Mode(t) ==
  CASE code[t] = "left" -> "gone" [] code[t] = "parked" -> "parked" [] OTHER -> "going"
Permit(t) == ticket[t] = IF Dropped(t) THEN TICKET_RUNNING ELSE TICKET_UNBLOCK

\* A thread that has dropped its ticket waits for an unpark or has had it.
DropInv == \A t \in Threads : Dropped(t) => ticket[t] = -1 \/ Free(t)

\* How the steps of the kernel appear to ParkUnpark.
SameFor(t) == Mode(t)' = Mode(t) /\ (Permit(t)' <=> Permit(t))
Others(t) == \A u \in Threads : u # t => SameFor(u)

ParkView == <<[t \in Threads |-> Mode(t)], [t \in Threads |-> Permit(t)]>>

LEMMA StutterView == ASSUME \A t \in Threads : SameFor(t) PROVE UNCHANGED ParkView
<1>1. \A t \in Threads : Permit(t)' = Permit(t) BY DEF SameFor, Permit
<1> QED BY <1>1 DEF ParkView, SameFor

LEMMA UnparkView ==
  ASSUME NEW t \in Threads, Others(t), Mode(t)' = Mode(t), Mode(t) # "gone", ~Permit(t), Permit(t)'
  PROVE  Parking!Unpark(t)
<1>1. \A u \in Threads : Mode(u)' = Mode(u) BY DEF Others, SameFor
<1>2. \A u \in Threads : u # t => Permit(u)' = Permit(u) BY DEF Others, SameFor, Permit
<1>3. Permit(t)' = TRUE BY DEF Permit
<1>4. UNCHANGED [u \in Threads |-> Mode(u)] BY <1>1
<1>5. [u \in Threads |-> Permit(u)]' = [[u \in Threads |-> Permit(u)] EXCEPT ![t] = TRUE]
  BY <1>2, <1>3
<1> QED BY <1>4, <1>5 DEF Parking!Unpark, Mode, Permit

LEMMA ParkedView ==
  ASSUME NEW t \in Threads, Others(t), Mode(t) = "going", Mode(t)' = "parked", Permit(t)' <=> Permit(t)
  PROVE  Parking!Park(t)
<1>1. \A u \in Threads : Permit(u)' = Permit(u) BY DEF Others, SameFor, Permit
<1>2. \A u \in Threads : u # t => Mode(u)' = Mode(u) BY DEF Others, SameFor
<1>3. UNCHANGED [u \in Threads |-> Permit(u)] BY <1>1
<1>4. [u \in Threads |-> Mode(u)]' = [[u \in Threads |-> Mode(u)] EXCEPT ![t] = "parked"]
  BY <1>2
<1> QED BY <1>3, <1>4 DEF Parking!Park, Mode, Permit

LEMMA ReturnView ==
  ASSUME NEW t \in Threads, Others(t), Mode(t) = "parked", Mode(t)' = "going", Permit(t), ~Permit(t)'
  PROVE  Parking!Return(t)
<1>1. \A u \in Threads : u # t => Permit(u)' = Permit(u) BY DEF Others, SameFor, Permit
<1>2. \A u \in Threads : u # t => Mode(u)' = Mode(u) BY DEF Others, SameFor
<1>3. Permit(t)' = FALSE BY DEF Permit
<1>4. [u \in Threads |-> Permit(u)]' = [[u \in Threads |-> Permit(u)] EXCEPT ![t] = FALSE]
  BY <1>1, <1>3
<1>5. [u \in Threads |-> Mode(u)]' = [[u \in Threads |-> Mode(u)] EXCEPT ![t] = "going"]
  BY <1>2
<1> QED BY <1>4, <1>5 DEF Parking!Return, Mode, Permit

LEMMA LeaveView ==
  ASSUME NEW t \in Threads, Others(t), Mode(t) = "going", Mode(t)' = "gone", ~Permit(t), ~Permit(t)'
  PROVE  Parking!Leave(t)
<1>1. \A u \in Threads : Permit(u)' = Permit(u) BY DEF Others, SameFor, Permit
<1>2. \A u \in Threads : u # t => Mode(u)' = Mode(u) BY DEF Others, SameFor
<1>3. UNCHANGED [u \in Threads |-> Permit(u)] BY <1>1
<1>4. [u \in Threads |-> Mode(u)]' = [[u \in Threads |-> Mode(u)] EXCEPT ![t] = "gone"]
  BY <1>2
<1> QED BY <1>3, <1>4 DEF Parking!Leave, Mode, Permit

ParkStep == Parking!Next \/ UNCHANGED ParkView

LEMMA ParkInit == Init => Parking!Init /\ DropInv
<1> SUFFICES ASSUME Init PROVE Parking!Init /\ DropInv
  OBVIOUS
<1>1. \A t \in Threads : Mode(t) = "going" BY DEF Init, Mode
<1>2. \A t \in Threads : Permit(t) = FALSE BY DEF Init, Permit, Dropped
<1>3. DropInv BY DEF Init, DropInv, Dropped
<1> QED BY <1>1, <1>2, <1>3 DEF Parking!Init, Mode, Permit
-----------------------------------------------------------------------------
\* Steps that neither park nor unpark a thread: the wake a dropped thread
\* waits for is not touched, except that its handle may change hands.
LEMMA SameStep ==
  ASSUME IInv, DropInv, ticket' = ticket,
         \A t \in Threads : Mode(t)' = Mode(t) /\ (Dropped(t)' <=> Dropped(t)),
         \A t \in Threads : Dropped(t) =>
           /\ enlisted'[t] => enlisted[t]
           /\ \A w \in Wakers : Taken(w, t)' => Taken(w, t) \/ enlisted[t]
  PROVE  DropInv' /\ ParkStep
<1>1. DropInv' BY DEF DropInv, Free
<1>2. \A t \in Threads : SameFor(t) BY DEF SameFor, Permit
<1> QED BY <1>1, <1>2, StutterView DEF ParkStep

\* In particular those that leave every ticket and the code of every thread.
LEMMA SameCode ==
  ASSUME IInv, DropInv, UNCHANGED <<code, ticket>>,
         \A p \in Procs, t \in Threads : code[t] = "parked" =>
           (cur'[p] = t /\ pc'[p] \in {"back", "settle"} <=> cur[p] = t /\ pc[p] \in {"back", "settle"}),
         \A t \in Threads : enlisted'[t] => enlisted[t],
         \A w \in Wakers, t \in Threads : Taken(w, t)' => Taken(w, t) \/ enlisted[t]
  PROVE  DropInv' /\ ParkStep
<1>1. \A t \in Threads : Mode(t)' = Mode(t) BY DEF Mode
<1>2. \A t \in Threads : Dropped(t)' <=> Dropped(t) BY DEF Dropped
<1> QED BY <1>1, <1>2, SameStep

\* Steps that neither switch threads nor move one.
LEMMA LoopPark ==
  ASSUME NEW p \in Procs, IInv, DropInv,
         \/ FinishRun(p) \/ AfterRun(p) \/ EnterLane(p) \/ CheckTerminate(p)
         \/ ResetSem(p) \/ MarkIdle(p) \/ MissSearch(p) \/ IdleSleep(p) \/ ReadEventfd(p) \/ MarkAwake(p)
         \/ Interrupted(p) \/ Destroy(p)
  PROVE  DropInv' /\ ParkStep
<1>1. UNCHANGED <<code, ticket, enlisted, cur, wpc, wthr>>
  BY DEF FinishRun, AfterRun, EnterLane, CheckTerminate, ResetSem, MarkIdle, MissSearch, IdleSleep,
         ReadEventfd, MarkAwake, Interrupted, Destroy, thrdVars, wakeVars, procVars
<1>2. \/ pc' = pc
      \/ /\ pc[p] \notin {"back", "settle"}
         /\ \E y : y \notin {"back", "settle"} /\ pc' = [pc EXCEPT ![p] = y]
  <2>1. ASSUME NEW x, NEW y, Go(p, x, y), x \notin {"back", "settle"}, y \notin {"back", "settle"}
        PROVE  /\ pc[p] \notin {"back", "settle"}
               /\ \E z : z \notin {"back", "settle"} /\ pc' = [pc EXCEPT ![p] = z]
    BY <2>1, Zenon DEF Go
  <2>2. CASE FinishRun(p) BY <2>2 DEF FinishRun
  <2>3. CASE AfterRun(p) BY <2>1, <2>3 DEF AfterRun
  <2>4. CASE EnterLane(p) BY <2>1, <2>4 DEF EnterLane
  <2>6. CASE CheckTerminate(p) BY <2>1, <2>6 DEF CheckTerminate
  <2>7. CASE MarkIdle(p) BY <2>1, <2>7 DEF MarkIdle
  <2>8. CASE MissSearch(p) BY <2>1, <2>8 DEF MissSearch
  <2>9. CASE IdleSleep(p) BY <2>1, <2>9 DEF IdleSleep
  <2>10. CASE ReadEventfd(p) BY <2>1, <2>10 DEF ReadEventfd
  <2>11. CASE MarkAwake(p) BY <2>1, <2>11 DEF MarkAwake
  <2>12. CASE Interrupted(p) BY <2>1, <2>12 DEF Interrupted
  <2>13. CASE Destroy(p) BY <2>13 DEF Destroy, procVars
  <2>14. CASE ResetSem(p) BY <2>1, <2>14 DEF ResetSem
  <2> QED BY <2>2, <2>3, <2>4, <2>6, <2>7, <2>8, <2>9, <2>10, <2>11, <2>12, <2>13, <2>14
<1>3. \A q \in Procs : pc'[q] \in {"back", "settle"} <=> pc[q] \in {"back", "settle"}
  BY <1>2 DEF IInv, TypeOK
<1>4. \A w \in Wakers, t \in Threads : Taken(w, t)' => Taken(w, t) BY <1>1 DEF Taken
<1> QED BY <1>1, <1>3, <1>4, SameCode

LEMMA WakeOnePark ==
  ASSUME NEW w \in Wakers, IInv, DropInv,
         WakeOneLoad(w) \/ WakeOneExchange(w) \/ WakeOneWrite(w)
  PROVE  DropInv' /\ ParkStep
<1>1. UNCHANGED <<code, ticket, enlisted, cur, pc, wthr>>
  BY DEF WakeOneLoad, WakeOneExchange, WakeOneWrite, thrdVars, procVars
<1>2. \E x : wpc' = [wpc EXCEPT ![w] = x] /\ x # "unpark"
  BY DEF WakeOneLoad, WakeOneExchange, WakeOneWrite, WStep
<1>3. \A v \in Wakers, t \in Threads : Taken(v, t)' => Taken(v, t)
  BY <1>1, <1>2 DEF Taken, IInv, TypeOK
<1> QED BY <1>1, <1>3, SameCode

LEMMA ScheduleThreadPark ==
  ASSUME NEW w \in Wakers, IInv, DropInv, ScheduleThread(w) PROVE DropInv' /\ ParkStep
<1> USE DEF ScheduleThread, WStep, procVars
<1>1. \A v \in Wakers, t \in Threads : Taken(v, t)' => Taken(v, t) BY DEF Taken, IInv, TypeOK
<1> QED BY <1>1, SameCode

LEMMA PushPark ==
  ASSUME NEW w \in Wakers, IInv, DropInv, Push(w) PROVE DropInv' /\ ParkStep
<1> USE DEF Push, WStep, procVars, thrdVars
<1>1. \A v \in Wakers, t \in Threads : Taken(v, t)' => Taken(v, t) BY DEF Taken, IInv, TypeOK
<1> QED BY <1>1, SameCode

LEMMA PopLanePark ==
  ASSUME NEW p \in Procs, IInv, DropInv, PopLane(p) PROVE DropInv' /\ ParkStep
<1>1. UNCHANGED <<code, ticket, enlisted, wpc, wthr>> BY DEF PopLane, thrdVars, wakeVars
<1>2. pc[p] \in {"lane", "slane"}
  BY DEF PopLane, Go
<1>3. \E x : pc' = [pc EXCEPT ![p] = x] /\ x \in {"run", "cancel", "next", "sleep"}
  BY DEF PopLane, Go
<1>4. \A q \in Procs : q # p => cur'[q] = cur[q]
  BY DEF PopLane, IInv, TypeOK
<1>5. \A q \in Procs, t \in Threads :
        cur'[q] = t /\ pc'[q] \in {"back", "settle"} <=> cur[q] = t /\ pc[q] \in {"back", "settle"}
  BY <1>2, <1>3, <1>4 DEF IInv, TypeOK
<1>6. \A v \in Wakers, t \in Threads : Taken(v, t)' => Taken(v, t) BY <1>1 DEF Taken
<1> QED BY <1>1, <1>5, <1>6, SameCode

LEMMA ReschedulePark ==
  ASSUME NEW p \in Procs, IInv, DropInv, Reschedule(p) PROVE DropInv' /\ ParkStep
<1> USE DEF Reschedule, Go, thrdVars, IInv, TypeOK
<1>1. cur[p] \in Threads /\ code[cur[p]] # "parked" BY DEF HeldInv, CodeInv, Holding
<1>2. \A q \in Procs, t \in Threads : code[t] = "parked" =>
        (cur'[q] = t /\ pc'[q] \in {"back", "settle"} <=> cur[q] = t /\ pc[q] \in {"back", "settle"})
  BY <1>1
<1>3. \A v \in Wakers, t \in Threads : Taken(v, t)' => Taken(v, t) BY DEF Taken
<1> QED BY <1>2, <1>3, SameCode

LEMMA ThreadFinishPark ==
  ASSUME NEW p \in Procs, IInv, DropInv, ThreadFinish(p) PROVE DropInv' /\ ParkStep
<1>1. pc[p] = "back" /\ pc' = [pc EXCEPT ![p] = "finish"] /\ cur' = [cur EXCEPT ![p] = NoThread]
  BY DEF ThreadFinish, Go
<1>2. cur[p] \in Threads /\ code[cur[p]] # "parked"
  BY <1>1 DEF ThreadFinish, IInv, TypeOK, HeldInv, PlaceInv, Holding
<1>3. \A q \in Procs, t \in Threads : code[t] = "parked" =>
        (cur'[q] = t /\ pc'[q] \in {"back", "settle"} <=> cur[q] = t /\ pc[q] \in {"back", "settle"})
  BY <1>1, <1>2 DEF IInv, TypeOK
<1>4. UNCHANGED <<code, ticket>> BY DEF ThreadFinish
<1>5. CASE UNCHANGED <<enlisted, wpc, wthr>>
  <2>1. \A v \in Wakers, t \in Threads : Taken(v, t)' => Taken(v, t) BY <1>5 DEF Taken
  <2> QED BY <1>3, <1>4, <1>5, <2>1, SameCode
<1>6. CASE \E n \in Threads :
             /\ enlisted[n]
             /\ enlisted' = [enlisted EXCEPT ![n] = FALSE]
             /\ wpc' = [wpc EXCEPT ![p] = "unpark"]
             /\ wthr' = [wthr EXCEPT ![p] = n]
  <2> PICK n \in Threads : /\ enlisted[n]
                           /\ enlisted' = [enlisted EXCEPT ![n] = FALSE]
                           /\ wpc' = [wpc EXCEPT ![p] = "unpark"]
                           /\ wthr' = [wthr EXCEPT ![p] = n]
    BY <1>6
  <2>1. enlisted \in [Threads -> BOOLEAN] BY DEF IInv, TypeOK
  <2>2. \A t \in Threads : enlisted'[t] => enlisted[t] BY <2>1, ExceptFalse
  <2>3. \A v \in Wakers, t \in Threads : Taken(v, t)' => Taken(v, t) \/ t = n
    BY DEF Taken, IInv, TypeOK
  <2>4. \A v \in Wakers, t \in Threads : Taken(v, t)' => Taken(v, t) \/ enlisted[t] BY <2>3
  <2> QED BY <1>3, <1>4, <2>2, <2>4, SameCode
<1> QED BY <1>5, <1>6 DEF ThreadFinish

LEMMA SettlePark ==
  ASSUME NEW p \in Procs, IInv, DropInv, Settle(p) PROVE DropInv' /\ ParkStep
<1> USE DEF Settle, Go, wakeVars, IInv, TypeOK
<1>1. \A q \in Procs : cur'[q] = cur[q] /\
        (pc'[q] \in {"back", "settle"} <=> pc[q] \in {"back", "settle"})
  OBVIOUS
<1>2. \A v \in Wakers, t \in Threads : Taken(v, t)' => Taken(v, t) BY DEF Taken
<1> QED BY <1>1, <1>2, SameCode

LEMMA TakePark ==
  ASSUME NEW w \in Wakers, NEW u \in Threads, IInv, DropInv, Take(w, u)
  PROVE  DropInv' /\ ParkStep
<1>1. enlisted \in [Threads -> BOOLEAN] BY DEF IInv, TypeOK
<1>2. enlisted[u] /\ enlisted' = [enlisted EXCEPT ![u] = FALSE] BY DEF Take
<1>3. \A t \in Threads : enlisted'[t] => enlisted[t] BY <1>1, <1>2, ExceptFalse
<1>4. \A v \in Wakers, t \in Threads : Taken(v, t)' => Taken(v, t) \/ t = u
  BY DEF Take, WStep, Taken, IInv, TypeOK
<1>5. \A v \in Wakers, t \in Threads : Taken(v, t)' => Taken(v, t) \/ enlisted[t]
  BY <1>2, <1>4
<1>6. UNCHANGED <<code, ticket, pc, cur>> BY DEF Take, procVars
<1> QED BY <1>3, <1>5, <1>6, SameCode

LEMMA ThrdStartPark ==
  ASSUME NEW w \in Wakers, NEW u \in Threads, IInv, DropInv, ThrdStart(w, u)
  PROVE  DropInv' /\ ParkStep
<1> USE DEF ThrdStart, WStep, procVars, IInv, TypeOK
<1>1. \A t \in Threads : Mode(t)' = Mode(t) /\ (Dropped(t)' <=> Dropped(t))
  BY DEF Mode, Dropped
<1>2. \A v \in Wakers, t \in Threads : Taken(v, t)' => Taken(v, t) BY DEF Taken
<1> QED BY <1>1, <1>2, SameStep

LEMMA EnlistPark ==
  ASSUME NEW u \in Threads, IInv, DropInv, Enlist(u) PROVE DropInv' /\ ParkStep
<1> USE DEF Enlist, procVars, wakeVars, IInv, TypeOK
<1>1. \A t \in Threads : Mode(t)' = Mode(t) /\ (Dropped(t)' <=> Dropped(t))
  BY DEF Mode, Dropped
<1>2. \A t \in Threads : Dropped(t) => t # u BY DEF Dropped
<1>3. \A t \in Threads : t # u => enlisted'[t] = enlisted[t] OBVIOUS
<1>4. \A v \in Wakers, t \in Threads : Taken(v, t)' => Taken(v, t) BY DEF Taken
<1> QED BY <1>1, <1>2, <1>3, <1>4, SameStep

LEMMA ForceYieldPark ==
  ASSUME NEW u \in Threads, IInv, DropInv, ForceYield(u) PROVE DropInv' /\ ParkStep
<1> USE DEF IInv, TypeOK
<1>1. PICK p \in Procs : cur[p] = u /\ Go(p, "exec", "back") BY DEF ForceYield, ReturnToKernel
<1>2. code[u] # "parked" BY <1>1 DEF PlaceInv, Go, Holding
<1>3. UNCHANGED <<code, ticket, enlisted, cur, wpc, wthr>> BY DEF ForceYield, wakeVars
<1>4. \A q \in Procs, t \in Threads : code[t] = "parked" =>
        (cur'[q] = t /\ pc'[q] \in {"back", "settle"} <=> cur[q] = t /\ pc[q] \in {"back", "settle"})
  BY <1>1, <1>2, <1>3 DEF Go
<1>5. \A v \in Wakers, t \in Threads : Taken(v, t)' => Taken(v, t) BY <1>3 DEF Taken
<1> QED BY <1>3, <1>4, <1>5, SameCode

LEMMA MustUnparkPark ==
  ASSUME NEW w \in Wakers, IInv, DropInv, MustUnpark(w) PROVE DropInv' /\ ParkStep
<1> USE DEF IInv, TypeOK
<1>1. PICK u \in Threads : u = wthr[w] /\ Taken(w, u)
  BY DEF MustUnpark, WStep, HeldInv, Taken
<1>2. ticket' = [ticket EXCEPT ![u] = @ + 1] /\ UNCHANGED <<code, enlisted, pc, cur>>
  BY <1>1 DEF MustUnpark, procVars
<1>3. /\ code[u] \in {"parking", "parked"} /\ ticket[u] \in {0, -1} /\ ~enlisted[u]
      /\ \A v \in Wakers : Taken(v, u) => v = w
  BY <1>1 DEF TakenInv
<1>4. \A v \in Wakers, t \in Threads : Taken(v, t)' => Taken(v, t) /\ v # w
  BY DEF MustUnpark, WStep, Taken
<1>5. \A t \in Threads : Mode(t)' = Mode(t) /\ (Dropped(t)' <=> Dropped(t))
  BY <1>2 DEF Mode, Dropped
<1>6. \A t \in Threads : t # u => ticket'[t] = ticket[t] BY <1>2
<1>7. \A t \in Threads : t # u => (Free(t) => Free(t)')
  BY <1>2, <1>4, <1>6 DEF Free
<1>8. Others(u) BY <1>5, <1>6 DEF Others, SameFor, Permit
<1>9. ticket'[u] = ticket[u] + 1 BY <1>2
<1>10. Mode(u) # "gone" BY <1>3 DEF Mode
<1>11. CASE ticket[u] = -1
  <2>1. Dropped(u)
    <3>1. code[u] = "parked" BY <1>3, <1>11 DEF CodeInv
    <3>2. \A p \in Procs : pc[p] \in {"back", "settle"} => cur[p] # u
      BY <1>11 DEF PlaceInv, Holding
    <3> QED BY <3>1, <3>2 DEF Dropped
  <2>2. ticket'[u] = 0 BY <1>9, <1>11
  <2>3. Free(u)' BY <1>2, <1>3, <1>4, <2>2 DEF Free
  <2>4. DropInv' BY <1>5, <1>6, <1>7, <2>3 DEF DropInv
  <2>5. ~Permit(u) BY <1>11, <2>1 DEF Permit
  <2>6. Permit(u)' BY <1>5, <2>1, <2>2 DEF Permit
  <2>7. Parking!Unpark(u) BY <1>5, <1>8, <1>10, <2>5, <2>6, UnparkView
  <2> QED BY <2>4, <2>7 DEF ParkStep, Parking!Next
<1>12. CASE ticket[u] = 0
  <2>1. ~Dropped(u) BY <1>1, <1>12 DEF DropInv, Free
  <2>2. ticket'[u] = 1 BY <1>9, <1>12
  <2>3. DropInv' BY <1>5, <1>6, <1>7, <2>1 DEF DropInv
  <2>4. ~Permit(u) BY <1>12, <2>1 DEF Permit
  <2>5. Permit(u)' BY <1>5, <2>1, <2>2 DEF Permit
  <2>6. Parking!Unpark(u) BY <1>5, <1>8, <1>10, <2>4, <2>5, UnparkView
  <2> QED BY <2>3, <2>6 DEF ParkStep, Parking!Next
<1> QED BY <1>3, <1>11, <1>12

LEMMA ParkPark ==
  ASSUME NEW u \in Threads, IInv, DropInv, Park(u) PROVE DropInv' /\ ParkStep
<1>1. PICK p \in Procs : cur[p] = u /\ pc[p] = "exec" /\ pc' = [pc EXCEPT ![p] = "back"]
  BY DEF Park, ReturnToKernel, Go
<1> USE DEF IInv, TypeOK
<1>2. /\ code[u] = "parking" /\ code' = [code EXCEPT ![u] = "parked"]
      /\ UNCHANGED <<ticket, enlisted, cur, wpc, wthr>>
  BY DEF Park, wakeVars
<1>3. ~Dropped(u) BY <1>2 DEF Dropped
<1>4. ~Dropped(u)' BY <1>1, <1>2 DEF Dropped
<1>5. \A t \in Threads : t # u => code'[t] = code[t] /\ (Dropped(t)' <=> Dropped(t))
  BY <1>1, <1>2 DEF Dropped
<1>6. \A v \in Wakers, t \in Threads : Taken(v, t)' <=> Taken(v, t) BY <1>2 DEF Taken
<1>7. DropInv' BY <1>2, <1>4, <1>5, <1>6 DEF DropInv, Free
<1>8. Others(u) BY <1>2, <1>5 DEF Others, SameFor, Mode, Permit
<1>9. Mode(u) = "going" BY <1>2 DEF Mode
<1>10. Mode(u)' = "parked" BY <1>2 DEF Mode
<1>11. Permit(u)' <=> Permit(u) BY <1>2, <1>3, <1>4 DEF Permit
<1>12. Parking!Park(u) BY <1>8, <1>9, <1>10, <1>11, ParkedView
<1> QED BY <1>7, <1>12 DEF ParkStep, Parking!Next

LEMMA ThrdLeavePark ==
  ASSUME NEW u \in Threads, IInv, DropInv, ThrdLeave(u) PROVE DropInv' /\ ParkStep
<1>1. PICK p \in Procs : cur[p] = u /\ pc[p] = "exec" /\ pc' = [pc EXCEPT ![p] = "back"]
  <2>1. ReturnToKernel(u) BY DEF ThrdLeave
  <2> QED BY <2>1 DEF ReturnToKernel, Go
<1> USE DEF IInv, TypeOK
<1>2. /\ code[u] = "user" /\ code' = [code EXCEPT ![u] = "left"]
      /\ ticket[u] = 0 /\ ticket' = [ticket EXCEPT ![u] = TICKET_DEAD]
      /\ UNCHANGED <<enlisted, cur, wpc, wthr>>
  BY DEF ThrdLeave, wakeVars
<1>3. ~Dropped(u) BY <1>2 DEF Dropped
<1>4. ~Dropped(u)' BY <1>2 DEF Dropped
<1>5. \A t \in Threads : t # u =>
        code'[t] = code[t] /\ ticket'[t] = ticket[t] /\ (Dropped(t)' <=> Dropped(t))
  BY <1>1, <1>2 DEF Dropped
<1>6. \A v \in Wakers, t \in Threads : Taken(v, t)' <=> Taken(v, t) BY <1>2 DEF Taken
<1>7. DropInv' BY <1>2, <1>4, <1>5, <1>6 DEF DropInv, Free
<1>8. Others(u) BY <1>5 DEF Others, SameFor, Mode, Permit
<1>9. Mode(u) = "going" BY <1>2 DEF Mode
<1>10. Mode(u)' = "gone" BY <1>2 DEF Mode
<1>11. ~Permit(u) BY <1>2, <1>3 DEF Permit
<1>12. ~Permit(u)' BY <1>2, <1>4 DEF Permit
<1>13. Parking!Leave(u) BY <1>8, <1>9, <1>10, <1>11, <1>12, LeaveView
<1> QED BY <1>7, <1>13 DEF ParkStep, Parking!Next

LEMMA RunThreadPark ==
  ASSUME NEW p \in Procs, IInv, DropInv, RunThread(p) PROVE DropInv' /\ ParkStep
<1> USE DEF IInv, TypeOK
<1>1. PICK u \in Threads : u = cur[p] /\ pc[p] \in {"run", "rerun"} /\ Runnable(u)
  BY DEF RunThread, HeldInv, PlaceInv, Holding
<1>2. /\ pc' = [pc EXCEPT ![p] = "exec"]
      /\ code' = IF code[u] = "parked" THEN [code EXCEPT ![u] = "user"] ELSE code
      /\ UNCHANGED <<ticket, enlisted, cur, wpc, wthr>>
  BY <1>1 DEF RunThread, wakeVars
<1>3. \A v \in Wakers, t \in Threads : Taken(v, t)' <=> Taken(v, t) BY <1>2 DEF Taken
<1>4. \A q \in Procs : pc'[q] \in {"back", "settle"} <=> pc[q] \in {"back", "settle"}
  BY <1>1, <1>2
<1>5. CASE code[u] # "parked"
  <2>1. code' = code BY <1>2, <1>5
  <2> QED BY <1>2, <1>3, <1>4, <2>1, SameCode
<1>6. CASE code[u] = "parked"
  <2>1. code' = [code EXCEPT ![u] = "user"] BY <1>2, <1>6
  <2>2. \A t \in Threads : t # u => code'[t] = code[t] /\ (Dropped(t)' <=> Dropped(t))
    BY <1>2, <1>4, <2>1 DEF Dropped
  <2>3. Free(u) BY <1>1, <1>6 DEF Runnable
  <2>4. Dropped(u)
    <3>1. \A q \in Procs : cur[q] = u => q = p BY <1>1 DEF OnePlace
    <3> QED BY <1>1, <1>6, <3>1 DEF Dropped
  <2>5. ~Dropped(u)' BY <2>1 DEF Dropped
  <2>6. DropInv' BY <1>2, <1>3, <2>2, <2>5 DEF DropInv, Free
  <2>7. Others(u) BY <1>2, <2>2 DEF Others, SameFor, Mode, Permit
  <2>8. Mode(u) = "parked" BY <1>6 DEF Mode
  <2>9. Mode(u)' = "going" BY <2>1 DEF Mode
  <2>10. Permit(u) BY <2>3, <2>4 DEF Permit, Free
  <2>11. ~Permit(u)' BY <1>2, <2>3, <2>5 DEF Permit, Free
  <2>12. Parking!Return(u) BY <2>7, <2>8, <2>9, <2>10, <2>11, ReturnView
  <2> QED BY <2>6, <2>12 DEF ParkStep, Parking!Next
<1> QED BY <1>5, <1>6

LEMMA DropTicketPark ==
  ASSUME NEW p \in Procs, IInv, DropInv, DropTicket(p) PROVE DropInv' /\ ParkStep
<1> USE DEF IInv, TypeOK
<1>1. PICK u \in Threads : u = cur[p] /\ pc[p] = "settle" /\ code[u] = "parked"
  BY DEF DropTicket, Go, HeldInv, PlaceInv, Holding
<1>2. /\ ticket[u] \in {0, 1} /\ ticket' = [ticket EXCEPT ![u] = @ - 1]
      /\ UNCHANGED <<code, enlisted, wpc, wthr>>
  BY <1>1 DEF DropTicket, wakeVars
<1>3. \A q \in Procs : q # p => cur'[q] = cur[q] /\ pc'[q] = pc[q]
  BY DEF DropTicket, Go
<1>4. cur'[p] \in {u, NoThread} /\ pc'[p] \notin {"back", "settle"}
  BY <1>1 DEF DropTicket, Go
<1>5. \A v \in Wakers, t \in Threads : Taken(v, t)' <=> Taken(v, t) BY <1>2 DEF Taken
<1>6. ~Dropped(u) BY <1>1 DEF Dropped
<1>7. Dropped(u)'
  <2>1. \A q \in Procs : cur[q] = u => q = p BY <1>1 DEF OnePlace
  <2> QED BY <1>1, <1>2, <1>3, <1>4, <2>1 DEF Dropped
<1>8. \A t \in Threads : t # u => ticket'[t] = ticket[t] /\ (Dropped(t)' <=> Dropped(t))
  BY <1>1, <1>2, <1>3, <1>4 DEF Dropped
<1>9. ticket'[u] = ticket[u] - 1 BY <1>2
<1>10. ticket'[u] = -1 \/ Free(u)'
  <2>0. TakenInv OBVIOUS
  <2> HIDE DEF IInv, TypeOK
  <2>1. ticket[u] = 1 => ~enlisted[u] /\ \A v \in Wakers : ~Taken(v, u) BY <2>0 DEF TakenInv
  <2> QED BY <1>2, <1>5, <1>9, <2>1 DEF Free
<1>11. DropInv' BY <1>2, <1>5, <1>8, <1>10 DEF DropInv, Free
<1> HIDE DEF IInv, TypeOK
<1>12. Permit(u)' <=> Permit(u) BY <1>2, <1>6, <1>7, <1>9 DEF Permit
<1>13. \A t \in Threads : SameFor(t) BY <1>2, <1>8, <1>12 DEF SameFor, Mode, Permit
<1> QED BY <1>11, <1>13, StutterView DEF ParkStep

\* Every step of the kernel is a step of ParkUnpark, or one it does not see.
LEMMA NextPark == IInv /\ DropInv /\ [Next]_vars => DropInv' /\ ParkStep
<1> SUFFICES ASSUME IInv, DropInv, [Next]_vars PROVE DropInv' /\ ParkStep
  OBVIOUS
<1>1. ASSUME NEW p \in Procs, ProcStep(p) PROVE DropInv' /\ ParkStep
  BY <1>1, RunThreadPark, ReschedulePark, ThreadFinishPark, SettlePark, DropTicketPark,
     PopLanePark, LoopPark DEF ProcStep
<1>2. ASSUME NEW p \in Procs, Interrupted(p) \/ Destroy(p) PROVE DropInv' /\ ParkStep
  BY <1>2, LoopPark
<1>3. ASSUME NEW t \in Threads, ThreadStep(t) PROVE DropInv' /\ ParkStep
  BY <1>3, EnlistPark, ParkPark, ForceYieldPark, ThrdLeavePark DEF ThreadStep
<1>4. ASSUME NEW w \in Wakers, WakerStep(w) PROVE DropInv' /\ ParkStep
  BY <1>4, MustUnparkPark, ScheduleThreadPark, PushPark, WakeOnePark DEF WakerStep
<1>5. ASSUME NEW w \in Wakers, NEW t \in Threads, Take(w, t) \/ ThrdStart(w, t)
      PROVE DropInv' /\ ParkStep
  BY <1>5, TakePark, ThrdStartPark
<1>6. CASE UNCHANGED vars
  <2> USE <1>6 DEF vars, thrdVars, wakeVars, procVars
  <2>1. \A v \in Wakers, t \in Threads : Taken(v, t)' => Taken(v, t) BY DEF Taken
  <2> QED BY <2>1, SameCode
<1> QED BY <1>1, <1>2, <1>3, <1>4, <1>5, <1>6 DEF Next

\* Park and unpark lose no wake and invent none, whatever the scheduler does:
\* the kernel implements the permits its clients rely on.
THEOREM ParkUnparkImplemented == Spec => ImplementsParkUnpark
<1>1. Init => IInv /\ Parking!Init /\ DropInv BY InitInv, ParkInit
<1>2. IInv /\ DropInv /\ [Next]_vars => IInv' /\ DropInv' /\ ParkStep
  BY NextInv, NextPark
<1>3. ParkStep => [Parking!Next]_ParkView BY DEF ParkStep
<1>4. Spec => Parking!Init /\ [][Parking!Next]_ParkView BY <1>1, <1>2, <1>3, PTL DEF Spec
<1> QED BY <1>4, PTL DEF ImplementsParkUnpark, Parking!Spec, ParkView, Mode, Permit
=============================================================================
