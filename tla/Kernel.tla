------------------------------- MODULE Kernel -------------------------------
(***************************************************************************)
(* The M:N scheduler of the Cforall runtime, concurrency/kernel.cfa: the   *)
(* main loop of a processor, the run loop of a user thread, park / unpark  *)
(* and its ticket, yields and preemptions, and the idle sleep of the       *)
(* processors of one cluster.                                              *)
(*                                                                         *)
(* A user thread moves between processors.  A processor runs kernel code   *)
(* (its program counter pc) until it switches to a thread (pc = "exec"),   *)
(* and the thread runs on it until it returns to the kernel (pc = "back"). *)
(* Everyone who makes a thread runnable is a waker: a thread that unparks  *)
(* or starts another one, a processor that reschedules a preempted thread  *)
(* or finishes a dead one, or a kernel thread outside the cluster.         *)
(*                                                                         *)
(* Left out: which lane of the ready queue a thread goes to and how old it *)
(* is (module ReadyQueue), the reader-writer lock around the queue (module *)
(* SchedRWLock: queue users are readers and do not exclude one another),   *)
(* io_uring, statistics.  The order of the idle list is left open: when a  *)
(* processor leaves it, any other idle processor may be the new first.     *)
(***************************************************************************)
EXTENDS Integers, FiniteSets

CONSTANTS
  Procs,        \* processors of the cluster
  Threads,      \* user threads
  External,     \* wakers that run outside the cluster
  Removable,    \* processors that may be destroyed
  MainThread,   \* the thread that exists at startup
  NoProc, NoThread

ASSUME KernelAssumption ==
  /\ Procs # {}               \* mainProcessor runs before anything else
  /\ Removable \subseteq Procs
  /\ MainThread \in Threads
  /\ NoProc \notin Procs
  /\ NoThread \notin Threads
  /\ Procs \cap Threads = {}
  /\ Procs \cap External = {}
  /\ Threads \cap External = {}

Wakers == Procs \cup Threads \cup External

\* The tickets of a thread.
TICKET_BLOCKED == -1
TICKET_RUNNING == 0
TICKET_UNBLOCK == 1
TICKET_DEAD    == 57005

VARIABLES
  state,      \* thread -> scheduling state
  ticket,     \* thread -> park/unpark balance
  preempted,  \* thread -> whether it was switched out by a yield
  code,       \* thread -> where its own code stands
  enlisted,   \* thread -> whether someone who will unpark it can find it
  readyQ,     \* threads in the ready queue
  wpc,        \* waker -> where it stands in unpark / schedule_thread$
  wthr,       \* waker -> the thread it is making runnable
  wfd,        \* waker -> the processor whose wait context it loaded
  pc,         \* processor -> where its main loop stands
  cur,        \* processor -> the thread it holds
  idles,      \* processors in the idle list
  fdw,        \* wait context of the first idle processor
  sem,        \* processor -> idle_wctx.sem: 0, 1 or its event descriptor
  evfd,       \* processor -> whether its eventfd is readable
  dying       \* processor -> how far its destructor went

thrdVars == <<state, ticket, preempted, code, enlisted>>
wakeVars == <<wpc, wthr, wfd>>
procVars == <<pc, cur>>
idleVars == <<idles, fdw, sem, evfd>>
vars == <<thrdVars, readyQ, wakeVars, procVars, idleVars, dying>>

States == {"Start", "Ready", "Active", "Blocked", "Halting", "Halted"}
Tickets == {TICKET_BLOCKED, TICKET_RUNNING, TICKET_UNBLOCK, TICKET_DEAD}
FD == 2   \* stands for the descriptor a sleeping processor leaves in sem

TypeOK ==
  /\ state \in [Threads -> States]
  /\ ticket \in [Threads -> Tickets]
  /\ preempted \in [Threads -> BOOLEAN]
  /\ code \in [Threads -> {"new", "user", "parking", "parked", "left"}]
  /\ enlisted \in [Threads -> BOOLEAN]
  /\ readyQ \in SUBSET Threads
  /\ wpc \in [Wakers -> {"idle", "unpark", "sched", "push", "wake", "xchg", "write"}]
  /\ wthr \in [Wakers -> Threads \cup {NoThread}]
  /\ wfd \in [Wakers -> Procs \cup {NoProc}]
  /\ pc \in [Procs -> {"next", "lane", "reset", "mark", "search", "slane", "cancel",
                       "sleep", "asleep", "awake", "run", "rerun", "exec", "back",
                       "settle", "resched", "finish", "after", "dead"}]
  /\ cur \in [Procs -> Threads \cup {NoThread}]
  /\ idles \in SUBSET Procs
  /\ fdw \in Procs \cup {NoProc}
  /\ sem \in [Procs -> {0, 1, FD}]
  /\ evfd \in [Procs -> BOOLEAN]
  /\ dying \in [Procs -> {"no", "flagged", "posted", "woken"}]

Init ==
  /\ state = [t \in Threads |-> IF t = MainThread THEN "Ready" ELSE "Start"]
  /\ ticket = [t \in Threads |-> TICKET_RUNNING]
  /\ preempted = [t \in Threads |-> FALSE]
  /\ code = [t \in Threads |-> IF t = MainThread THEN "user" ELSE "new"]
  /\ enlisted = [t \in Threads |-> FALSE]
  /\ readyQ = {MainThread}
  /\ wpc = [w \in Wakers |-> "idle"]
  /\ wthr = [w \in Wakers |-> NoThread]
  /\ wfd = [w \in Wakers |-> NoProc]
  /\ pc = [p \in Procs |-> "next"]
  /\ cur = [p \in Procs |-> NoThread]
  /\ idles = {}
  /\ fdw = NoProc
  /\ sem = [p \in Procs |-> 0]
  /\ evfd = [p \in Procs |-> FALSE]
  /\ dying = [p \in Procs |-> "no"]

DoTerminate(p) == dying[p] # "no"

Go(p, from, to) == pc[p] = from /\ pc' = [pc EXCEPT ![p] = to]

OnCpu(t) == \E p \in Procs : pc[p] = "exec" /\ cur[p] = t
-----------------------------------------------------------------------------
(***************************************************************************)
(* Making a thread runnable: unpark, schedule_thread$ and __wake_one.      *)
(***************************************************************************)
\* A thread's own code (not blocked, not being woken) runs on a processor.
UserCode(t) == OnCpu(t) /\ code[t] \in {"user", "parking"}

\* A waker makes a step where its code runs.
CanStep(w) ==
  \/ w \in External
  \/ w \in Threads /\ UserCode(w)
  \/ w \in Procs /\ pc[w] \in {"resched", "finish"}

\* With interrupts disabled a thread cannot be switched out.
InterruptsEnabled(t) == wpc[t] \in {"idle", "unpark", "sched"}

WStep(w, from, to) == CanStep(w) /\ wpc[w] = from /\ wpc' = [wpc EXCEPT ![w] = to]

\* A client that found an enlisted thread removes it from the list, which
\* gives it the right to unpark it once.
Take(w, t) ==
  /\ w \notin Procs
  /\ enlisted[t]
  /\ WStep(w, "idle", "unpark")
  /\ enlisted' = [enlisted EXCEPT ![t] = FALSE]
  /\ wthr' = [wthr EXCEPT ![w] = t]
  /\ UNCHANGED <<state, ticket, preempted, code, readyQ, wfd, procVars, idleVars, dying>>

\* __thrd_start: a new thread is scheduled without using its ticket.
ThrdStart(w, t) ==
  /\ w \in Threads
  /\ code[t] = "new"
  /\ WStep(w, "idle", "sched")
  /\ code' = [code EXCEPT ![t] = "user"]
  /\ wthr' = [wthr EXCEPT ![w] = t]
  /\ UNCHANGED <<state, ticket, preempted, enlisted, readyQ, wfd, procVars, idleVars, dying>>

\* __must_unpark: only whoever finds the thread blocked schedules it; a
\* running thread will see the ticket when it tries to block.
MustUnpark(w) ==
  LET t == wthr[w] IN
  /\ WStep(w, "unpark", IF ticket[t] = TICKET_BLOCKED THEN "sched" ELSE "idle")
  /\ ticket[t] \in {TICKET_RUNNING, TICKET_BLOCKED}    \* else abort
  /\ ticket' = [ticket EXCEPT ![t] = @ + 1]
  /\ wthr' = IF ticket[t] = TICKET_BLOCKED THEN wthr ELSE [wthr EXCEPT ![w] = NoThread]
  /\ UNCHANGED <<state, preempted, code, enlisted, readyQ, wfd, procVars, idleVars, dying>>

\* __schedule_thread up to the lane lock of push.
ScheduleThread(w) ==
  LET t == wthr[w] IN
  /\ WStep(w, "sched", "push")
  /\ state' = IF preempted[t] THEN state ELSE [state EXCEPT ![t] = "Ready"]
  /\ UNCHANGED <<ticket, preempted, code, enlisted, readyQ, wthr, wfd, procVars, idleVars, dying>>

Push(w) ==
  /\ WStep(w, "push", "wake")
  /\ readyQ' = readyQ \cup {wthr[w]}
  /\ wthr' = [wthr EXCEPT ![w] = NoThread]
  /\ UNCHANGED <<thrdVars, wfd, procVars, idleVars, dying>>

\* __wake_one, read by read: the head of the idle list, then its semaphore,
\* then the descriptor to write to if the processor already sleeps on it.
WakeOneLoad(w) ==
  /\ WStep(w, "wake", IF fdw = NoProc THEN "idle" ELSE "xchg")
  /\ wfd' = [wfd EXCEPT ![w] = fdw]
  /\ UNCHANGED <<thrdVars, readyQ, wthr, procVars, idleVars, dying>>

WakeOneExchange(w) ==
  LET p == wfd[w] IN
  /\ WStep(w, "xchg", IF sem[p] = FD THEN "write" ELSE "idle")
  /\ sem' = [sem EXCEPT ![p] = 1]
  /\ wfd' = IF sem[p] = FD THEN wfd ELSE [wfd EXCEPT ![w] = NoProc]
  /\ UNCHANGED <<thrdVars, readyQ, wthr, procVars, idles, fdw, evfd, dying>>

WakeOneWrite(w) ==
  /\ WStep(w, "write", "idle")
  /\ evfd' = [evfd EXCEPT ![wfd[w]] = TRUE]
  /\ wfd' = [wfd EXCEPT ![w] = NoProc]
  /\ UNCHANGED <<thrdVars, readyQ, wthr, procVars, idles, fdw, sem, dying>>

WakerStep(w) ==
  \/ MustUnpark(w) \/ ScheduleThread(w) \/ Push(w)
  \/ WakeOneLoad(w) \/ WakeOneExchange(w) \/ WakeOneWrite(w)
-----------------------------------------------------------------------------
(***************************************************************************)
(* What a running thread does to its own scheduling.                       *)
(***************************************************************************)
\* A client makes itself known to whoever will wake it, before it parks.
Enlist(t) ==
  /\ OnCpu(t) /\ code[t] = "user" /\ wpc[t] = "idle"
  /\ code' = [code EXCEPT ![t] = "parking"]
  /\ enlisted' = [enlisted EXCEPT ![t] = TRUE]
  /\ UNCHANGED <<state, ticket, preempted, readyQ, wakeVars, procVars, idleVars, dying>>

ReturnToKernel(t) ==
  \E p \in Procs : cur[p] = t /\ Go(p, "exec", "back")

Park(t) ==
  /\ ReturnToKernel(t)
  /\ code[t] = "parking" /\ wpc[t] = "idle"
  /\ code' = [code EXCEPT ![t] = "parked"]
  /\ UNCHANGED <<state, ticket, preempted, enlisted, readyQ, wakeVars, cur, idleVars, dying>>

\* force_yield, called by yield, by the signal handler and when interrupts
\* are enabled again.
ForceYield(t) ==
  /\ ReturnToKernel(t)
  /\ InterruptsEnabled(t)
  /\ t \notin readyQ          \* rdy_link.next == 0p
  /\ preempted' = [preempted EXCEPT ![t] = TRUE]
  /\ UNCHANGED <<state, ticket, code, enlisted, readyQ, wakeVars, cur, idleVars, dying>>

\* __cfactx_thrd_leave: the last routine of a thread.
ThrdLeave(t) ==
  /\ ReturnToKernel(t)
  /\ code[t] = "user" /\ wpc[t] = "idle"
  /\ ticket[t] = TICKET_RUNNING     \* else abort
  /\ code' = [code EXCEPT ![t] = "left"]
  /\ state' = [state EXCEPT ![t] = "Halting"]
  /\ ticket' = [ticket EXCEPT ![t] = TICKET_DEAD]
  /\ UNCHANGED <<preempted, enlisted, readyQ, wakeVars, cur, idleVars, dying>>
-----------------------------------------------------------------------------
(***************************************************************************)
(* The run loop of a processor, __run_thread.                              *)
(***************************************************************************)
\* Switch to the thread.  A thread that had parked returns from park().
RunThread(p) ==
  LET t == cur[p] IN
  /\ pc[p] \in {"run", "rerun"}
  /\ pc' = [pc EXCEPT ![p] = "exec"]
  /\ preempted' = [preempted EXCEPT ![t] = FALSE]
  /\ state' = [state EXCEPT ![t] = "Active"]
  /\ code' = IF code[t] = "parked" THEN [code EXCEPT ![t] = "user"] ELSE code
  /\ UNCHANGED <<ticket, enlisted, readyQ, wakeVars, cur, idleVars, dying>>

\* The thread was preempted: this processor hands it to schedule_thread$.
Reschedule(p) ==
  /\ Go(p, "back", "resched")
  /\ preempted[cur[p]]
  /\ wpc' = [wpc EXCEPT ![p] = "sched"]
  /\ wthr' = [wthr EXCEPT ![p] = cur[p]]
  /\ cur' = [cur EXCEPT ![p] = NoThread]
  /\ UNCHANGED <<thrdVars, readyQ, wfd, idleVars, dying>>

\* The thread has halted: __thread_finish gives its monitor to the next
\* thread waiting for it, if there is one.
ThreadFinish(p) ==
  LET t == cur[p] IN
  /\ Go(p, "back", "finish")
  /\ ~preempted[t] /\ state[t] = "Halting"
  /\ state' = [state EXCEPT ![t] = "Halted"]
  /\ cur' = [cur EXCEPT ![p] = NoThread]
  /\ \/ UNCHANGED <<enlisted, wpc, wthr>>
     \/ \E n \in Threads :
          /\ enlisted[n]
          /\ enlisted' = [enlisted EXCEPT ![n] = FALSE]
          /\ wpc' = [wpc EXCEPT ![p] = "unpark"]
          /\ wthr' = [wthr EXCEPT ![p] = n]
  /\ UNCHANGED <<ticket, preempted, code, readyQ, wfd, idleVars, dying>>

\* The thread wants to block.
Settle(p) ==
  LET t == cur[p] IN
  /\ Go(p, "back", "settle")
  /\ ~preempted[t] /\ state[t] # "Halting"
  /\ state' = [state EXCEPT ![t] = "Blocked"]
  /\ UNCHANGED <<ticket, preempted, code, enlisted, readyQ, wakeVars, cur, idleVars, dying>>

\* Mutant: a wake that raced with the block is forgotten.
DropTicketForgets(p) ==
  LET t == cur[p] IN
  /\ Go(p, "settle", "after")
  /\ ticket[t] \in {TICKET_RUNNING, TICKET_UNBLOCK}
  /\ ticket' = [ticket EXCEPT ![t] = @ - 1]
  /\ cur' = [cur EXCEPT ![p] = NoThread]
  /\ UNCHANGED <<state, preempted, code, enlisted, readyQ, wakeVars, idleVars, dying>>

\* Mutant: the thread is run again without giving its ticket back.
DropTicketKeeps(p) ==
  LET t == cur[p] IN
  /\ Go(p, "settle", IF ticket[t] = TICKET_UNBLOCK THEN "rerun" ELSE "after")
  /\ ticket[t] \in {TICKET_RUNNING, TICKET_UNBLOCK}
  /\ ticket' = IF ticket[t] = TICKET_UNBLOCK THEN ticket ELSE [ticket EXCEPT ![t] = @ - 1]
  /\ cur' = IF ticket[t] = TICKET_UNBLOCK THEN cur ELSE [cur EXCEPT ![p] = NoThread]
  /\ UNCHANGED <<state, preempted, code, enlisted, readyQ, wakeVars, idleVars, dying>>

\* The race with unpark is decided by the ticket: either nobody has woken
\* the thread yet and it is left alone, or it is run again.
DropTicket(p) ==
  LET t == cur[p] IN
  /\ Go(p, "settle", IF ticket[t] = TICKET_UNBLOCK THEN "rerun" ELSE "after")
  /\ ticket[t] \in {TICKET_RUNNING, TICKET_UNBLOCK}    \* else abort
  /\ ticket' = [ticket EXCEPT ![t] = @ - 1]
  /\ cur' = IF ticket[t] = TICKET_UNBLOCK THEN cur ELSE [cur EXCEPT ![p] = NoThread]
  /\ UNCHANGED <<state, preempted, code, enlisted, readyQ, wakeVars, idleVars, dying>>

\* schedule_thread$ or __thread_finish returned.
FinishRun(p) ==
  /\ pc[p] \in {"resched", "finish"} /\ wpc[p] = "idle"
  /\ pc' = [pc EXCEPT ![p] = "after"]
  /\ UNCHANGED <<thrdVars, readyQ, wakeVars, cur, idleVars, dying>>

\* Back in the main loop after a thread ran.
AfterRun(p) ==
  /\ Go(p, "after", IF DoTerminate(p) THEN "dead" ELSE "next")
  /\ UNCHANGED <<thrdVars, readyQ, wakeVars, cur, idleVars, dying>>
-----------------------------------------------------------------------------
(***************************************************************************)
(* The main loop of a processor: looking for work, and going to sleep.     *)
(***************************************************************************)
\* Someone else is inside a lane, which makes a concurrent try_pop fail.
LaneBusy(p) ==
  \/ \E q \in Procs \ {p} : pc[q] \in {"lane", "slane"}
  \/ \E w \in Wakers : wpc[w] = "push"

\* try_pop found a lane that is neither empty nor locked, and locked it.
EnterLane(p) ==
  /\ readyQ # {}
  /\ \/ Go(p, "next", "lane") \/ Go(p, "search", "slane")
  /\ UNCHANGED <<thrdVars, readyQ, wakeVars, cur, idleVars, dying>>

\* try_pop with the lane lock.  The other attempts of the same round, of
\* which there are finitely many, are those that found nothing to lock.
PopLane(p) ==
  /\ \/ \E t \in readyQ :
          /\ readyQ' = readyQ \ {t}
          /\ cur' = [cur EXCEPT ![p] = t]
          /\ Go(p, "lane", "run") \/ Go(p, "slane", "cancel")
     \/ /\ readyQ = {}
        /\ UNCHANGED <<readyQ, cur>>
        /\ Go(p, "lane", "next") \/ Go(p, "slane", "sleep")
  /\ UNCHANGED <<thrdVars, wakeVars, idleVars, dying>>

\* pop_fast and pop_slow may return 0p spuriously, so a processor may come to
\* this at any time: if it is to end it does not go to sleep.
CheckTerminate(p) ==
  /\ Go(p, "next", IF DoTerminate(p) THEN "dead" ELSE "reset")
  /\ UNCHANGED <<thrdVars, readyQ, wakeVars, cur, idleVars, dying>>

\* mark_idle first lowers the semaphore, without a lock: a post that came
\* between the check and this store is erased.
ResetSem(p) ==
  /\ Go(p, "reset", "mark")
  /\ sem' = [sem EXCEPT ![p] = 0]
  /\ UNCHANGED <<thrdVars, readyQ, wakeVars, cur, idles, fdw, evfd, dying>>

\* The rest of mark_idle.  The try_lock can only fail when another processor
\* holds the lock of the processor list.
MarkIdle(p) ==
  /\ \/ /\ Go(p, "mark", "search")
        /\ idles' = idles \cup {p}
        /\ fdw' = p
     \/ /\ \E q \in Procs \ {p} : pc[q] \in {"mark", "cancel", "awake"}
        /\ Go(p, "mark", "next")
        /\ UNCHANGED <<idles, fdw>>
  /\ UNCHANGED <<thrdVars, readyQ, wakeVars, cur, sem, evfd, dying>>

\* pop_search tried every lane and found none it could pop from.
MissSearch(p) ==
  /\ readyQ = {} \/ LaneBusy(p)
  /\ Go(p, "search", "sleep")
  /\ UNCHANGED <<thrdVars, readyQ, wakeVars, cur, idleVars, dying>>

\* Mutant: a store instead of a compare-and-swap.
IdleSleepStores(p) ==
  /\ Go(p, "sleep", "asleep")
  /\ sem' = [sem EXCEPT ![p] = FD]
  /\ UNCHANGED <<thrdVars, readyQ, wakeVars, cur, idles, fdw, evfd, dying>>

\* idle_sleep: the compare-and-swap fails only if someone already set sem.
IdleSleep(p) ==
  /\ Go(p, "sleep", IF sem[p] = 1 THEN "awake" ELSE "asleep")
  /\ sem' = IF sem[p] = 1 THEN sem ELSE [sem EXCEPT ![p] = FD]
  /\ UNCHANGED <<thrdVars, readyQ, wakeVars, cur, idles, fdw, evfd, dying>>

\* The read of the eventfd returns.
ReadEventfd(p) ==
  /\ evfd[p]
  /\ Go(p, "asleep", "awake")
  /\ evfd' = [evfd EXCEPT ![p] = FALSE]
  /\ UNCHANGED <<thrdVars, readyQ, wakeVars, cur, idles, fdw, sem, dying>>

\* The read is interrupted by a signal (EINTR).
Interrupted(p) ==
  /\ Go(p, "asleep", "awake")
  /\ UNCHANGED <<thrdVars, readyQ, wakeVars, cur, idleVars, dying>>

\* Mutant: the head pointer is not refreshed.
MarkAwakeStale(p) ==
  /\ Go(p, "awake", "next") \/ Go(p, "cancel", "run")
  /\ idles' = idles \ {p}
  /\ UNCHANGED <<thrdVars, readyQ, wakeVars, cur, fdw, sem, evfd, dying>>

MarkAwake(p) ==
  /\ Go(p, "awake", "next") \/ Go(p, "cancel", "run")
  /\ idles' = idles \ {p}
  /\ IF idles' = {} THEN fdw' = NoProc ELSE fdw' \in idles'
  /\ UNCHANGED <<thrdVars, readyQ, wakeVars, cur, sem, evfd, dying>>

\* Mutant: the destructor wakes as __wake_one does, writing to the eventfd
\* only if it found the processor asleep.
DestroyWakesOne(p) ==
  /\ p \in Removable
  /\ \/ dying[p] = "no" /\ dying' = [dying EXCEPT ![p] = "flagged"] /\ UNCHANGED <<sem, evfd>>
     \/ /\ dying[p] = "flagged" /\ dying' = [dying EXCEPT ![p] = "woken"]
        /\ sem' = [sem EXCEPT ![p] = 1]
        /\ evfd' = [evfd EXCEPT ![p] = @ \/ sem[p] = FD]
  /\ UNCHANGED <<thrdVars, readyQ, wakeVars, procVars, idles, fdw>>

\* The destructor of a processor: do_terminate, then __wake_proc, which
\* posts sem and writes to the eventfd whether or not anyone sleeps on it.
\* The processor may read the flag before it is set and reset sem after it
\* is posted: then only the write keeps it from sleeping for ever.
Destroy(p) ==
  /\ p \in Removable
  /\ \/ /\ dying[p] = "no" /\ dying' = [dying EXCEPT ![p] = "flagged"]
        /\ UNCHANGED <<sem, evfd>>
     \/ /\ dying[p] = "flagged" /\ dying' = [dying EXCEPT ![p] = "posted"]
        /\ sem' = [sem EXCEPT ![p] = 1]
        /\ UNCHANGED evfd
     \/ /\ dying[p] = "posted" /\ dying' = [dying EXCEPT ![p] = "woken"]
        /\ evfd' = [evfd EXCEPT ![p] = TRUE]
        /\ UNCHANGED sem
  /\ UNCHANGED <<thrdVars, readyQ, wakeVars, procVars, idles, fdw>>

ProcStep(p) ==
  \/ RunThread(p) \/ Reschedule(p) \/ ThreadFinish(p) \/ Settle(p) \/ DropTicket(p)
  \/ FinishRun(p) \/ AfterRun(p)
  \/ EnterLane(p) \/ PopLane(p)
  \/ CheckTerminate(p) \/ ResetSem(p) \/ MarkIdle(p)
  \/ MissSearch(p) \/ IdleSleep(p) \/ ReadEventfd(p) \/ MarkAwake(p)

ThreadStep(t) == Enlist(t) \/ Park(t) \/ ForceYield(t) \/ ThrdLeave(t)

Next ==
  \/ \E p \in Procs : ProcStep(p) \/ Interrupted(p) \/ Destroy(p)
  \/ \E t \in Threads : ThreadStep(t)
  \/ \E w \in Wakers : WakerStep(w) \/ \E t \in Threads : Take(w, t) \/ ThrdStart(w, t)

Spec == Init /\ [][Next]_vars
-----------------------------------------------------------------------------
(***************************************************************************)
(* Properties.                                                             *)
(***************************************************************************)
Scheduling(w) == wpc[w] \in {"sched", "push"}

\* A runnable thread is in one place only: held by one processor, in the
\* hands of one waker, or once in the ready queue.  This is what the code
\* asserts when it exchanges thrd->executing and when it checks that
\* rdy_link.next is null before it links the thread into a lane.
OnePlace ==
  \A t \in Threads :
    /\ \A p, q \in Procs : cur[p] = t /\ cur[q] = t => p = q
    /\ \A v, w \in Wakers :
         Scheduling(v) /\ Scheduling(w) /\ wthr[v] = t /\ wthr[w] = t => v = w
    /\ t \in readyQ =>
         /\ \A p \in Procs : cur[p] # t
         /\ \A w \in Wakers : Scheduling(w) => wthr[w] # t
    /\ \A p \in Procs, w \in Wakers : cur[p] = t /\ Scheduling(w) => wthr[w] # t

\* If every client unparks a thread exactly once per park, none of the three
\* aborts on the ticket can happen: not the one of __must_unpark, not the
\* one of __run_thread, not "Thread terminated with pending unpark".
TicketsMatch ==
  /\ \A w \in Wakers : wpc[w] = "unpark" =>
       /\ ticket[wthr[w]] \in {TICKET_RUNNING, TICKET_BLOCKED}
       /\ ticket[wthr[w]] = TICKET_BLOCKED =>
            state[wthr[w]] = "Blocked" /\ ~preempted[wthr[w]]
  /\ \A p \in Procs : pc[p] = "settle" =>
       ticket[cur[p]] \in {TICKET_RUNNING, TICKET_UNBLOCK}
  /\ \A t \in Threads : code[t] = "user" => ticket[t] = TICKET_RUNNING

\* The state a thread is found in by __schedule_thread and __run_thread is
\* one their assertions allow, however yields, parks and wakes interleave.
StatesAgree ==
  /\ \A w \in Wakers : wpc[w] = "sched" =>
       LET t == wthr[w] IN
       /\ state[t] \notin {"Halted", "Halting"}
       /\ preempted[t] <=> state[t] = "Active"
  /\ \A p \in Procs :
       /\ pc[p] = "run" => state[cur[p]] = "Ready" \/ preempted[cur[p]]
       /\ pc[p] = "rerun" => state[cur[p]] = "Blocked"
       /\ pc[p] = "exec" => state[cur[p]] = "Active" /\ ~preempted[cur[p]]

\* park() returns only after an unpark meant for it: no spurious return.
ParkReturnsUnparked ==
  [][\A t \in Threads : code[t] = "parked" /\ code'[t] = "user" =>
       /\ ~enlisted[t]
       /\ \A w \in Wakers : ~(wpc[w] = "unpark" /\ wthr[w] = t)]_vars

\* The head pointer that wakers read without a lock designates an idle
\* processor whenever there is one, and a processor is in the idle list
\* exactly between mark_idle and mark_awake.
IdleListExact ==
  /\ idles = {p \in Procs : pc[p] \in {"search", "slane", "cancel", "sleep", "asleep", "awake"}}
  /\ IF idles = {} THEN fdw = NoProc ELSE fdw \in idles

\* No runnable thread is stranded: while the ready queue holds a thread,
\* some processor is awake or is being woken, or some waker has not finished
\* __wake_one.  (It is promised until a processor is destroyed: one that
\* is about to terminate may swallow a wake.)  Nor is a processor whose
\* destructor waits for its end: it does not sleep without being woken.
Roused(p) ==
  \/ pc[p] \notin {"asleep", "dead"}
  \/ evfd[p]
  \/ \E w \in Wakers : wpc[w] = "write" /\ wfd[w] = p

NobodyStranded ==
  /\ readyQ # {} /\ (\A p \in Procs : ~DoTerminate(p)) =>
       \/ \E p \in Procs : Roused(p)
       \/ \E w \in Wakers : wpc[w] \in {"push", "wake", "xchg"}
  /\ \A p \in Procs : dying[p] = "woken" /\ pc[p] = "asleep" => Roused(p)

\* Fairness.  Processors are kernel threads the operating system schedules.
\* Lanes are picked at random, so a processor that keeps looking at the
\* ready queue ends up picking a non-empty one: strong fairness of EnterLane.
\* A lane is first-in first-out and a lane that grows old is helped by other
\* processors, so no thread is overtaken for ever: strong fairness of popping it.
\* A thread is switched out by periodic preemption, which is only postponed
\* while interrupts are disabled, and it resumes where it stopped: strong
\* fairness of ForceYield, of a park it is committed to and of its wakes.
PopThread(t) == \E p \in Procs : PopLane(p) /\ t \in readyQ \ readyQ'

Fairness ==
  /\ \A p \in Procs : WF_vars(ProcStep(p)) /\ SF_vars(EnterLane(p))
  /\ \A t \in Threads : SF_vars(PopThread(t)) /\ SF_vars(ForceYield(t)) /\ SF_vars(Park(t))
  /\ \A w \in Wakers : SF_vars(WakerStep(w))

FairSpec == Spec /\ Fairness

\* A thread in the ready queue is run: it does not stay there for ever.
ReadyRuns == \A t \in Threads : t \in readyQ ~> OnCpu(t)
-----------------------------------------------------------------------------
(***************************************************************************)
(* The kernel implements ParkUnpark.  A thread has dropped its ticket once *)
(* the processor that switched out of it has finished with it.             *)
(***************************************************************************)
Dropped(t) ==
  code[t] = "parked" /\ ~\E p \in Procs : cur[p] = t /\ pc[p] \in {"back", "settle"}

Parking == INSTANCE ParkUnpark WITH
  mode <- [t \in Threads |->
             CASE code[t] = "left" -> "gone" [] code[t] = "parked" -> "parked" [] OTHER -> "going"],
  permit <- [t \in Threads |->
             ticket[t] = IF Dropped(t) THEN TICKET_RUNNING ELSE TICKET_UNBLOCK]

\* Every behaviour of the scheduler, lost races and preemptions included, is
\* one of the permits: no wake is lost, none is invented.
ImplementsParkUnpark == Parking!Spec

\* ... and park does return once it has its permit.
FairlyImplementsParkUnpark == Parking!FairSpec
=============================================================================
