------------------------------- MODULE CondVar -------------------------------
(***************************************************************************)
(* The blocking lock with its waiters, and the condition variable that     *)
(* releases and reacquires it: concurrency/locks.cfa, blocking_lock (as    *)
(* the recursive owner_lock) and condition_variable, with timeouts.        *)
(*                                                                         *)
(* The lock is handed over: unlock makes the first waiter the owner and    *)
(* wakes it.  A wait enqueues the thread, releases the lock, and parks;    *)
(* notify takes a thread out of the queue and, instead of waking it, moves *)
(* it to the queue of the lock if the lock is held.  The timeout of a wait *)
(* does the same from the preemption thread, the Alarm here.               *)
(*                                                                         *)
(* A critical section under a spin lock is one step.  notify holds the     *)
(* spin lock of the condition variable while it goes through the lock's    *)
(* on_notify, which is a step of its own.  park and unpark are those of    *)
(* module ParkUnpark.  Left out: waituntil on a lock, and the shadow info. *)
(***************************************************************************)
EXTENDS Integers, SequencesExt

CONSTANTS
  Threads,
  Alarm,           \* the preemption thread, which runs the timeouts
  None,
  MaxDepth,        \* bound: how often a client locks recursively
  NotifyUnlocked   \* whether clients notify without holding the lock

ASSUME CondVarAssumption ==
  /\ Alarm \notin Threads /\ None \notin Threads /\ None # Alarm
  /\ MaxDepth \in Nat \ {0}
  /\ NotifyUnlocked \in BOOLEAN

Notifiers == Threads \cup {Alarm}

VARIABLES
  owner, recursion_count, blocked_threads, wait_count,   \* the lock
  waiters, count,    \* the condition variable: its queue and its counter
  pc,                \* thread -> where it stands in lock or wait
  depth,             \* thread -> how often its client holds the lock
  withLock, timed,   \* thread -> the arguments of its wait
  recursion,         \* thread -> the recursion count that on_wait returned
  link_node,         \* thread -> its node for the queue of the lock
  signalled,         \* thread -> info_thread.signalled
  permit,            \* thread -> whether it was unparked and has not parked since
  alarms,            \* threads whose timeout is registered
  firing,            \* the thread whose timeout is running
  popped, all        \* notifier -> the thread it took out, and whether it
                     \* takes them all; it holds the spin lock meanwhile

lockVars == <<owner, recursion_count, blocked_threads, wait_count>>
condVars == <<waiters, count>>
waitVars == <<withLock, timed, recursion, signalled>>
alarmVars == <<alarms, firing>>
notifyVars == <<popped, all>>
vars == <<lockVars, condVars, pc, depth, waitVars, link_node, permit, alarmVars, notifyVars>>

TypeOK ==
  /\ owner \in Threads \cup {None}
  /\ recursion_count \in 0 .. MaxDepth
  /\ blocked_threads \in Seq(Threads) /\ waiters \in Seq(Threads)
  /\ wait_count \in Nat /\ count \in Nat
  /\ pc \in [Threads -> {"run", "blocked", "queued", "register", "parked", "woken", "wakeup"}]
  /\ depth \in [Threads -> 0 .. MaxDepth]
  /\ withLock \in [Threads -> BOOLEAN] /\ timed \in [Threads -> BOOLEAN]
  /\ recursion \in [Threads -> 0 .. MaxDepth]
  /\ link_node \in [Threads -> {"null", "live", "dangling"}]
  /\ signalled \in [Threads -> BOOLEAN]
  /\ permit \in [Threads -> BOOLEAN]
  /\ alarms \in SUBSET Threads
  /\ firing \in Threads \cup {None}
  /\ popped \in [Notifiers -> Threads \cup {None}]
  /\ all \in [Notifiers -> BOOLEAN]

Init ==
  /\ owner = None /\ recursion_count = 0
  /\ blocked_threads = <<>> /\ wait_count = 0
  /\ waiters = <<>> /\ count = 0
  /\ pc = [t \in Threads |-> "run"]
  /\ depth = [t \in Threads |-> 0]
  /\ withLock = [t \in Threads |-> FALSE] /\ timed = [t \in Threads |-> FALSE]
  /\ recursion = [t \in Threads |-> 0]
  /\ link_node = [t \in Threads |-> "null"]
  /\ signalled = [t \in Threads |-> FALSE]
  /\ permit = [t \in Threads |-> FALSE]
  /\ alarms = {} /\ firing = None
  /\ popped = [n \in Notifiers |-> None]
  /\ all = [n \in Notifiers |-> FALSE]

Go(t, from, to) == pc[t] = from /\ pc' = [pc EXCEPT ![t] = to]

\* The client's own code runs: it is neither blocked nor inside notify.
Running(t) == pc[t] = "run" /\ popped[t] = None

\* The spin lock of the condition variable is free.
CondFree == \A n \in Notifiers : popped[n] = None
-----------------------------------------------------------------------------
(***************************************************************************)
(* The lock.                                                               *)
(***************************************************************************)
\* lock and try_lock when nobody else is the owner.
Acquire(t) ==
  /\ Running(t)
  /\ owner \in {None, t}
  /\ depth[t] < MaxDepth
  /\ owner' = t
  /\ recursion_count' = IF owner = None THEN 1 ELSE recursion_count + 1
  /\ depth' = [depth EXCEPT ![t] = @ + 1]
  /\ UNCHANGED <<blocked_threads, wait_count, condVars, pc, waitVars, link_node, permit, alarmVars, notifyVars>>

LockBlocks(t) ==
  /\ Running(t)
  /\ owner \notin {None, t}
  /\ blocked_threads' = Append(blocked_threads, t)
  /\ wait_count' = wait_count + 1
  /\ pc' = [pc EXCEPT ![t] = "blocked"]
  /\ UNCHANGED <<owner, recursion_count, condVars, depth, waitVars, link_node, permit, alarmVars, notifyVars>>

\* park returns: the thread that unlocked made this one the owner.
LockReturns(t) ==
  /\ permit[t]
  /\ Go(t, "blocked", "run")
  /\ permit' = [permit EXCEPT ![t] = FALSE]
  /\ depth' = [depth EXCEPT ![t] = 1]
  /\ UNCHANGED <<lockVars, condVars, waitVars, link_node, alarmVars, notifyVars>>

\* pop_node: hand the lock over to the first waiter, or free it.
PopNode ==
  IF blocked_threads = <<>>
  THEN /\ owner' = None /\ recursion_count' = 0
       /\ UNCHANGED <<blocked_threads, wait_count, permit>>
  ELSE /\ owner' = Head(blocked_threads) /\ recursion_count' = 1
       /\ blocked_threads' = Tail(blocked_threads)
       /\ wait_count' = wait_count - 1
       /\ permit' = [permit EXCEPT ![owner'] = TRUE]

Unlock(t) ==
  /\ Running(t)
  /\ depth[t] > 0
  /\ IF recursion_count = 1 THEN PopNode
     ELSE /\ recursion_count' = recursion_count - 1
          /\ UNCHANGED <<owner, blocked_threads, wait_count, permit>>
  /\ depth' = [depth EXCEPT ![t] = @ - 1]
  /\ UNCHANGED <<condVars, pc, waitVars, link_node, alarmVars, notifyVars>>
-----------------------------------------------------------------------------
(***************************************************************************)
(* wait: with or without the lock, with or without a timeout.              *)
(***************************************************************************)
\* Mutant: the alarm is registered here, before the lock is released.
EnqueueRegisters(t) ==
  /\ Running(t) /\ CondFree /\ firing = None
  /\ \E useLock, useTime \in BOOLEAN :
       /\ useLock => depth[t] > 0
       /\ withLock' = [withLock EXCEPT ![t] = useLock]
       /\ timed' = [timed EXCEPT ![t] = useTime]
       /\ alarms' = IF useTime THEN alarms \cup {t} ELSE alarms
       /\ pc' = [pc EXCEPT ![t] = IF useLock THEN "queued" ELSE IF useTime THEN "register" ELSE "parked"]
  /\ waiters' = Append(waiters, t)
  /\ count' = count + 1
  /\ UNCHANGED <<lockVars, depth, recursion, signalled, link_node, permit, firing, notifyVars>>

Enqueue(t) ==
  /\ Running(t) /\ CondFree
  /\ \E useLock, useTime \in BOOLEAN :
       /\ useLock => depth[t] > 0
       /\ withLock' = [withLock EXCEPT ![t] = useLock]
       /\ timed' = [timed EXCEPT ![t] = useTime]
       /\ pc' = [pc EXCEPT ![t] = IF useLock THEN "queued" ELSE IF useTime THEN "register" ELSE "parked"]
  /\ waiters' = Append(waiters, t)
  /\ count' = count + 1
  /\ UNCHANGED <<lockVars, depth, recursion, signalled, link_node, permit, alarmVars, notifyVars>>

\* on_wait, up to pre_park_then_park: release the lock, whatever its depth.
OnWait(t) ==
  /\ Go(t, "queued", IF timed[t] THEN "register" ELSE "parked")
  /\ recursion' = [recursion EXCEPT ![t] = recursion_count]
  /\ PopNode
  /\ link_node' = [link_node EXCEPT ![t] = "live"]
  /\ depth' = [depth EXCEPT ![t] = 0]
  /\ UNCHANGED <<condVars, withLock, timed, signalled, alarmVars, notifyVars>>

\* cond_alarm_register, under the spin lock of the event kernel.
RegisterAlarm(t) ==
  /\ firing = None
  /\ Go(t, "register", "parked")
  /\ alarms' = alarms \cup {t}
  /\ UNCHANGED <<lockVars, condVars, depth, waitVars, link_node, permit, firing, notifyVars>>

\* park returns.
Woken(t) ==
  /\ permit[t]
  /\ Go(t, "parked", IF timed[t] THEN "woken" ELSE "wakeup")
  /\ permit' = [permit EXCEPT ![t] = FALSE]
  /\ UNCHANGED <<lockVars, condVars, depth, waitVars, link_node, alarmVars, notifyVars>>

\* unregister_self waits for the lock that the Alarm holds while it runs a
\* timeout.
UnregisterAlarm(t) ==
  /\ firing = None
  /\ Go(t, "woken", "wakeup")
  /\ alarms' = alarms \ {t}
  /\ UNCHANGED <<lockVars, condVars, depth, waitVars, link_node, permit, firing, notifyVars>>

\* Mutant: the recursion count is not restored.
OnWakeupOnce(t) ==
  /\ Go(t, "wakeup", "run")
  /\ depth' = IF withLock[t] THEN [depth EXCEPT ![t] = recursion[t]] ELSE depth
  /\ link_node' = IF withLock[t] THEN [link_node EXCEPT ![t] = "dangling"] ELSE link_node
  /\ withLock' = [withLock EXCEPT ![t] = FALSE] /\ timed' = [timed EXCEPT ![t] = FALSE]
  /\ recursion' = [recursion EXCEPT ![t] = 0] /\ signalled' = [signalled EXCEPT ![t] = FALSE]
  /\ UNCHANGED <<lockVars, condVars, permit, alarmVars, notifyVars>>

\* on_wakeup, and the return from wait, which ends the life of its locals.
OnWakeup(t) ==
  /\ Go(t, "wakeup", "run")
  /\ IF withLock[t]
     THEN /\ recursion_count' = recursion[t]
          /\ depth' = [depth EXCEPT ![t] = recursion[t]]
          /\ link_node' = [link_node EXCEPT ![t] = "dangling"]
     ELSE UNCHANGED <<recursion_count, depth, link_node>>
  /\ withLock' = [withLock EXCEPT ![t] = FALSE] /\ timed' = [timed EXCEPT ![t] = FALSE]
  /\ recursion' = [recursion EXCEPT ![t] = 0] /\ signalled' = [signalled EXCEPT ![t] = FALSE]
  /\ UNCHANGED <<owner, blocked_threads, wait_count, condVars, permit, alarmVars, notifyVars>>
-----------------------------------------------------------------------------
(***************************************************************************)
(* notify_one, notify_all and the timeout handler.                         *)
(***************************************************************************)
\* A client that follows the rules of a monitor notifies with the lock held.
MayNotify(n) ==
  NotifyUnlocked \/ \A t \in ToSet(waiters) : withLock[t] => owner = n

Notify(n) ==
  /\ Running(n) /\ CondFree
  /\ MayNotify(n)
  /\ waiters # <<>>
  /\ popped' = [popped EXCEPT ![n] = Head(waiters)]
  /\ signalled' = [signalled EXCEPT ![Head(waiters)] = TRUE]
  /\ waiters' = Tail(waiters)
  /\ count' = count - 1
  /\ \E a \in BOOLEAN : all' = [all EXCEPT ![n] = a]
  /\ UNCHANGED <<lockVars, pc, depth, withLock, timed, recursion, link_node, permit, alarmVars>>

\* get_expired: the alarm goes off, and the lock of the event kernel is held.
Expire(t) ==
  /\ firing = None /\ t \in alarms
  /\ firing' = t
  /\ alarms' = alarms \ {t}
  /\ UNCHANGED <<lockVars, condVars, pc, depth, waitVars, link_node, permit, notifyVars>>

\* Mutant: a thread that was signalled in time is notified again.
TimeoutUnchecked ==
  LET t == firing IN
  /\ t # None /\ CondFree
  /\ waiters' = SelectSeq(waiters, LAMBDA u : u # t)
  /\ count' = IF t \in ToSet(waiters) THEN count - 1 ELSE count
  /\ signalled' = [signalled EXCEPT ![t] = FALSE]
  /\ popped' = [popped EXCEPT ![Alarm] = t]
  /\ UNCHANGED <<lockVars, pc, depth, withLock, timed, recursion, link_node, permit, alarmVars, all>>

\* timeout_handler: nothing to do if the thread was signalled before.
Timeout ==
  LET t == firing IN
  /\ t # None /\ CondFree
  /\ \/ \E i \in DOMAIN waiters :
          /\ waiters[i] = t
          /\ waiters' = RemoveAt(waiters, i)
          /\ count' = count - 1
          /\ signalled' = [signalled EXCEPT ![t] = FALSE]
          /\ popped' = [popped EXCEPT ![Alarm] = t]
          /\ UNCHANGED firing
     \/ /\ t \notin ToSet(waiters)
        /\ firing' = None
        /\ UNCHANGED <<condVars, signalled, popped>>
  /\ UNCHANGED <<lockVars, pc, depth, withLock, timed, recursion, link_node, permit, alarms, all>>

\* The next thread that notify_all takes out, or the end of the notification.
TakeNext(n) ==
  IF all[n] /\ waiters # <<>>
  THEN /\ popped' = [popped EXCEPT ![n] = Head(waiters)]
       /\ signalled' = [signalled EXCEPT ![Head(waiters)] = TRUE]
       /\ waiters' = Tail(waiters)
       /\ count' = count - 1
       /\ UNCHANGED <<all, firing>>
  ELSE /\ popped' = [popped EXCEPT ![n] = None]
       /\ all' = [all EXCEPT ![n] = FALSE]
       /\ firing' = IF n = Alarm THEN None ELSE firing
       /\ UNCHANGED <<condVars, signalled>>

\* Wake a thread that waits without a lock.
UnparkPopped(n) ==
  /\ popped[n] # None /\ ~withLock[popped[n]]
  /\ permit' = [permit EXCEPT ![popped[n]] = TRUE]
  /\ TakeNext(n)
  /\ UNCHANGED <<lockVars, pc, depth, withLock, timed, recursion, link_node, alarms>>

\* Mutant: the thread is made the owner without being woken.
OnNotifySilent(n) ==
  LET t == popped[n] IN
  /\ t # None /\ withLock[t]
  /\ IF owner # None
     THEN /\ blocked_threads' = Append(blocked_threads, t)
          /\ wait_count' = wait_count + 1
          /\ UNCHANGED <<owner, recursion_count>>
     ELSE /\ owner' = t /\ recursion_count' = 1
          /\ UNCHANGED <<blocked_threads, wait_count>>
  /\ TakeNext(n)
  /\ UNCHANGED <<pc, depth, withLock, timed, recursion, link_node, permit, alarms>>

\* on_notify: queue it for the lock, by its link_node, or make it the owner.
OnNotify(n) ==
  LET t == popped[n] IN
  /\ t # None /\ withLock[t]
  /\ IF owner # None
     THEN /\ blocked_threads' = Append(blocked_threads, t)
          /\ wait_count' = wait_count + 1
          /\ UNCHANGED <<owner, recursion_count, permit>>
     ELSE /\ owner' = t /\ recursion_count' = 1
          /\ permit' = [permit EXCEPT ![t] = TRUE]
          /\ UNCHANGED <<blocked_threads, wait_count>>
  /\ TakeNext(n)
  /\ UNCHANGED <<pc, depth, withLock, timed, recursion, link_node, alarms>>
-----------------------------------------------------------------------------
WaitStep(t) ==
  \/ LockReturns(t) \/ OnWait(t) \/ RegisterAlarm(t) \/ Woken(t)
  \/ UnregisterAlarm(t) \/ OnWakeup(t)

NotifyStep(n) == UnparkPopped(n) \/ OnNotify(n)

Next ==
  \/ \E t \in Threads :
       \/ Acquire(t) \/ LockBlocks(t) \/ Unlock(t)
       \/ Enqueue(t) \/ WaitStep(t)
       \/ Notify(t) \/ Expire(t)
  \/ Timeout
  \/ \E n \in Notifiers : NotifyStep(n)

Spec == Init /\ [][Next]_vars

\* Threads and the preemption thread are scheduled, spin locks are passed on,
\* and time passes.  No client has to lock, unlock, wait or notify.
Fairness ==
  /\ \A t \in Threads : SF_vars(WaitStep(t)) /\ SF_vars(Expire(t))
  /\ SF_vars(Timeout)
  /\ \A n \in Notifiers : WF_vars(NotifyStep(n))

FairSpec == Spec /\ Fairness
-----------------------------------------------------------------------------
(***************************************************************************)
(* Properties.                                                             *)
(***************************************************************************)
\* Mutual exclusion, through hand-overs, waits and timeouts: a client that
\* holds the lock is its owner, with the depth at which it holds it, also
\* after a wait that released a recursive lock.
HoldersOwn ==
  \A t \in Threads : depth[t] > 0 => owner = t /\ recursion_count = depth[t]

\* A thread was given the lock while it was blocked, and does not run yet.
Handed(t) ==
  \/ pc[t] = "blocked" /\ permit[t]
  \/ withLock[t] /\ pc[t] \in {"register", "parked"} /\ permit[t]
  \/ withLock[t] /\ pc[t] \in {"woken", "wakeup"}

\* No hand-over is lost: the lock is not left free while threads wait for it,
\* an owner that does not hold it was given it and was woken, and nobody else
\* was.
HandedOver ==
  /\ owner = None => blocked_threads = <<>> /\ recursion_count = 0
  /\ \A t \in Threads : owner = t => depth[t] > 0 \/ Handed(t)
  /\ \A t \in Threads : Handed(t) => owner = t /\ recursion_count = 1

\* A blocked thread is in exactly one place, where someone will find it: in
\* the queue of the lock, in that of the condition variable, or in the hands
\* of a notifier; and the counters are the lengths of the queues.
Places(t) ==
  Cardinality({i \in DOMAIN blocked_threads : blocked_threads[i] = t})
    + Cardinality({i \in DOMAIN waiters : waiters[i] = t})
    + Cardinality({n \in Notifiers : popped[n] = t})

FoundOnce ==
  /\ \A t \in Threads :
       Places(t) = IF pc[t] \in {"blocked", "queued", "register", "parked"} /\ ~permit[t] THEN 1 ELSE 0
  /\ wait_count = Len(blocked_threads)
  /\ count = Len(waiters)

\* The timeout handler runs only while the wait it belongs to lasts, since
\* its alarm and its info_thread are on the stack of the waiting thread.
AlarmInWait ==
  /\ firing # None => timed[firing] /\ pc[firing] \in {"parked", "woken"}
  /\ \A t \in alarms : timed[t] /\ pc[t] \in {"parked", "woken"}

\* A wait that was signalled in time says so, however late its alarm is.
SignalKept ==
  [][\A t \in Threads : signalled[t] => signalled'[t] \/ pc'[t] = "run"]_vars

\* on_notify finds the node that the thread has put into its link_node for
\* this wait: "can be signalled outside of critical sections with no locks
\* held".
NodeReady ==
  \A n \in Notifiers : popped[n] # None /\ withLock[popped[n]] /\ owner # None =>
    link_node[popped[n]] = "live"

\* The timeout of a wait always finds that node, whoever holds the lock and
\* however early it goes off: the alarm is registered after the lock is released.
TimeoutFindsNode ==
  LET t == popped[Alarm] IN t # None /\ withLock[t] => link_node[t] = "live"

\* A wait with a timeout ends, or waits for the lock it has to reacquire.
TimedWaitEnds ==
  \A t \in Threads : pc[t] = "register" ~> pc[t] = "run" \/ t \in ToSet(blocked_threads)
=============================================================================
