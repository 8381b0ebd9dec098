----------------------------- MODULE SmallLocks -----------------------------
(***************************************************************************)
(* The small locks of concurrency/locks.hfa: the MCS locks on the queue of *)
(* collections/lockfree.hfa, the locks on a word with a futex or a list of *)
(* blocked threads, fast_block_lock, and the three that hold a flag on top *)
(* of one of the others.  A behaviour is about one lock, whose kind is     *)
(* picked at the start; each access to shared memory is a step, except     *)
(* that what holds the internal spin lock from end to end is one.          *)
(*                                                                         *)
(* Each acquisition has a node of its own, as in the callers: the node of  *)
(* thread t is named t.  park and unpark are those of module ParkUnpark.   *)
(***************************************************************************)
EXTENDS Integers, Sequences, FiniteSets

CONSTANTS
  Threads,
  Kinds,      \* the kinds of lock to look at
  Null        \* not a thread

McsKinds == {"mcs_lock", "mcs_block_spin_lock"}
McsSpinKinds == {"mcs_spin_lock", "spin_queue_lock"}
BlockKinds == {"fast_block_lock", "block_spin_lock"}
WithHeld == {"spin_queue_lock", "mcs_block_spin_lock", "block_spin_lock"}
FutexKinds == {"futex_mutex", "go_mutex"}
WordKinds == FutexKinds \cup {"exp_backoff_then_block_lock"}
QueueKinds == McsKinds \cup McsSpinKinds \cup BlockKinds

ASSUME SmallLocksAssumption == Null \notin Threads /\ Kinds \subseteq QueueKinds \cup WordKinds

VARIABLES
  kind,
  pc,
  permit,       \* threads that are unparked, or woken by FUTEX_WAKE
  tail,         \* tail of the MCS queue
  next,         \* next of the node of a thread
  other,        \* a thread's local: its predecessor, then its successor
  granted,      \* nodes that have been told: locked is false, or sem is 1p
  parking,      \* nodes whose sem holds their thread
  taken,        \* held of fast_block_lock
  blocked,      \* blocked_threads, the oldest first
  held,         \* held of the kinds in WithHeld
  val,          \* val, lock_value: 0 unlocked, 1 locked, 2 contended
  sleepers,     \* threads in FUTEX_WAIT
  init_state,   \* local of lock of go_mutex
  line          \* history: threads in a queue lock in the order they came

mcsVars == <<tail, next, other, granted, parking>>
blockVars == <<taken, blocked>>
wordVars == <<val, sleepers, init_state>>
vars == <<kind, pc, permit, mcsVars, blockVars, held, wordVars, line>>

Init ==
  /\ kind \in Kinds
  /\ pc = [t \in Threads |-> "out"]
  /\ permit = {}
  /\ tail = Null
  /\ next = [t \in Threads |-> Null]
  /\ other = [t \in Threads |-> Null]
  /\ granted = {} /\ parking = {}
  /\ taken = FALSE /\ blocked = <<>>
  /\ held = FALSE
  /\ val = 0 /\ sleepers = {}
  /\ init_state = [t \in Threads |-> 0]
  /\ line = <<>>

Set(f, t, v) == [f EXCEPT ![t] = v]
Goto(t, where) == pc' = Set(pc, t, where)

\* Where lock and unlock of the lock inside end.
Got(t) == Goto(t, IF kind \in WithHeld THEN "test" ELSE "in")
Left(t) == Goto(t, IF kind \in WithHeld THEN "in" ELSE "out")

\* A thread calls lock.
Lock(t) ==
  /\ pc[t] = "out"
  /\ Goto(t, CASE kind \in BlockKinds -> "block"
               [] kind = "go_mutex" -> "grab"
               [] kind \in WordKinds \ {"go_mutex"} -> "try"
               [] OTHER -> "push")
  /\ UNCHANGED <<kind, permit, mcsVars, blockVars, held, wordVars, line>>

-----------------------------------------------------------------------------
(* MCS locks: push and advance of mcs_queue, with single_sem, or with the  *)
(* spinning of mcs_spin_lock.                                              *)

Push(t) ==
  /\ pc[t] = "push"
  /\ tail' = t /\ line' = Append(line, t)
  /\ granted' = granted \ {t} /\ other' = Set(other, t, tail)
  /\ IF tail = Null THEN Got(t) ELSE Goto(t, "link")
  /\ UNCHANGED <<kind, permit, next, parking, blockVars, held, wordVars>>

\* The predecessor's next is set later than the tail.
Link(t) ==
  /\ pc[t] = "link"
  /\ next' = Set(next, other[t], t)
  /\ other' = Set(other, t, Null)
  /\ Goto(t, "wait")
  /\ UNCHANGED <<kind, permit, tail, granted, parking, blockVars, held, wordVars, line>>

\* The spinning ends, or wait finds 1p in the sem.
Wait(t) ==
  /\ pc[t] = "wait" /\ t \in granted
  /\ granted' = granted \ {t}
  /\ Got(t)
  /\ UNCHANGED <<kind, permit, tail, next, other, parking, blockVars, held, wordVars, line>>

\* wait leaves its thread in the sem and parks.
WaitParks(t) ==
  /\ pc[t] = "wait" /\ kind \in McsKinds /\ t \notin granted
  /\ parking' = parking \cup {t}
  /\ Goto(t, "parked")
  /\ UNCHANGED <<kind, permit, tail, next, other, granted, blockVars, held, wordVars, line>>

\* park returns in the wait of a sem or in fast_block_lock.
Unparked(t) ==
  /\ pc[t] = "parked" /\ t \in permit
  /\ permit' = permit \ {t}
  /\ Got(t)
  /\ UNCHANGED <<kind, mcsVars, blockVars, held, wordVars, line>>

\* Mutant: a missing link is taken for the end of the queue.
AdvanceUnlinked(t) ==
  /\ pc[t] = "unlock" /\ kind \in McsKinds \cup McsSpinKinds
  /\ line' = Tail(line)
  /\ \/ /\ tail = t \/ next[t] = Null
        /\ tail' = IF tail = t THEN Null ELSE tail
        /\ Left(t) /\ UNCHANGED <<next, other>>
     \/ /\ tail # t /\ next[t] # Null
        /\ other' = Set(other, t, next[t]) /\ next' = Set(next, t, Null)
        /\ Goto(t, "post") /\ UNCHANGED tail
  /\ UNCHANGED <<kind, permit, granted, parking, blockVars, held, wordVars>>

\* advance: the last one empties the queue, another waits for its successor.
Advance(t) ==
  /\ pc[t] = "unlock" /\ kind \in McsKinds \cup McsSpinKinds
  /\ line' = Tail(line)
  /\ \/ tail = t /\ tail' = Null /\ Left(t) /\ UNCHANGED <<next, other>>
     \/ /\ tail # t /\ next[t] # Null
        /\ other' = Set(other, t, next[t]) /\ next' = Set(next, t, Null)
        /\ Goto(t, "post") /\ UNCHANGED tail
  /\ UNCHANGED <<kind, permit, granted, parking, blockVars, held, wordVars>>

\* post, or locked of the successor is cleared.
Post(t) ==
  /\ pc[t] = "post"
  /\ IF other[t] \in parking
     THEN parking' = parking \ {other[t]} /\ permit' = permit \cup {other[t]} /\ UNCHANGED granted
     ELSE granted' = granted \cup {other[t]} /\ UNCHANGED <<parking, permit>>
  /\ other' = Set(other, t, Null)
  /\ Left(t)
  /\ UNCHANGED <<kind, tail, next, blockVars, held, wordVars, line>>

-----------------------------------------------------------------------------
(* fast_block_lock.                                                        *)

Block(t) ==
  /\ pc[t] = "block"
  /\ taken' = TRUE /\ line' = Append(line, t)
  /\ IF taken THEN blocked' = Append(blocked, t) /\ Goto(t, "parked")
              ELSE Got(t) /\ UNCHANGED blocked
  /\ UNCHANGED <<kind, permit, mcsVars, held, wordVars>>

\* Mutant: the thread that came last is popped.
PassToLast(t) ==
  /\ pc[t] = "unlock" /\ kind \in BlockKinds
  /\ line' = Tail(line)
  /\ taken' = (blocked # <<>>)
  /\ IF blocked = <<>> THEN UNCHANGED <<blocked, permit>>
     ELSE blocked' = SubSeq(blocked, 1, Len(blocked) - 1) /\ permit' = permit \cup {blocked[Len(blocked)]}
  /\ Left(t)
  /\ UNCHANGED <<kind, mcsVars, held, wordVars>>

\* unlock hands over to the first thread that is blocked.
PassOn(t) ==
  /\ pc[t] = "unlock" /\ kind \in BlockKinds
  /\ line' = Tail(line)
  /\ taken' = (blocked # <<>>)
  /\ IF blocked = <<>> THEN UNCHANGED <<blocked, permit>>
     ELSE blocked' = Tail(blocked) /\ permit' = permit \cup {Head(blocked)}
  /\ Left(t)
  /\ UNCHANGED <<kind, mcsVars, held, wordVars>>

-----------------------------------------------------------------------------
(* The flag of spin_queue_lock, mcs_block_spin_lock and block_spin_lock.   *)

\* Mutant: only the queue is waited for.
TestNot(t) ==
  /\ pc[t] = "test"
  /\ Goto(t, "set")
  /\ UNCHANGED <<kind, permit, mcsVars, blockVars, held, wordVars, line>>

\* The thread that has the lock inside spins until the flag is down ...
Test(t) ==
  /\ pc[t] = "test" /\ ~held
  /\ Goto(t, "set")
  /\ UNCHANGED <<kind, permit, mcsVars, blockVars, held, wordVars, line>>

\* ... raises it, and unlocks the lock inside.
Raise(t) ==
  /\ pc[t] = "set"
  /\ held' = TRUE
  /\ Goto(t, "unlock")
  /\ UNCHANGED <<kind, permit, mcsVars, blockVars, wordVars, line>>

Lower(t) ==
  /\ pc[t] = "in" /\ kind \in WithHeld
  /\ held' = FALSE
  /\ Goto(t, "out")
  /\ UNCHANGED <<kind, permit, mcsVars, blockVars, wordVars, line>>

-----------------------------------------------------------------------------
(* futex_mutex, go_mutex and exp_backoff_then_block_lock.  Spinning is     *)
(* bounded: a thread may go on from "try" or "spin" at any time.           *)

wordFrame == <<kind, mcsVars, blockVars, held, line>>

\* internal_try_lock with 0 and 1.  A contended lock is not tried again.
TryLock(t) ==
  /\ pc[t] = "try"
  /\ val' = IF val = 0 THEN 1 ELSE val
  /\ CASE val = 0 -> Goto(t, "in")
       [] val = 1 -> UNCHANGED pc \/ Goto(t, "contend")
       [] val = 2 -> Goto(t, "sleep")
  /\ UNCHANGED <<wordFrame, permit, sleepers, init_state>>

\* go_mutex: the speculative grab.
Grab(t) ==
  /\ pc[t] = "grab"
  /\ val' = 1 /\ init_state' = Set(init_state, t, val)
  /\ Goto(t, IF val = 0 THEN "in" ELSE "spin")
  /\ UNCHANGED <<wordFrame, permit, sleepers>>

\* Mutant: the thread forgets that it has slept.
SpinForgets(t) ==
  /\ pc[t] = "spin"
  /\ \/ val = 0 /\ val' = 1 /\ Goto(t, "in")
     \/ Goto(t, "contend") /\ UNCHANGED val
  /\ UNCHANGED <<wordFrame, permit, sleepers, init_state>>

\* go_mutex: the lock is seen free and taken with init_state, or spinning ends.
Spin(t) ==
  /\ pc[t] = "spin"
  /\ \/ val = 0 /\ val' = init_state[t] /\ Goto(t, "in")
     \/ Goto(t, "contend") /\ UNCHANGED val
  /\ UNCHANGED <<wordFrame, permit, sleepers, init_state>>

\* internal_exchange and try_lock_contention.
Contend(t) ==
  /\ pc[t] = "contend"
  /\ val' = 2 /\ init_state' = IF kind = "go_mutex" THEN Set(init_state, t, 2) ELSE init_state
  /\ Goto(t, IF val = 0 THEN "in" ELSE "sleep")
  /\ UNCHANGED <<wordFrame, permit, sleepers>>

Again(t) == Goto(t, IF kind = "go_mutex" THEN "spin" ELSE "contend")

\* FUTEX_WAIT; or block, under the spin lock.
Sleep(t) ==
  /\ pc[t] = "sleep"
  /\ IF val # 2 THEN Again(t) /\ UNCHANGED <<sleepers, blocked>>
     ELSE /\ Goto(t, "asleep")
          /\ IF kind \in FutexKinds
             THEN sleepers' = sleepers \cup {t} /\ UNCHANGED blocked
             ELSE blocked' = Append(blocked, t) /\ UNCHANGED sleepers
  /\ UNCHANGED <<kind, mcsVars, taken, held, line, permit, val, init_state>>

Woken(t) ==
  /\ pc[t] = "asleep" /\ t \in permit
  /\ permit' = permit \ {t}
  /\ Again(t)
  /\ UNCHANGED <<wordFrame, wordVars>>

\* A signal ends FUTEX_WAIT.
Interrupted(t) ==
  /\ pc[t] = "asleep" /\ t \in sleepers
  /\ sleepers' = sleepers \ {t}
  /\ Again(t)
  /\ UNCHANGED <<wordFrame, permit, val, init_state>>

Release(t) ==
  /\ pc[t] = "in" /\ kind \in WordKinds
  /\ val' = 0
  /\ Goto(t, IF val = 1 THEN "out" ELSE "wake")
  /\ UNCHANGED <<wordFrame, permit, sleepers, init_state>>

\* FUTEX_WAKE of one thread; or the first blocked thread is unparked.
Wake(t) ==
  /\ pc[t] = "wake"
  /\ \/ sleepers = {} /\ blocked = <<>> /\ UNCHANGED <<sleepers, blocked, permit>>
     \/ /\ \E u \in sleepers : sleepers' = sleepers \ {u} /\ permit' = permit \cup {u}
        /\ UNCHANGED blocked
     \/ /\ blocked # <<>>
        /\ blocked' = Tail(blocked) /\ permit' = permit \cup {Head(blocked)}
        /\ UNCHANGED sleepers
  /\ Goto(t, "out")
  /\ UNCHANGED <<kind, mcsVars, taken, held, line, val, init_state>>

-----------------------------------------------------------------------------
\* unlock of the locks that are not handled by Lower or Release.
Unlock(t) ==
  /\ pc[t] = "in" /\ kind \in QueueKinds \ WithHeld
  /\ Goto(t, "unlock")
  /\ UNCHANGED <<kind, permit, mcsVars, blockVars, held, wordVars, line>>

Step(t) ==
  \/ Push(t) \/ Link(t) \/ Wait(t) \/ WaitParks(t) \/ Unparked(t) \/ Advance(t) \/ Post(t)
  \/ Block(t) \/ PassOn(t)
  \/ Test(t) \/ Raise(t) \/ Lower(t)
  \/ TryLock(t) \/ Grab(t) \/ Spin(t) \/ Contend(t) \/ Sleep(t) \/ Woken(t) \/ Release(t) \/ Wake(t)
  \/ Unlock(t)

Next == \E t \in Threads : Lock(t) \/ Step(t) \/ Interrupted(t)

Spec == Init /\ [][Next]_vars

\* A thread that has called lock goes on until it has unlocked.
FairSpec == Spec /\ \A t \in Threads : WF_vars(Step(t))

-----------------------------------------------------------------------------
(* A thread that sleeps for a lock on a word is not forgotten: the word    *)
(* says that the lock is contended, or a wake is under way, or a thread    *)
(* that is awake will say so, by its exchange or, in go_mutex, by what it  *)
(* takes the lock with (locks.hfa:262-276, :314-345, :385-421).            *)
NobodyForgotten ==
  (\E t \in Threads : pc[t] = "asleep" /\ t \notin permit) =>
    \/ val = 2
    \/ \E u \in Threads :
         \/ pc[u] \in {"wake", "contend"}
         \/ pc[u] = "asleep" /\ u \in permit
         \/ pc[u] = "spin" /\ init_state[u] = 2

(* The locks with a queue serve threads in the order in which they came,   *)
(* and the one that is served first is the first of it (lockfree.hfa:28-53,*)
(* locks.hfa:456-475, :673-679).                                           *)
FirstComeFirstServed ==
  \A t \in Threads : kind \in QueueKinds /\ pc[t] \in {"test", "set", "in", "unlock"} =>
    (kind \in WithHeld /\ pc[t] = "in") \/ Head(line) = t

Phase(t) ==
  IF pc[t] = "in" \/ (kind \in WithHeld /\ pc[t] \in {"unlock", "post"}) THEN "in"
  ELSE IF pc[t] \in {"out", "wake", "unlock", "post"} THEN "out" ELSE "trying"

Abstract == INSTANCE Mutex WITH phase <- [t \in Threads |-> Phase(t)]

(* Every kind is a lock: one thread at a time, and no thread waits while   *)
(* nobody has the lock and somebody could (locks.hfa:137-440, :656-762).   *)
FairlyImplementsMutex == Abstract!FairSpec

(* The locks with a queue serve everyone who tries.                        *)
EveryoneServed ==
  \A t \in Threads : kind \in QueueKinds /\ Phase(t) = "trying" ~> Phase(t) = "in"
=============================================================================
