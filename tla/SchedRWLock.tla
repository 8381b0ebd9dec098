----------------------------- MODULE SchedRWLock -----------------------------
(***************************************************************************)
(* The reader-writer lock around the ready queues, with its lock-free      *)
(* registration of kernel threads: concurrency/kernel/private.hfa and      *)
(* kernel/cluster.cfa.                                                     *)
(*                                                                         *)
(* Every kernel thread has a lock of its own, sched_lock, and publishes it *)
(* in a cell of the array data.  A reader waits until there is no writer   *)
(* and takes its own lock; it does not look at write_lock again.  A writer *)
(* takes write_lock and then, cell by cell, the lock of everyone else.     *)
(* Threads register and unregister at any time, writer or not.             *)
(*                                                                         *)
(* Readers are the processors that push to and pop from a ready queue      *)
(* (module Kernel), writers those that add and remove lanes.  Memory is    *)
(* sequentially consistent, as it is on the x86 for these accesses.        *)
(***************************************************************************)
EXTENDS Integers, FiniteSets

CONSTANTS
  Kthreads,   \* kernel threads, each registers once
  MaxCells,   \* cells of the array
  None        \* an empty cell

ASSUME SchedRWLockAssumption ==
  /\ None \notin Kthreads
  /\ IsFiniteSet(Kthreads)
  /\ MaxCells \in Nat /\ Cardinality(Kthreads) <= MaxCells

VARIABLES
  data,        \* cell -> the kernel thread whose lock it points to
  alloc,       \* cells in use
  ready,       \* cells ready to iterate over
  write_lock,
  sched_lock,  \* kernel thread -> its own lock
  place,       \* kernel thread -> where it stands
  id,          \* kernel thread -> its cell
  idx,         \* kernel thread -> loop index over the cells
  last,        \* kernel thread -> number of cells it loops over
  llock        \* kernel thread -> the lock it read from a cell

lockVars == <<data, alloc, ready, write_lock, sched_lock, place, id, idx, last, llock>>

Cells == 0 .. MaxCells - 1

Registering == {"scan", "write", "publish"}
Reader == {"enter", "reading"}
Locking == {"size", "load", "take"}
Unlocking == {"uload", "ustore", "release"}
Writer == Locking \cup {"writing"} \cup Unlocking
Registered == {"in"} \cup Reader \cup Writer

LockTypeOK ==
  /\ data \in [Cells -> Kthreads \cup {None}]
  /\ alloc \in 0 .. MaxCells /\ ready \in 0 .. MaxCells
  /\ write_lock \in BOOLEAN
  /\ sched_lock \in [Kthreads -> BOOLEAN]
  /\ place \in [Kthreads -> {"out", "left", "gone"} \cup Registering \cup Registered]
  /\ id \in [Kthreads -> Cells \cup {-1}]
  /\ idx \in [Kthreads -> 0 .. MaxCells]
  /\ last \in [Kthreads -> 0 .. MaxCells]
  /\ llock \in [Kthreads -> Kthreads \cup {None}]

LockInit ==
  /\ data = [c \in Cells |-> None]
  /\ alloc = 0 /\ ready = 0
  /\ write_lock = FALSE
  /\ sched_lock = [k \in Kthreads |-> FALSE]
  /\ place = [k \in Kthreads |-> "out"]
  /\ id = [k \in Kthreads |-> -1]
  /\ idx = [k \in Kthreads |-> 0]
  /\ last = [k \in Kthreads |-> 0]
  /\ llock = [k \in Kthreads |-> None]

Go(k, from, to) == place[k] = from /\ place' = [place EXCEPT ![k] = to]
-----------------------------------------------------------------------------
(***************************************************************************)
(* register_proc_id and unregister_proc_id.                                *)
(***************************************************************************)
RegisterStart(k) ==
  /\ Go(k, "out", "scan")
  /\ last' = [last EXCEPT ![k] = ready]
  /\ idx' = [idx EXCEPT ![k] = 0]
  /\ UNCHANGED <<data, alloc, ready, write_lock, sched_lock, id, llock>>

\* Step 1: take a free cell among those that are ready.
TakeFree(k) ==
  /\ idx[k] < last[k] /\ data[idx[k]] = None
  /\ Go(k, "scan", "in")
  /\ data' = [data EXCEPT ![idx[k]] = k]
  /\ id' = [id EXCEPT ![k] = idx[k]]
  /\ UNCHANGED <<alloc, ready, write_lock, sched_lock, idx, last, llock>>

SkipTaken(k) ==
  /\ place[k] = "scan"
  /\ idx[k] < last[k] /\ data[idx[k]] # None
  /\ idx' = [idx EXCEPT ![k] = @ + 1]
  /\ UNCHANGED <<data, alloc, ready, write_lock, sched_lock, place, id, last, llock>>

\* Step 2: a new cell.  The program aborts if there is none.
AllocCell(k) ==
  /\ idx[k] = last[k] /\ alloc < MaxCells
  /\ Go(k, "scan", "write")
  /\ id' = [id EXCEPT ![k] = alloc]
  /\ alloc' = alloc + 1
  /\ UNCHANGED <<data, ready, write_lock, sched_lock, idx, last, llock>>

\* Step 3: fill the cell, then publish it once all cells before it are.
WriteCell(k) ==
  /\ Go(k, "write", "publish")
  /\ data' = [data EXCEPT ![id[k]] = k]
  /\ UNCHANGED <<alloc, ready, write_lock, sched_lock, id, idx, last, llock>>

\* Mutant: the cell is published whatever the cells before it are.
PublishUnordered(k) ==
  /\ Go(k, "publish", "in")
  /\ ready' = IF ready > id[k] THEN ready ELSE id[k] + 1
  /\ UNCHANGED <<data, alloc, write_lock, sched_lock, id, idx, last, llock>>

\* Mutant: the counter of ready cells is not advanced.
PublishForgets(k) ==
  /\ ready = id[k]
  /\ Go(k, "publish", "in")
  /\ UNCHANGED <<data, alloc, ready, write_lock, sched_lock, id, idx, last, llock>>

PublishCell(k) ==
  /\ ready = id[k]
  /\ Go(k, "publish", "in")
  /\ ready' = id[k] + 1
  /\ UNCHANGED <<data, alloc, write_lock, sched_lock, id, idx, last, llock>>

Unregister(k) ==
  /\ Go(k, "in", "left")
  /\ data' = [data EXCEPT ![id[k]] = None]
  /\ UNCHANGED <<alloc, ready, write_lock, sched_lock, id, idx, last, llock>>

\* The kernel thread ends, and its thread-local storage with it.
Exit(k) ==
  /\ Go(k, "left", "gone")
  /\ UNCHANGED <<data, alloc, ready, write_lock, sched_lock, id, idx, last, llock>>
-----------------------------------------------------------------------------

\* Step 1: no writer is in the middle of the critical section.
ReadWait(k) ==
  /\ ~write_lock
  /\ Go(k, "in", "enter")
  /\ UNCHANGED <<data, alloc, ready, write_lock, sched_lock, id, idx, last, llock>>

\* Step 2: acquire our local lock.
ReadAcquire(k) ==
  /\ ~sched_lock[k]
  /\ Go(k, "enter", "reading")
  /\ sched_lock' = [sched_lock EXCEPT ![k] = TRUE]
  /\ UNCHANGED <<data, alloc, ready, write_lock, id, idx, last, llock>>

ReadUnlock(k) ==
  /\ Go(k, "reading", "in")
  /\ sched_lock' = [sched_lock EXCEPT ![k] = FALSE]
  /\ UNCHANGED <<data, alloc, ready, write_lock, id, idx, last, llock>>
-----------------------------------------------------------------------------
(***************************************************************************)
(* Writers: ready_mutate_lock and ready_mutate_unlock.                     *)
(***************************************************************************)
\* Step 1: the global lock.
MutateAcquire(k) ==
  /\ ~write_lock
  /\ Go(k, "in", "size")
  /\ write_lock' = TRUE
  /\ UNCHANGED <<data, alloc, ready, sched_lock, id, idx, last, llock>>

\* Mutant: the number of cells is the one its last loop had.
MutateSizeStale(k) ==
  /\ Go(k, "size", "load")
  /\ idx' = [idx EXCEPT ![k] = 0]
  /\ UNCHANGED <<data, alloc, ready, write_lock, sched_lock, id, last, llock>>

MutateSize(k) ==
  /\ Go(k, "size", "load")
  /\ last' = [last EXCEPT ![k] = ready]
  /\ idx' = [idx EXCEPT ![k] = 0]
  /\ UNCHANGED <<data, alloc, ready, write_lock, sched_lock, id, llock>>

\* The loops over the cells: read the lock in a cell, pass over an empty one,
\* or end.
LoadLock(k, from, to) ==
  /\ idx[k] < last[k] /\ data[idx[k]] # None
  /\ Go(k, from, to)
  /\ llock' = [llock EXCEPT ![k] = data[idx[k]]]
  /\ UNCHANGED <<data, alloc, ready, write_lock, sched_lock, id, idx, last>>

SkipEmpty(k, at) ==
  /\ place[k] = at
  /\ idx[k] < last[k] /\ data[idx[k]] = None
  /\ idx' = [idx EXCEPT ![k] = @ + 1]
  /\ UNCHANGED <<data, alloc, ready, write_lock, sched_lock, place, id, last, llock>>

EndLoop(k, from, to) ==
  /\ idx[k] = last[k]
  /\ Go(k, from, to)
  /\ UNCHANGED <<data, alloc, ready, write_lock, sched_lock, id, idx, last, llock>>

\* Step 2: the local lock in every cell, its own included.
MutateLoad(k) ==
  LoadLock(k, "load", "take") \/ SkipEmpty(k, "load") \/ EndLoop(k, "load", "writing")

MutateTake(k) ==
  /\ Go(k, "take", "load")
  /\ ~sched_lock[llock[k]]
  /\ sched_lock' = [sched_lock EXCEPT ![llock[k]] = TRUE]
  /\ idx' = [idx EXCEPT ![k] = @ + 1]
  /\ UNCHANGED <<data, alloc, ready, write_lock, id, last, llock>>

MutateUnlock(k) ==
  /\ Go(k, "writing", "uload")
  /\ idx' = [idx EXCEPT ![k] = 0]
  /\ UNCHANGED <<data, alloc, ready, write_lock, sched_lock, id, last, llock>>

UnlockLoad(k) ==
  LoadLock(k, "uload", "ustore") \/ SkipEmpty(k, "uload") \/ EndLoop(k, "uload", "release")

\* Mutant: the last cell is forgotten.
UnlockStoreShort(k) ==
  /\ Go(k, "ustore", "uload")
  /\ sched_lock' = IF idx[k] + 1 = last[k] THEN sched_lock
                   ELSE [sched_lock EXCEPT ![llock[k]] = FALSE]
  /\ idx' = [idx EXCEPT ![k] = @ + 1]
  /\ UNCHANGED <<data, alloc, ready, write_lock, id, last, llock>>

UnlockStore(k) ==
  /\ Go(k, "ustore", "uload")
  /\ sched_lock' = [sched_lock EXCEPT ![llock[k]] = FALSE]
  /\ idx' = [idx EXCEPT ![k] = @ + 1]
  /\ UNCHANGED <<data, alloc, ready, write_lock, id, last, llock>>

MutateRelease(k) ==
  /\ Go(k, "release", "in")
  /\ write_lock' = FALSE
  /\ UNCHANGED <<data, alloc, ready, sched_lock, id, idx, last, llock>>
-----------------------------------------------------------------------------
Register(k) ==
  RegisterStart(k) \/ TakeFree(k) \/ SkipTaken(k) \/ AllocCell(k) \/ WriteCell(k) \/ PublishCell(k)

ReadStep(k) == ReadAcquire(k) \/ ReadUnlock(k)

MutateStep(k) ==
  \/ MutateSize(k) \/ MutateLoad(k) \/ MutateTake(k) \/ MutateUnlock(k)
  \/ UnlockLoad(k) \/ UnlockStore(k) \/ MutateRelease(k)

LockNext ==
  \E k \in Kthreads :
    \/ Register(k) \/ Unregister(k) \/ Exit(k)
    \/ ReadWait(k) \/ ReadStep(k)
    \/ MutateAcquire(k) \/ MutateStep(k)

LockSpec == LockInit /\ [][LockNext]_lockVars

\* Kernel threads are scheduled by the operating system, and the critical
\* sections they protect are finite.  Nobody has to enter one.
LockFairness == \A k \in Kthreads : WF_lockVars(Register(k)) /\ WF_lockVars(ReadStep(k)) /\ WF_lockVars(MutateStep(k))

FairLockSpec == LockSpec /\ LockFairness
-----------------------------------------------------------------------------
(***************************************************************************)
(* Properties.                                                             *)
(***************************************************************************)
\* While a writer changes the lanes nobody else reads or changes them, also
\* not a kernel thread that registered after the writer looked at its cell.
Exclusion ==
  \A w \in Kthreads : place[w] = "writing" =>
    \A k \in Kthreads \ {w} : place[k] \notin {"reading", "writing"}

\* A registered thread owns exactly one cell, which every writer that comes
\* later loops over: the checks on data[sched_id] in the lock and the unlock
\* of a reader and in unregister_proc_id.
CellsMatch ==
  /\ \A k \in Kthreads : place[k] \in Registered => id[k] < ready /\ data[id[k]] = k
  /\ \A c \in Cells : data[c] # None => id[data[c]] = c

\* A writer does not deadlock with itself: nobody holds its own lock when it
\* becomes the writer.
WriterOwnLockFree == \A k \in Kthreads : place[k] = "size" => ~sched_lock[k]

\* A writer that unlocks every cell, those filled while it was writing
\* included, never unlocks a thread that reads.
UnlocksNoReader ==
  \A w \in Kthreads : place[w] = "ustore" => place[llock[w]] # "reading"

\* When nobody reads or writes every lock is free: a writer releases what it
\* took although cells were filled and emptied in between.
LocksReleased ==
  (\A k \in Kthreads : place[k] \notin {"reading"} \cup Writer) =>
    ~write_lock /\ \A k \in Kthreads : place[k] \in Registered => ~sched_lock[k]

\* A writer that has the global lock enters: readers that passed the test of
\* write_lock before are waited for once, and no new one gets in.
WriterEnters == \A k \in Kthreads : place[k] = "size" ~> place[k] = "writing"

\* Threads that register concurrently all get published.
RegistrationEnds == \A k \in Kthreads : place[k] = "scan" ~> place[k] = "in"

=============================================================================
