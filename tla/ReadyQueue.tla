------------------------------ MODULE ReadyQueue ------------------------------
(***************************************************************************)
(* The ready queue of a cluster, concurrency/ready_queue.cfa,              *)
(* ready_subqueue.hfa and the growing and shrinking in kernel/cluster.cfa. *)
(*                                                                         *)
(* The queue is an array of lanes.  A lane is an intrusive list of threads *)
(* with a spin lock: the link of its first thread is in the lane itself    *)
(* (the anchor), and prev points to the last thread, or to the lane, seen  *)
(* as a thread, when the lane is empty.  Every processor of the cluster    *)
(* has Shard lanes of its own.  The array is reallocated when a processor  *)
(* joins or leaves the cluster, under the writer side of the lock of       *)
(* module SchedRWLock; everything else runs under its reader side.         *)
(*                                                                         *)
(* Left out: time stamps and the help they give to old lanes, which only   *)
(* choose a lane to pop from (any lane here), and statistics.              *)
(***************************************************************************)
EXTENDS Integers, FiniteSets, SequencesExt

CONSTANTS
  Procs,     \* processors; one that is not in the cluster can still push
  Threads,
  NoThread

MockHead == {"self", "stale"}   \* a lane seen as a thread, at its address or a former one

ASSUME ReadyQueueAssumption ==
  /\ NoThread \notin Threads
  /\ Threads \cap MockHead = {}
  /\ IsFiniteSet(Procs) /\ IsFiniteSet(Threads)

Shard == 2              \* __shard_factor.readyq
SingleShard == 2        \* __readyq_single_shard
UINT_MAX == -1          \* no preferred processor slot

VARIABLES
  count,      \* number of lanes
  lanes,      \* the lists: [anchor, prev] of the lanes and [next] of the threads
  locked,     \* lane -> its spin lock
  preferred,  \* thread -> the slot it was popped from last
  members,    \* processors of the cluster
  rdqid,      \* processor -> the first of its own lanes
  pc, lane, left, thr,   \* processor -> its operation: where it stands, its
                         \* lane, the lanes it has left to try, its thread
  queued,     \* history: threads that were pushed and not popped
  since,      \* history: processor -> threads queued since its search began
  contended   \* history: processor -> whether its search found a lane locked

queueVars == <<count, members, rdqid>>
opVars == <<pc, lane, left, thr>>
history == <<queued, since, contended>>
vars == <<queueVars, lanes, locked, preferred, opVars, history>>

MaxOf(a, b) == IF a > b THEN a ELSE b
MinOf(a, b) == IF a < b THEN a ELSE b
LaneCount(n) == MaxOf(n * Shard, SingleShard)
MaxLanes == LaneCount(Cardinality(Procs))
AllLanes == 0 .. MaxLanes - 1
Lanes == 0 .. count - 1

\* The constructor of a cluster grows the queue for no processor.
Init ==
  /\ count = LaneCount(0)
  /\ lanes = [anchor |-> [l \in AllLanes |-> NoThread],
              prev |-> [l \in AllLanes |-> "self"],
              next |-> [t \in Threads |-> NoThread]]
  /\ locked = [l \in AllLanes |-> FALSE]
  /\ preferred = [t \in Threads |-> UINT_MAX]
  /\ members = {}
  /\ rdqid = [p \in Procs |-> 0]
  /\ pc = [p \in Procs |-> "out"]
  /\ lane = [p \in Procs |-> 0]
  /\ left = [p \in Procs |-> 0]
  /\ thr = [p \in Procs |-> NoThread]
  /\ queued = {}
  /\ since = [p \in Procs |-> {}]
  /\ contended = [p \in Procs |-> FALSE]
-----------------------------------------------------------------------------
(***************************************************************************)
(* The list of a lane: push and pop of ready_subqueue.hfa.                 *)
(***************************************************************************)
IsEmpty(ls, l) == ls.anchor[l] = NoThread

\* The link is written where prev points to: into a thread, the lane itself,
\* or memory that the lane was moved from.
Linked(ls, l, t) ==
  IF ls.prev[l] \in Threads
  THEN [ls EXCEPT !.next[ls.prev[l]] = t, !.prev[l] = t]
  ELSE [ls EXCEPT !.anchor[l] = IF ls.prev[l] = "self" THEN t ELSE @, !.prev[l] = t]

Unlinked(ls, l) ==
  LET t == ls.anchor[l] IN
  [ls EXCEPT !.anchor[l] = ls.next[t], !.next[t] = NoThread,
             !.prev[l] = IF ls.next[t] = NoThread THEN "self" ELSE @]

\* The threads of a lane, the oldest first: follow the links from the anchor.
ThreadsOf(ls, l) ==
  LET walk[ts \in SeqOf(Threads, Cardinality(Threads))] ==
        LET n == IF ts = <<>> THEN ls.anchor[l] ELSE ls.next[Last(ts)] IN
        IF n = NoThread \/ Len(ts) = Cardinality(Threads) THEN ts ELSE walk[Append(ts, n)]
  IN  walk[<<>>]
-----------------------------------------------------------------------------
(***************************************************************************)
(* push.                                                                   *)
(***************************************************************************)
\* The operation is over, and with it its locals and the history of a search.
Return(p) ==
  /\ pc' = [pc EXCEPT ![p] = "out"]
  /\ lane' = [lane EXCEPT ![p] = 0]
  /\ left' = [left EXCEPT ![p] = 0]
  /\ thr' = [thr EXCEPT ![p] = NoThread]
  /\ since' = [since EXCEPT ![p] = {}]
  /\ contended' = [contended EXCEPT ![p] = FALSE]

SlotLanes(s) == s .. s + Shard - 1

\* Mutant: the slot is used without looking whether it still exists.
RemoteLanesUnchecked(t) ==
  IF preferred[t] # UINT_MAX THEN SlotLanes(preferred[t] * Shard) ELSE Lanes

\* From outside the cluster, or for a remote wake: where the thread was last
\* if that slot still exists, otherwise any lane.
RemoteLanes(t) ==
  IF preferred[t] # UINT_MAX /\ preferred[t] * Shard < count
  THEN SlotLanes(preferred[t] * Shard)
  ELSE Lanes

PushStart(p, t) ==
  /\ pc[p] = "out"
  /\ t \notin queued /\ \A q \in Procs : thr[q] # t
  /\ \E l \in RemoteLanes(t) \cup (IF p \in members THEN SlotLanes(rdqid[p]) ELSE {}) :
       /\ ~locked[l]
       /\ locked' = [locked EXCEPT ![l] = TRUE]
       /\ lane' = [lane EXCEPT ![p] = l]
  /\ pc' = [pc EXCEPT ![p] = "push"]
  /\ thr' = [thr EXCEPT ![p] = t]
  /\ UNCHANGED <<queueVars, lanes, preferred, left, history>>

PushLink(p) ==
  /\ pc[p] = "push"
  /\ lanes' = Linked(lanes, lane[p], thr[p])
  /\ queued' = queued \cup {thr[p]}
  /\ pc' = [pc EXCEPT ![p] = "pushed"]
  /\ thr' = [thr EXCEPT ![p] = NoThread]
  /\ UNCHANGED <<queueVars, locked, preferred, lane, left, since, contended>>

PushUnlock(p) ==
  /\ pc[p] = "pushed"
  /\ locked' = [locked EXCEPT ![lane[p]] = FALSE]
  /\ Return(p)
  /\ UNCHANGED <<queueVars, lanes, preferred, queued>>
-----------------------------------------------------------------------------
(***************************************************************************)
(* try_pop, on one lane for pop_fast and pop_slow, on all of them for      *)
(* pop_search.                                                             *)
(***************************************************************************)
PopStart(p) ==
  /\ p \in members /\ pc[p] = "out"
  /\ pc' = [pc EXCEPT ![p] = "try"]
  /\ \E l \in Lanes : lane' = [lane EXCEPT ![p] = l]
  /\ left' = [left EXCEPT ![p] = 1]
  /\ UNCHANGED <<queueVars, lanes, locked, preferred, thr, history>>

\* Mutant: the last lane is not visited.
SearchStartShort(p) ==
  /\ p \in members /\ pc[p] = "out"
  /\ pc' = [pc EXCEPT ![p] = "try"]
  /\ \E l \in Lanes : lane' = [lane EXCEPT ![p] = l]
  /\ left' = [left EXCEPT ![p] = count - 1]
  /\ since' = [since EXCEPT ![p] = queued]
  /\ UNCHANGED <<queueVars, lanes, locked, preferred, thr, queued, contended>>

SearchStart(p) ==
  /\ p \in members /\ pc[p] = "out"
  /\ pc' = [pc EXCEPT ![p] = "try"]
  /\ \E l \in Lanes : lane' = [lane EXCEPT ![p] = l]
  /\ left' = [left EXCEPT ![p] = count]
  /\ since' = [since EXCEPT ![p] = queued]
  /\ UNCHANGED <<queueVars, lanes, locked, preferred, thr, queued, contended>>

\* This lane gives nothing: the next one, or null.
NextLane(p) ==
  /\ pc' = [pc EXCEPT ![p] = IF left[p] = 1 THEN "none" ELSE "try"]
  /\ lane' = [lane EXCEPT ![p] = IF left[p] = 1 THEN 0 ELSE (@ + 1) % count]
  /\ left' = [left EXCEPT ![p] = @ - 1]

TryEmpty(p) ==
  /\ pc[p] = "try"
  /\ IF IsEmpty(lanes, lane[p]) THEN NextLane(p)
     ELSE pc' = [pc EXCEPT ![p] = "lock"] /\ UNCHANGED <<lane, left>>
  /\ UNCHANGED <<queueVars, lanes, locked, preferred, thr, history>>

TryLock(p) ==
  /\ pc[p] = "lock"
  /\ IF locked[lane[p]]
     THEN NextLane(p) /\ contended' = [contended EXCEPT ![p] = @ \/ since[p] # {}] /\ UNCHANGED locked
     ELSE /\ locked' = [locked EXCEPT ![lane[p]] = TRUE]
          /\ pc' = [pc EXCEPT ![p] = "pop"]
          /\ UNCHANGED <<lane, left, contended>>
  /\ UNCHANGED <<queueVars, lanes, preferred, thr, queued, since>>

\* With the lock: empty after all.
PopEmpty(p) ==
  /\ pc[p] = "pop" /\ IsEmpty(lanes, lane[p])
  /\ locked' = [locked EXCEPT ![lane[p]] = FALSE]
  /\ NextLane(p)
  /\ UNCHANGED <<queueVars, lanes, preferred, thr, history>>

Pop(p) ==
  LET t == lanes.anchor[lane[p]] IN
  /\ pc[p] = "pop" /\ ~IsEmpty(lanes, lane[p])
  /\ lanes' = Unlinked(lanes, lane[p])
  /\ thr' = [thr EXCEPT ![p] = t]
  /\ queued' = queued \ {t}
  /\ since' = [q \in Procs |-> IF q = p THEN {} ELSE since[q] \ {t}]
  /\ pc' = [pc EXCEPT ![p] = "popped"]
  /\ UNCHANGED <<queueVars, locked, preferred, lane, left, contended>>

PopUnlock(p) ==
  /\ pc[p] = "popped"
  /\ locked' = [locked EXCEPT ![lane[p]] = FALSE]
  /\ preferred' = [preferred EXCEPT ![thr[p]] = lane[p] \div Shard]
  /\ Return(p)
  /\ UNCHANGED <<queueVars, lanes, queued>>

ReturnNone(p) ==
  /\ pc[p] = "none"
  /\ Return(p)
  /\ UNCHANGED <<queueVars, lanes, locked, preferred, queued>>
-----------------------------------------------------------------------------
(***************************************************************************)
(* register_tls and unregister_tls: the processor changes the array with   *)
(* nobody else inside.                                                     *)
(***************************************************************************)
WriterAlone == \A p \in Procs : pc[p] = "out"

\* reassign_cltr_id: in the order of the lists of processors.
Reassigned(ms) ==
  \E f \in [ms -> {Shard * i : i \in 0 .. Cardinality(ms) - 1}] :
    /\ IsInjective(f)
    /\ rdqid' = [p \in Procs |-> IF p \in ms THEN f[p] ELSE 0]

\* The array has n lanes now, new ones and those that were copied.  If it has
\* moved, empty lanes point to their former address.
Reallocated(ls, n, moved) ==
  [ls EXCEPT !.prev = [l \in AllLanes |-> IF l >= MinOf(count, n) THEN "self"
                                          ELSE IF moved /\ @[l] = "self" THEN "stale" ELSE @[l]]]

\* Mutant: the array is used as it is.
FixedNot(ls, n) == ls

\* fix: the empty lanes point to themselves again.
Fixed(ls, n) ==
  [ls EXCEPT !.prev = [l \in AllLanes |-> IF l < n /\ IsEmpty(ls, l) THEN "self" ELSE @[l]]]

Join(p) ==
  /\ WriterAlone /\ p \notin members
  /\ members' = members \cup {p}
  /\ count' = LaneCount(Cardinality(members'))
  /\ IF count' = count THEN UNCHANGED lanes
     ELSE \E moved \in BOOLEAN : lanes' = Fixed(Reallocated(lanes, count', moved), count')
  /\ Reassigned(members')
  /\ UNCHANGED <<locked, preferred, opVars, history>>

\* Mutant: one thread per lane is pushed again.
DisplacedFirst(n) ==
  FlattenSeq([i \in 1 .. count - n |-> IF IsEmpty(lanes, n + i - 1) THEN <<>> ELSE <<lanes.anchor[n + i - 1]>>])

\* The threads of the lanes that go away, in the order they are pushed again.
Displaced(n) ==
  FlattenSeq([i \in 1 .. count - n |-> ThreadsOf(lanes, n + i - 1)])

Repushed(ls, ts, to) ==
  LET pushed[i \in 0 .. Len(ts)] ==
        IF i = 0 THEN ls ELSE Linked(pushed[i - 1], to[ts[i]], ts[i])
  IN  pushed[Len(ts)]

Emptied(ls, n) ==
  [ls EXCEPT !.anchor = [l \in AllLanes |-> IF l < n THEN @[l] ELSE NoThread],
             !.next = [t \in Threads |-> IF \E l \in Lanes : l >= n /\ t \in ToSet(ThreadsOf(ls, l))
                                         THEN NoThread ELSE @[t]]]

Leave(p) ==
  /\ WriterAlone /\ p \in members
  /\ members' = members \ {p}
  /\ count' = LaneCount(Cardinality(members'))
  /\ LET ts == Displaced(count') IN
     \E to \in [ToSet(ts) -> 0 .. count' - 1], moved \in BOOLEAN :
       /\ \A t \in ToSet(ts) : preferred[t] # UINT_MAX /\ preferred[t] * Shard < count' =>
                                 to[t] \in SlotLanes(preferred[t] * Shard)
       /\ lanes' = Fixed(Reallocated(Repushed(Emptied(lanes, count'), ts, to), count', moved), count')
  /\ Reassigned(members')
  /\ UNCHANGED <<locked, preferred, opVars, history>>
-----------------------------------------------------------------------------
Next ==
  \E p \in Procs :
    \/ \E t \in Threads : PushStart(p, t)
    \/ PushLink(p) \/ PushUnlock(p)
    \/ PopStart(p) \/ SearchStart(p) \/ TryEmpty(p) \/ TryLock(p)
    \/ PopEmpty(p) \/ Pop(p) \/ PopUnlock(p) \/ ReturnNone(p)
    \/ Join(p) \/ Leave(p)

Spec == Init /\ [][Next]_vars
-----------------------------------------------------------------------------
(***************************************************************************)
(* Properties.                                                             *)
(***************************************************************************)
\* The lists, followed link by link, are first-in first-out lanes that lose
\* no thread when a processor joins or leaves.
Fifos == INSTANCE LaneFifos WITH fifo <- [l \in Lanes |-> ThreadsOf(lanes, l)]

ImplementsFifos == Fifos!Spec

\* check_readyQ, at every moment a lane is not locked: the lists and their
\* end pointers agree, and hold exactly the threads that are queued.
ListsAgree ==
  /\ \A l \in Lanes : ~locked[l] =>
       lanes.prev[l] = IF IsEmpty(lanes, l) THEN "self" ELSE Last(ThreadsOf(lanes, l))
  /\ queued = UNION {ToSet(ThreadsOf(lanes, l)) : l \in Lanes}

\* Every lane a processor works on exists, and its own lanes are its own,
\* although the array shrinks and slots are given out again in between.
LanesInBounds ==
  /\ \A p \in Procs : pc[p] \notin {"out", "none"} => lane[p] < count
  /\ \A p \in members : rdqid[p] + Shard <= count
  /\ \A p, q \in members : SlotLanes(rdqid[p]) \cap SlotLanes(rdqid[q]) # {} => p = q

\* Both parts, in every state between the steps of the processors that push,
\* pop, help, join and leave (ready_queue.cfa:68-263, cluster.cfa:268-412).
LanesIntact == ListsAgree /\ LanesInBounds

\* A search that returns null although a thread was queued all the time met a
\* lane that was locked: threads do not move under a search.  It is not
\* "guaranteed to find any threads added before this call" (private.hfa:367).
SearchMissesOnlyLocked ==
  \A p \in Procs : pc[p] = "none" /\ since[p] # {} => contended[p]
=============================================================================
