------------------------------- MODULE Futures -------------------------------
(***************************************************************************)
(* oneshot and future_t of concurrency/kernel/fwd.hfa: one thread, the     *)
(* client, waits for one or for any of several futures, each of which some *)
(* server fulfils once per use.  A future is one word: a state, or the     *)
(* address of the oneshot the client waits on, which is a local variable   *)
(* of wait and wait_any.  A oneshot is one word as well: a state, or the   *)
(* thread that is parked on it.                                            *)
(*                                                                         *)
(* An atomic instruction is a step of its own.  A read that a compare-and- *)
(* swap confirms, and a loop that spins on the word until it changes, are  *)
(* one step with it.  The client's frames all lie at one address, so that  *)
(* a pointer to the oneshot of an earlier call is one to the next call's.  *)
(* park and unpark are those of module ParkUnpark.  The names of the       *)
(* specification start with Future: OnceProofs extends Once and this one.  *)
(***************************************************************************)
EXTENDS FiniteSets

CONSTANTS Futures

VARIABLES
  ptr,       \* future -> its word; "ctx" is the address of the oneshot
  life,      \* future -> "free", "client", or "abandoned" by the client
  server,    \* future -> what is left to do for the server that fulfils it
  client,    \* where the client stands in wait or wait_any
  op,        \* which of the two it is
  group,     \* the futures it waits for
  todo,      \* those it has still to set up, or to retract
  oneshot,   \* the word of the oneshot, "gone" when no call is in progress
  found,     \* the result of wait_any, as a set: empty while not assigned
  ready,     \* the futures that the client knows to be fulfilled
  permit,    \* whether the client was unparked and has not parked since
  leaked     \* whether a wait_any has returned with futures still set up

callVars == <<client, op, group, todo, oneshot, found>>
futureVars == <<ptr, life, server, callVars, ready, permit, leaked>>

Words == {"ARMED", "FULFILLED", "PROGRESS", "ABANDONED", "ctx"}

FutureTypeOK ==
  /\ ptr \in [Futures -> Words]
  /\ life \in [Futures -> {"free", "client", "abandoned"}]
  /\ server \in [Futures -> {"done", "asked", "post", "unpark", "store", "storeFirst", "unparkLast"}]
  /\ client \in {"run", "setup", "wait", "parked", "back"}
  /\ op \in {"wait", "wait_any"}
  /\ group \in SUBSET Futures /\ todo \in SUBSET group
  /\ oneshot \in {"gone", "ARMED", "FULFILLED", "thread"}
  /\ found \in SUBSET group
  /\ ready \in SUBSET Futures
  /\ permit \in BOOLEAN /\ leaked \in BOOLEAN

FutureInit ==
  /\ ptr = [f \in Futures |-> "ARMED"]
  /\ life = [f \in Futures |-> "free"]
  /\ server = [f \in Futures |-> "done"]
  /\ client = "run" /\ op = "wait"
  /\ group = {} /\ todo = {} /\ found = {}
  /\ oneshot = "gone"
  /\ ready = {}
  /\ permit = FALSE /\ leaked = FALSE

SetWord(w, f, v) == w' = [w EXCEPT ![f] = v]

-----------------------------------------------------------------------------
(* The client between its waits.                                           *)

\* A new future is handed to a server.
New(f) ==
  /\ client = "run" /\ life[f] = "free"
  /\ SetWord(life, f, "client") /\ SetWord(ptr, f, "ARMED") /\ SetWord(server, f, "asked")
  /\ UNCHANGED <<callVars, ready, permit, leaked>>

\* reset, and the next request to a server: the future was fulfilled.
Reset(f) ==
  /\ client = "run" /\ f \in ready
  /\ SetWord(ptr, f, "ARMED") /\ SetWord(server, f, "asked")
  /\ ready' = ready \ {f}
  /\ UNCHANGED <<life, callVars, permit, leaked>>

\* available returns true.
Available(f) ==
  /\ client = "run" /\ life[f] = "client" /\ ptr[f] = "FULFILLED"
  /\ ready' = ready \cup {f}
  /\ UNCHANGED <<ptr, life, server, callVars, permit, leaked>>

\* The client deletes a future that it knows to be fulfilled.
Delete(f) ==
  /\ client = "run" /\ f \in ready
  /\ SetWord(life, f, "free")
  /\ ready' = ready \ {f}
  /\ UNCHANGED <<ptr, server, callVars, permit, leaked>>

\* Mutant: the client deletes the future also when the server will.
AbandonFrees(f) ==
  /\ client = "run" /\ life[f] = "client"
  /\ ptr[f] # "PROGRESS"
  /\ SetWord(ptr, f, "ABANDONED") /\ SetWord(life, f, "free")
  /\ ready' = ready \ {f}
  /\ UNCHANGED <<server, callVars, permit, leaked>>

\* abandon: the server deletes the future, unless it is fulfilled already or
\* about to be, which is waited for.
Abandon(f) ==
  /\ client = "run" /\ life[f] = "client"
  /\ ptr[f] # "PROGRESS"
  /\ SetWord(ptr, f, "ABANDONED")
  /\ SetWord(life, f, IF ptr[f] = "ARMED" THEN "abandoned" ELSE "free")
  /\ ready' = ready \ {f}
  /\ UNCHANGED <<server, callVars, permit, leaked>>

-----------------------------------------------------------------------------
(* wait and wait_any.                                                      *)

BeginWait(which, fs) ==
  /\ client = "run" /\ \A f \in fs : life[f] = "client"
  /\ client' = "setup" /\ op' = which
  /\ group' = fs /\ todo' = fs /\ found' = {}
  /\ oneshot' = "ARMED"
  /\ UNCHANGED <<ptr, life, server, ready, permit, leaked>>

Wait(f) == BeginWait("wait", {f})
WaitAny(fs) == BeginWait("wait_any", fs)

\* The call returns fs, and its oneshot is no more.
Finish(fs) ==
  /\ client' = "run" /\ oneshot' = "gone"
  /\ group' = {} /\ todo' = {} /\ found' = {}
  /\ ready' = ready \cup fs
  /\ UNCHANGED op

\* setup, the future being fulfilled: return at once.
SetupReady(f) ==
  /\ client = "setup" /\ f \in todo
  /\ ptr[f] = "FULFILLED"
  /\ Finish({f})
  /\ leaked' = (leaked \/ todo # group)
  /\ UNCHANGED <<ptr, life, server, permit>>

Setup(f) ==
  /\ client = "setup" /\ f \in todo
  /\ ptr[f] # "FULFILLED"
  /\ SetWord(ptr, f, "ctx")
  /\ todo' = todo \ {f}
  /\ client' = IF todo' = {} THEN "wait" ELSE "setup"
  /\ UNCHANGED <<life, server, op, group, oneshot, found, ready, permit, leaked>>

\* Mutant: the thread goes to sleep without a look at the word.
OneshotWaitBlind ==
  /\ client = "wait" /\ client' = "parked" /\ oneshot' = "thread"
  /\ UNCHANGED <<ptr, life, server, op, group, todo, found, ready, permit, leaked>>

\* wait on the oneshot: it is fulfilled, or the thread goes to sleep.
OneshotWait ==
  /\ client = "wait"
  /\ IF oneshot = "FULFILLED" THEN client' = "back" /\ todo' = group /\ UNCHANGED oneshot
                              ELSE client' = "parked" /\ oneshot' = "thread" /\ UNCHANGED todo
  /\ UNCHANGED <<ptr, life, server, op, group, found, ready, permit, leaked>>

\* park returns.
Return ==
  /\ client = "parked" /\ permit
  /\ permit' = FALSE
  /\ client' = "back" /\ todo' = group
  /\ UNCHANGED <<ptr, life, server, op, group, oneshot, found, ready, leaked>>

\* wait spins until the server has stored FULFILLED.
WaitReturns(f) ==
  /\ client = "back" /\ op = "wait" /\ f \in todo
  /\ ptr[f] # "PROGRESS"
  /\ Finish({f})
  /\ UNCHANGED <<ptr, life, server, permit, leaked>>

\* Mutant: a server that has the oneshot is not waited for.
RetractHasty(f) ==
  /\ client = "back" /\ op = "wait_any" /\ f \in todo
  /\ ptr' = [ptr EXCEPT ![f] = IF @ = "ctx" THEN "ARMED" ELSE @]
  /\ LET result == IF ptr[f] \in {"FULFILLED", "PROGRESS"} THEN {f} ELSE found
     IN  IF todo = {f} THEN Finish(result)
         ELSE /\ found' = result /\ todo' = todo \ {f}
              /\ UNCHANGED <<client, op, group, oneshot, ready>>
  /\ UNCHANGED <<life, server, permit, leaked>>

\* retract takes the oneshot back, or waits until the server has stored
\* FULFILLED.  The result is the last future that was fulfilled.
Retract(f) ==
  /\ client = "back" /\ op = "wait_any" /\ f \in todo
  /\ ptr[f] # "PROGRESS"
  /\ ptr' = [ptr EXCEPT ![f] = IF @ = "ctx" THEN "ARMED" ELSE @]
  /\ LET result == IF ptr[f] = "FULFILLED" THEN {f} ELSE found
     IN  IF todo = {f} THEN Finish(result)
         ELSE /\ found' = result /\ todo' = todo \ {f}
              /\ UNCHANGED <<client, op, group, oneshot, ready>>
  /\ UNCHANGED <<life, server, permit, leaked>>

-----------------------------------------------------------------------------
(* The server of a future: fulfil.                                         *)

\* The compare-and-swap of fulfil: PROGRESS if there is a oneshot to post.
Fulfil(f) ==
  /\ server[f] = "asked"
  /\ \/ /\ ptr[f] = "ABANDONED"
        /\ SetWord(life, f, "free") /\ SetWord(server, f, "done")
        /\ UNCHANGED ptr
     \/ /\ ptr[f] = "ARMED"
        /\ SetWord(ptr, f, "FULFILLED") /\ SetWord(server, f, "done")
        /\ UNCHANGED life
     \/ /\ ptr[f] = "ctx"
        /\ SetWord(ptr, f, "PROGRESS") /\ SetWord(server, f, "post")
        /\ UNCHANGED life
  /\ UNCHANGED <<callVars, ready, permit, leaked>>

\* Mutant: post unparks whether a thread sleeps or not.
PostUnparks(f) ==
  /\ server[f] = "post"
  /\ oneshot' = IF oneshot = "gone" THEN "gone" ELSE "FULFILLED"
  /\ SetWord(server, f, "unpark")
  /\ UNCHANGED <<ptr, life, client, op, group, todo, found, ready, permit, leaked>>

\* post exchanges the word of the oneshot.  Who fulfils with do_unpark = false
\* stores FULFILLED first and unparks the thread afterwards.
Post(f) ==
  /\ server[f] = "post"
  /\ oneshot' = IF oneshot = "gone" THEN "gone" ELSE "FULFILLED"
  /\ \E next \in IF oneshot = "thread" THEN {"unpark", "storeFirst"} ELSE {"store"} :
       SetWord(server, f, next)
  /\ UNCHANGED <<ptr, life, client, op, group, todo, found, ready, permit, leaked>>

Unpark(f) ==
  /\ server[f] \in {"unpark", "unparkLast"}
  /\ permit' = TRUE
  /\ SetWord(server, f, IF server[f] = "unpark" THEN "store" ELSE "done")
  /\ UNCHANGED <<ptr, life, callVars, ready, leaked>>

Store(f) ==
  /\ server[f] \in {"store", "storeFirst"}
  /\ SetWord(ptr, f, "FULFILLED")
  /\ SetWord(server, f, IF server[f] = "store" THEN "done" ELSE "unparkLast")
  /\ UNCHANGED <<life, callVars, ready, permit, leaked>>

-----------------------------------------------------------------------------
WaitStep(f) ==   \* the steps that a call is bound to take
  SetupReady(f) \/ Setup(f) \/ WaitReturns(f) \/ Retract(f)

Serve(f) == Fulfil(f) \/ Post(f) \/ Unpark(f) \/ Store(f)

FutureNext ==
  \/ \E f \in Futures :
       \/ New(f) \/ Reset(f) \/ Available(f) \/ Delete(f) \/ Abandon(f)
       \/ Wait(f) \/ WaitStep(f) \/ Serve(f)
  \/ \E fs \in (SUBSET Futures) \ {{}} : WaitAny(fs)
  \/ OneshotWait \/ Return

FutureSpec == FutureInit /\ [][FutureNext]_futureVars

\* Servers fulfil what they were asked for, and threads that can run do so.
FutureFairness ==
  /\ \A f \in Futures : WF_futureVars(Serve(f))
  /\ WF_futureVars(\E f \in Futures : WaitStep(f)) /\ WF_futureVars(OneshotWait) /\ WF_futureVars(Return)

FairFutureSpec == FutureSpec /\ FutureFairness

-----------------------------------------------------------------------------
(* A server posts only to the oneshot of a call that is in progress and    *)
(* waits for its future (fwd.hfa:354, where the oneshot is a local of the  *)
(* client): the call does not return while somebody still holds its        *)
(* address.                                                                *)
PostsLive ==
  \A f \in Futures : server[f] = "post" => oneshot # "gone" /\ f \in group

(* As long as no wait_any has returned with other futures set up, that is  *)
(* so: setup, retract and the spinning on PROGRESS leave no address        *)
(* behind.                                                                 *)
PostsLiveUnlessLeaked == leaked \/ PostsLive

(* Client and server agree on who deletes a future: it is there as long as *)
(* the server has something to do with it, an abandoned one is there only  *)
(* as long (fwd.hfa:304-358), and what the client takes to be fulfilled    *)
(* may be deleted at once (fwd.hfa:286-288).                               *)
DeletedOnce ==
  leaked \/ \A f \in Futures :
    /\ server[f] \notin {"done", "unparkLast"} => life[f] # "free"
    /\ life[f] = "abandoned" => server[f] = "asked"
    /\ f \in ready => server[f] = "done" /\ ptr[f] = "FULFILLED"

(* Whoever wakes up in wait or wait_any finds the oneshot fulfilled, and   *)
(* one of its futures fulfilled or about to be: wait_any never returns an  *)
(* index that was not assigned (fwd.hfa:202, :377, :399-405), and nobody   *)
(* is left with a permit that its next park would take for another's.      *)
WakesToResult ==
  leaked \/
    /\ client = "back" => /\ oneshot = "FULFILLED"
                          /\ found # {} \/ \E f \in todo : ptr[f] \in {"PROGRESS", "FULFILLED"}
    /\ permit => client = "parked" /\ oneshot = "FULFILLED"

(* Every wait and wait_any ends, because the server of every future does   *)
(* its work.                                                               *)
WaitEnds == client = "setup" ~> client = "run" \/ leaked
=============================================================================
