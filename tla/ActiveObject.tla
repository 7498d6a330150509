---------------------------- MODULE ActiveObject ----------------------------
(***************************************************************************)
(* The active object of pattern_library/active_object.hpp: callers enqueue *)
(* method objects and get futures, one dispatcher thread takes the method  *)
(* objects out of the queue and runs them, the owner destroys the object.  *)
(*                                                                         *)
(* All accesses to the queue are made under queue_mutex and neither side   *)
(* keeps the mutex across anything another thread can observe, so what one *)
(* thread does between taking and releasing it is one step.  `done' is     *)
(* read and written without a mutex: each access is a step of its own.     *)
(***************************************************************************)
EXTENDS Integers, SequencesExt

CONSTANTS
  Calls,      \* the calls made on the object, each once
  None,       \* "no method object"
  Returns,    \* TRUE: ActiveObject<R(Args...)>, FALSE: the void one
  MayThrow,   \* TRUE: the method may throw
  LateCalls   \* TRUE: callers may still call once the destructor has begun,
              \* as pl_main.cpp's reactor thread can during static destruction

ASSUME ActiveObjectAssumption ==
  /\ None \notin Calls
  /\ Returns \in BOOLEAN /\ MayThrow \in BOOLEAN /\ LateCalls \in BOOLEAN

VARIABLES
  done,      \* the object's flag `done'
  queue,     \* the calls whose method objects are in the queue
  pc,        \* where the dispatcher thread is
  obj,       \* the call whose method object the dispatcher has popped
  promise,   \* of each call: "none", "pending", "value" or "broken"
  owner,     \* where the owner of the object is
  log,       \* history: the calls that were enqueued, in order
  ran,       \* history: the calls whose method returned, in order
  crashed    \* an escaped exception or undefined behaviour ended the process

vars == <<done, queue, pc, obj, promise, owner, log, ran, crashed>>

PCs == {"while", "lock", "waiting", "notified", "timed_out", "dispatch",
        "exited"}
Owners == {"using", "joining", "joined", "gone"}

-----------------------------------------------------------------------------
(* Callers.                                                                 *)

\* Mutant: nobody is notified.
InvokeSilently(c) ==
  /\ promise[c] = "none"
  /\ owner = "using" \/ (LateCalls /\ owner \in {"joining", "joined"})
  /\ queue' = Append(queue, c)
  /\ promise' = [promise EXCEPT ![c] = "pending"]
  /\ log' = Append(log, c)
  /\ UNCHANGED <<done, pc, obj, owner, ran, crashed>>

\* Mutant: the newest call goes first.
InvokeAtFront(c) ==
  /\ promise[c] = "none"
  /\ owner = "using" \/ (LateCalls /\ owner \in {"joining", "joined"})
  /\ queue' = <<c>> \o queue
  /\ promise' = [promise EXCEPT ![c] = "pending"]
  /\ log' = Append(log, c)
  /\ pc' = IF pc = "waiting" THEN "notified" ELSE pc
  /\ UNCHANGED <<done, obj, owner, ran, crashed>>

\* invoke(): enqueue a method object, notify_all, return its future.
Invoke(c) ==
  /\ promise[c] = "none"
  /\ owner = "using" \/ (LateCalls /\ owner \in {"joining", "joined"})
  /\ queue' = Append(queue, c)
  /\ promise' = [promise EXCEPT ![c] = "pending"]
  /\ log' = Append(log, c)
  /\ pc' = IF pc = "waiting" THEN "notified" ELSE pc
  /\ UNCHANGED <<done, obj, owner, ran, crashed>>

\* A call on an object whose members are destroyed.
InvokeDestroyed(c) ==
  /\ promise[c] = "none"
  /\ LateCalls /\ owner = "gone"
  /\ crashed' = TRUE
  /\ UNCHANGED <<done, queue, pc, obj, promise, owner, log, ran>>

-----------------------------------------------------------------------------
(* processing_loop(), the dispatcher thread.                                *)

\* while (!done)
While ==
  /\ pc = "while"
  /\ pc' = IF done THEN "exited" ELSE "lock"
  /\ UNCHANGED <<done, queue, obj, promise, owner, log, ran, crashed>>

\* Mutant: front() without pop().
TakeCopy ==
  /\ obj' = Head(queue)
  /\ pc' = "dispatch"
  /\ UNCHANGED queue

\* Move the front of the queue out, pop it, release the mutex.
Take ==
  /\ obj' = Head(queue)
  /\ queue' = Tail(queue)
  /\ pc' = "dispatch"

\* Take queue_mutex; with nothing to pop, wait_for() releases it again.
Lock ==
  /\ pc = "lock"
  /\ \/ queue = << >> /\ pc' = "waiting" /\ UNCHANGED <<queue, obj>>
     \/ queue # << >> /\ Take
  /\ UNCHANGED <<done, promise, owner, log, ran, crashed>>

\* Mutant: wait() instead of wait_for(), it never times out.
NoTimeout == FALSE /\ UNCHANGED vars

\* wait_for() gives up after ACTIVE_OBJECT_WAIT_TIMEOUT.
Timeout ==
  /\ pc = "waiting"
  /\ pc' = "timed_out"
  /\ UNCHANGED <<done, queue, obj, promise, owner, log, ran, crashed>>

\* Back from wait_for() with the mutex: pop what is there, or `continue'.  A
\* spurious wakeup finds the queue empty and waits again: no step.
Resume ==
  /\ \/ pc \in {"notified", "timed_out"} /\ queue # << >> /\ Take
     \/ pc = "timed_out" /\ queue = << >> /\ pc' = "while"
        /\ UNCHANGED <<queue, obj>>
  /\ UNCHANGED <<done, promise, owner, log, ran, crashed>>

\* Mutant: obj outlives the dispatch.
DispatchKeepsObj ==
  /\ pc = "dispatch"
  /\ promise' = [promise EXCEPT ![obj] = IF Returns THEN "value"
                                                    ELSE "broken"]
  /\ ran' = Append(ran, obj)
  /\ pc' = "while"
  /\ UNCHANGED <<done, queue, obj, owner, log, crashed>>

\* obj.dispatch(func), and the end of obj's life.  The void specialisation
\* does not touch the promise, which is therefore broken when obj dies.
Dispatch ==
  /\ pc = "dispatch"
  /\ promise' = [promise EXCEPT ![obj] = IF Returns THEN "value"
                                                    ELSE "broken"]
  /\ ran' = Append(ran, obj)
  /\ obj' = None
  /\ pc' = "while"
  /\ UNCHANGED <<done, queue, owner, log, crashed>>

\* The method throws: nothing catches it, the process terminates.
DispatchThrows ==
  /\ MayThrow
  /\ pc = "dispatch"
  /\ crashed' = TRUE
  /\ UNCHANGED <<done, queue, pc, obj, promise, owner, log, ran>>

-----------------------------------------------------------------------------
(* ~ActiveObject().                                                         *)

SetDone ==
  /\ owner = "using"
  /\ done' = TRUE
  /\ owner' = "joining"
  /\ UNCHANGED <<queue, pc, obj, promise, log, ran, crashed>>

Join ==
  /\ owner = "joining"
  /\ pc = "exited"
  /\ owner' = "joined"
  /\ UNCHANGED <<done, queue, pc, obj, promise, log, ran, crashed>>

\* Mutant: the promises of the queue are never destroyed.
LeakMembers ==
  /\ owner = "joined"
  /\ queue' = << >>
  /\ owner' = "gone"
  /\ UNCHANGED <<done, pc, obj, promise, log, ran, crashed>>

\* The members die, with them the promises still in the queue.
DestroyMembers ==
  /\ owner = "joined"
  /\ promise' = [c \in Calls |-> IF c \in ToSet(queue) THEN "broken"
                                                       ELSE promise[c]]
  /\ queue' = << >>
  /\ owner' = "gone"
  /\ UNCHANGED <<done, pc, obj, log, ran, crashed>>

-----------------------------------------------------------------------------
Init ==
  /\ done = FALSE
  /\ queue = << >>
  /\ pc = "while"
  /\ obj = None
  /\ promise = [c \in Calls |-> "none"]
  /\ owner = "using"
  /\ log = << >>
  /\ ran = << >>
  /\ crashed = FALSE

Dispatcher == While \/ Lock \/ Timeout \/ Resume \/ Dispatch

Next ==
  /\ ~crashed
  /\ \/ \E c \in Calls : Invoke(c) \/ InvokeDestroyed(c)
     \/ Dispatcher \/ DispatchThrows
     \/ SetDone \/ Join \/ DestroyMembers

Spec == Init /\ [][Next]_vars

\* The dispatcher runs, wait_for() times out, a destructor that has begun goes
\* on; callers need not call and the owner need not destroy the object.
FairSpec ==
  /\ Spec
  /\ WF_vars(~crashed /\ Dispatcher)
  /\ WF_vars(~crashed /\ (Join \/ DestroyMembers))

-----------------------------------------------------------------------------
(* Properties.                                                              *)

InHand == IF obj = None THEN << >> ELSE <<obj>>

\* Types, and that there is a method object exactly while it is dispatched.
TypeOK ==
  /\ done \in BOOLEAN /\ crashed \in BOOLEAN
  /\ queue \in Seq(Calls) /\ log \in Seq(Calls) /\ ran \in Seq(Calls)
  /\ pc \in PCs
  /\ obj \in Calls \cup {None}
  /\ obj # None <=> pc = "dispatch"
  /\ promise \in [Calls -> {"none", "pending", "value", "broken"}]
  /\ owner \in Owners

\* Calls run one at a time, in the order in which they were enqueued, none is
\* lost and none runs twice: enqueued = returned, in hand, still queued.
FifoOrder ==
  \/ log = ran \o InHand \o queue
  \/ owner = "gone" /\ IsPrefix(ran, log)

\* The dispatcher never waits while there is work: invoke() enqueues and
\* notifies under the mutex wait_for() gives up.
NoSleepOnWork == pc = "waiting" => queue = << >>

\* A future is unresolved only as long as something can still resolve it: a
\* caller in wait() is never left behind, not by the destructor either.
NoStrandedFuture ==
  \A c \in Calls : promise[c] = "pending" => c \in ToSet(queue) \/ c = obj

(* What makes these inductive: a call has one method object, in the queue or  *)
(* in hand, exactly as long as its future is unresolved, and once the         *)
(* destructor has joined the dispatcher there is nothing in hand.             *)
MethodObjectInv ==
  /\ IsInjective(queue)
  /\ obj \notin ToSet(queue)
  /\ \A c \in ToSet(queue) : promise[c] = "pending"
  /\ obj # None => promise[obj] = "pending"
  /\ \A c \in ToSet(ran) : promise[c] \in {"value", "broken"}
  /\ owner \in {"joined", "gone"} => pc = "exited"
  /\ owner = "gone" => queue = << >>

IInv == /\ TypeOK /\ FifoOrder /\ NoSleepOnWork /\ NoStrandedFuture
        /\ MethodObjectInv

\* Progress: every call that was enqueued gets its future resolved.
FuturesResolve ==
  \A c \in Calls :
    promise[c] = "pending" ~> (promise[c] \in {"value", "broken"} \/ crashed)

\* ~ActiveObject() does not notify; it returns all the same, because the
\* dispatcher looks at `done' again after each timeout.
DestructorReturns == owner = "joining" ~> (owner = "gone" \/ crashed)

Executor == INSTANCE SerialExecutor WITH
  Results <- IF Returns THEN {"value"} ELSE {"broken"},
  started <- Len(ran) + Len(InHand),
  state   <- [c \in Calls |-> IF promise[c] = "none" THEN "new"
                              ELSE IF c = obj THEN "running"
                              ELSE promise[c]],
  closed  <- owner = "gone"

\* The active object implements the serial executor.
ImplementsExecutor == Executor!Spec

=============================================================================
