--------------------------- MODULE LeaderFollower ---------------------------
(***************************************************************************)
(* The leader/follower thread pool of pattern_library/leader_follower.cpp, *)
(* driven the way main.cpp drives it: one main thread accepts connections, *)
(* registers them with add_fd and finally destroys the pool; the handler   *)
(* that the pool calls is main.cpp's message_handler.                      *)
(*                                                                         *)
(* A step is what one thread does between two points at which another      *)
(* thread can observe it: taking a mutex, releasing it, or touching shared *)
(* state without one.  The flags `running' and `has_leader' are written by *)
(* the destructor without any mutex, so each access to them is a step of   *)
(* its own.                                                                *)
(***************************************************************************)
EXTENDS Integers, SequencesExt

CONSTANTS
  Threads,    \* the threads of the pool
  Fds,        \* the file descriptors the kernel can hand out
  None,       \* "no owner" of a mutex, "no descriptor"
  Outcomes,   \* the ways a handler may end, see HandlerRead
  Destroyed   \* TRUE: the main thread may destroy the pool

ASSUME PoolAssumption ==
  /\ Fds \subseteq Nat
  /\ None \notin Threads \cup Fds
  /\ Outcomes \subseteq {"command", "exit", "hangup", "throw"}
  /\ Destroyed \in BOOLEAN

VARIABLES
  running,        \* the pool's flag `running'
  has_leader,     \* the pool's flag `has_leader'
  leader_mutex,   \* the thread that owns leader_mutex, or None
  vectors_mutex,  \* the thread that owns vectors_mutex, or None
  pfds,           \* the registered descriptors (pfds, handlers, fds_count)
  pc,             \* where each thread of the pool is
  idx,            \* lead()'s loop index i when it found an event
  polled,         \* history: the descriptor on which lead() found the event
  arg,            \* the descriptor the running handler was called with
  mpc,            \* where the main thread is
  accepted,       \* the descriptor main is about to register, or None
  open,           \* kernel: the descriptors that are open
  readable,       \* kernel: the open descriptors with input or end of file
  crashed         \* undefined behaviour or an uncaught exception has ended
                  \* the process

flagVars   == <<running, has_leader>>
localVars  == <<idx, polled, arg>>
mainVars   == <<mpc, accepted>>
kernelVars == <<open, readable>>
vars == <<flagVars, leader_mutex, vectors_mutex, pfds, pc, localVars,
          mainVars, kernelVars, crashed>>

-----------------------------------------------------------------------------
(* Program counters, grouped by what the thread is doing.                  *)

InFollow  == {"while", "check", "block", "recheck", "seat"}
Arriving  == {"lock_leader", "woken"}
Leading   == {"lead", "lock_vectors", "poll", "promote", "self_deadlock"}
Handling  == {"unlock_vectors", "call", "handler", "close", "close_only",
              "remove"}
PCs == InFollow \cup Arriving \cup Leading \cup Handling
         \cup {"asleep", "exited"}

MainPCs == {"serve", "adding", "greeting", "vacate", "notify", "join",
            "destroyed"}

IsLeading(t) == pc[t] \in Leading

\* pc places at which a thread owns leader_mutex (InFollow) or vectors_mutex.
Scanning == {"poll", "promote", "self_deadlock", "unlock_vectors"}

Goto(t, from, to) ==
  /\ pc[t] = from
  /\ pc' = [pc EXCEPT ![t] = to]

\* Mutant: the descriptors are registered without POLLIN.
HasEventNoInput(fd) == fd \notin open

\* The descriptors poll() reports: readable ones (POLLIN) and closed ones
\* that are still registered (POLLNVAL).
HasEvent(fd) == fd \in readable \/ fd \notin open

\* The position of the first of them in pfds, or 0.
FirstEvent == SelectInSeq(pfds, HasEvent)

-----------------------------------------------------------------------------
(* follow(): compete for the leader's seat.                                *)

\* leader_lock(leader_mutex) on entry, leader_lock.lock() after lead().
LockLeader(t) ==
  /\ leader_mutex = None
  /\ leader_mutex' = t
  /\ Goto(t, "lock_leader", "while")
  /\ UNCHANGED <<flagVars, vectors_mutex, pfds, localVars, mainVars,
                 kernelVars, crashed>>

\* while (running): leaving the loop releases the mutex.
FollowWhile(t) ==
  /\ \/ running /\ Goto(t, "while", "check") /\ UNCHANGED leader_mutex
     \/ ~running /\ Goto(t, "while", "exited") /\ leader_mutex' = None
  /\ UNCHANGED <<flagVars, vectors_mutex, pfds, localVars, mainVars,
                 kernelVars, crashed>>

\* if (has_leader) ..., and the predicate of leader_cond.wait.
CheckLeader(t) ==
  /\ Goto(t, "check", IF has_leader THEN "block" ELSE "recheck")
  /\ UNCHANGED <<flagVars, leader_mutex, vectors_mutex, pfds, localVars,
                 mainVars, kernelVars, crashed>>

\* leader_cond.wait: join the wait set and release the mutex in one step.
Block(t) ==
  /\ leader_mutex' = None
  /\ Goto(t, "block", "asleep")
  /\ UNCHANGED <<flagVars, vectors_mutex, pfds, localVars, mainVars,
                 kernelVars, crashed>>

\* A condition variable may wake up without a notification.
SpuriousWakeup(t) ==
  /\ Goto(t, "asleep", "woken")
  /\ UNCHANGED <<flagVars, leader_mutex, vectors_mutex, pfds, localVars,
                 mainVars, kernelVars, crashed>>

\* Mutant: wait() without a predicate.
ReacquireWithoutPredicate(t) ==
  /\ leader_mutex = None
  /\ leader_mutex' = t
  /\ Goto(t, "woken", "recheck")
  /\ UNCHANGED <<flagVars, vectors_mutex, pfds, localVars, mainVars,
                 kernelVars, crashed>>

\* A woken thread owns the mutex again before it evaluates the predicate.
Reacquire(t) ==
  /\ leader_mutex = None
  /\ leader_mutex' = t
  /\ Goto(t, "woken", "check")
  /\ UNCHANGED <<flagVars, vectors_mutex, pfds, localVars, mainVars,
                 kernelVars, crashed>>

\* Mutant: the check after the wait is missing.
RecheckNothing(t) ==
  /\ Goto(t, "recheck", "seat")
  /\ UNCHANGED <<flagVars, leader_mutex, vectors_mutex, pfds, localVars,
                 mainVars, kernelVars, crashed>>

\* if (!running) return;
Recheck(t) ==
  /\ \/ running /\ Goto(t, "recheck", "seat") /\ UNCHANGED leader_mutex
     \/ ~running /\ Goto(t, "recheck", "exited") /\ leader_mutex' = None
  /\ UNCHANGED <<flagVars, vectors_mutex, pfds, localVars, mainVars,
                 kernelVars, crashed>>

\* has_leader = true; leader_lock.unlock(); lead();
TakeSeat(t) ==
  /\ has_leader' = TRUE
  /\ leader_mutex' = None
  /\ Goto(t, "seat", "lead")
  /\ UNCHANGED <<running, vectors_mutex, pfds, localVars, mainVars,
                 kernelVars, crashed>>

-----------------------------------------------------------------------------
(* lead(): poll the descriptors and dispatch the first event.              *)

\* Mutant: while (true).
LeadForever(t) ==
  /\ Goto(t, "lead", "lock_vectors")
  /\ UNCHANGED <<flagVars, leader_mutex, vectors_mutex, pfds, localVars,
                 mainVars, kernelVars, crashed>>

\* while (running): leaving lead() leads back to follow().
LeadWhile(t) ==
  /\ Goto(t, "lead", IF running THEN "lock_vectors" ELSE "lock_leader")
  /\ UNCHANGED <<flagVars, leader_mutex, vectors_mutex, pfds, localVars,
                 mainVars, kernelVars, crashed>>

LockVectors(t) ==
  /\ vectors_mutex = None
  /\ vectors_mutex' = t
  /\ Goto(t, "lock_vectors", "poll")
  /\ UNCHANGED <<flagVars, leader_mutex, pfds, localVars, mainVars,
                 kernelVars, crashed>>

\* poll() and the scan of the results up to the first event.  Without one
\* the leader releases the vectors, sleeps and starts over.  On POLLNVAL it
\* calls remove_fd, which locks vectors_mutex again: the mutex is not
\* recursive and its owner is the caller, so that call never returns.
Poll(t) ==
  /\ pc[t] = "poll"
  /\ \/ /\ FirstEvent = 0
        /\ Goto(t, "poll", "lead")
        /\ vectors_mutex' = None
        /\ UNCHANGED localVars
     \/ /\ FirstEvent # 0 /\ pfds[FirstEvent] \in open
        /\ Goto(t, "poll", "promote")
        /\ idx' = [idx EXCEPT ![t] = FirstEvent]
        /\ polled' = [polled EXCEPT ![t] = pfds[FirstEvent]]
        /\ UNCHANGED <<vectors_mutex, arg>>
     \/ /\ FirstEvent # 0 /\ pfds[FirstEvent] \notin open
        /\ Goto(t, "poll", "self_deadlock")
        /\ UNCHANGED <<vectors_mutex, localVars>>
  /\ UNCHANGED <<flagVars, leader_mutex, pfds, mainVars, kernelVars, crashed>>

\* Mutant: the seat is vacated, nobody is notified.
PromoteWithoutNotify(t) ==
  /\ pc[t] = "promote"
  /\ leader_mutex = None
  /\ has_leader' = FALSE
  /\ pc' = [pc EXCEPT ![t] = "unlock_vectors"]
  /\ UNCHANGED <<running, leader_mutex, vectors_mutex, pfds, localVars,
                 mainVars, kernelVars, crashed>>

\* Mutant: a follower is notified, the seat still looks taken.
PromoteWithoutVacating(t) ==
  /\ pc[t] = "promote"
  /\ leader_mutex = None
  /\ \/ /\ \A u \in Threads : pc[u] # "asleep"
        /\ pc' = [pc EXCEPT ![t] = "unlock_vectors"]
     \/ \E u \in Threads :
          /\ pc[u] = "asleep"
          /\ pc' = [pc EXCEPT ![t] = "unlock_vectors", ![u] = "woken"]
  /\ UNCHANGED <<flagVars, leader_mutex, vectors_mutex, pfds, localVars,
                 mainVars, kernelVars, crashed>>

\* promote_leader(): under leader_mutex, vacate the seat and notify_one.
PromoteLeader(t) ==
  /\ pc[t] = "promote"
  /\ leader_mutex = None
  /\ has_leader' = FALSE
  /\ \/ /\ \A u \in Threads : pc[u] # "asleep"
        /\ pc' = [pc EXCEPT ![t] = "unlock_vectors"]
     \/ \E u \in Threads :
          /\ pc[u] = "asleep"
          /\ pc' = [pc EXCEPT ![t] = "unlock_vectors", ![u] = "woken"]
  /\ UNCHANGED <<running, leader_mutex, vectors_mutex, pfds, localVars,
                 mainVars, kernelVars, crashed>>

UnlockVectors(t) ==
  /\ vectors_mutex' = None
  /\ Goto(t, "unlock_vectors", "call")
  /\ UNCHANGED <<flagVars, leader_mutex, pfds, localVars, mainVars,
                 kernelVars, crashed>>

\* Mutant: the slot past the end holds no descriptor.
CallHandlerUnset(t) ==
  /\ Goto(t, "call", "handler")
  /\ arg' = [arg EXCEPT ![t] = IF idx[t] \in DOMAIN pfds THEN pfds[idx[t]]
                                                         ELSE None]
  /\ UNCHANGED <<flagVars, leader_mutex, vectors_mutex, pfds, idx, polled,
                 mainVars, kernelVars, crashed>>

\* handlers[i](pfds[i].fd): the vectors are read again, after the unlock.
\* Past the end of pfds lie slots that erasures have left behind, with the
\* descriptor of any entry there has been.
CallHandler(t) ==
  /\ Goto(t, "call", "handler")
  /\ \E fd \in Fds :
       /\ idx[t] \in DOMAIN pfds => fd = pfds[idx[t]]
       /\ arg' = [arg EXCEPT ![t] = fd]
  /\ UNCHANGED <<flagVars, leader_mutex, vectors_mutex, pfds, idx, polled,
                 mainVars, kernelVars, crashed>>

\* The other outcome of that read when the index is past the end, or when
\* another thread is inside add_fd or remove_fd: the process goes down.
CallUndefined(t) ==
  /\ pc[t] = "call"
  /\ \/ idx[t] \notin DOMAIN pfds
     \/ vectors_mutex = None /\ mpc = "adding"
     \/ vectors_mutex = None /\ \E u \in Threads : pc[u] = "remove"
  /\ crashed' = TRUE
  /\ UNCHANGED <<flagVars, leader_mutex, vectors_mutex, pfds, pc, localVars,
                 mainVars, kernelVars>>

-----------------------------------------------------------------------------
(* The handler, main.cpp's message_handler, as far as it touches the pool  *)
(* and the descriptors.                                                    *)

Return(t, from) ==
  /\ Goto(t, from, "lock_leader")
  /\ idx' = [idx EXCEPT ![t] = 0]
  /\ polled' = [polled EXCEPT ![t] = None]
  /\ arg' = [arg EXCEPT ![t] = None]

\* read() blocks until there is input and then drains it.  A command is
\* answered and the handler returns; Exit and Kill close and unregister the
\* connection; end of file, or an error, only closes it; an exception that
\* leaves the handler, for instance for an answer that cannot be sent, ends the
\* process.
HandlerRead(t) ==
  /\ pc[t] = "handler"
  /\ \/ /\ arg[t] \in readable
        /\ readable' = readable \ {arg[t]}
        /\ \/ /\ "command" \in Outcomes
              /\ Return(t, "handler") /\ UNCHANGED crashed
           \/ /\ "exit" \in Outcomes
              /\ Goto(t, "handler", "close") /\ UNCHANGED <<localVars, crashed>>
           \/ /\ "hangup" \in Outcomes
              /\ Goto(t, "handler", "close_only")
              /\ UNCHANGED <<localVars, crashed>>
           \/ /\ "throw" \in Outcomes
              /\ crashed' = TRUE /\ UNCHANGED <<pc, localVars>>
     \/ /\ arg[t] \notin open
        /\ Goto(t, "handler", "close_only")
        /\ UNCHANGED <<readable, localVars, crashed>>
  /\ UNCHANGED <<flagVars, leader_mutex, vectors_mutex, pfds, mainVars, open>>

HandlerClose(t) ==
  /\ \/ Goto(t, "close", "remove") /\ UNCHANGED localVars
     \/ Return(t, "close_only")
  /\ open' = open \ {arg[t]}
  /\ readable' = readable \ {arg[t]}
  /\ UNCHANGED <<flagVars, leader_mutex, vectors_mutex, pfds, mainVars,
                 crashed>>

\* Mutant: remove_fd does not take vectors_mutex.
RemoveFdUnlocked(t) ==
  /\ pfds' = RemoveFirst(pfds, arg[t])
  /\ Return(t, "remove")
  /\ UNCHANGED <<flagVars, leader_mutex, vectors_mutex, mainVars, kernelVars,
                 crashed>>

\* remove_fd(fd): erase the first entry for fd, if there is one.
RemoveFd(t) ==
  /\ vectors_mutex = None
  /\ pfds' = RemoveFirst(pfds, arg[t])
  /\ Return(t, "remove")
  /\ UNCHANGED <<flagVars, leader_mutex, vectors_mutex, mainVars, kernelVars,
                 crashed>>

-----------------------------------------------------------------------------
(* The main thread: the accept loop of main() and the pool's destructor.   *)

\* accept() returns the lowest descriptor that is free.
Accept(fd) ==
  /\ mpc = "serve"
  /\ fd \notin open
  /\ \A f \in Fds \ open : fd <= f
  /\ open' = open \cup {fd}
  /\ accepted' = fd
  /\ mpc' = "adding"
  /\ UNCHANGED <<flagVars, leader_mutex, vectors_mutex, pfds, pc, localVars,
                 readable, crashed>>

\* Mutant: add_fd does not look for fd first.
AddFdUnchecked ==
  /\ mpc = "adding"
  /\ vectors_mutex = None
  /\ pfds' = Append(pfds, accepted)
  /\ mpc' = "greeting"
  /\ UNCHANGED <<flagVars, leader_mutex, vectors_mutex, pc, localVars,
                 accepted, kernelVars, crashed>>

\* add_fd(fd): refused, without a trace, when fd is registered already.
AddFd ==
  /\ mpc = "adding"
  /\ vectors_mutex = None
  /\ pfds' = IF accepted \in ToSet(pfds) THEN pfds ELSE Append(pfds, accepted)
  /\ mpc' = "greeting"
  /\ UNCHANGED <<flagVars, leader_mutex, vectors_mutex, pc, localVars,
                 accepted, kernelVars, crashed>>

\* send_message(new_socket, ...).  It fails when a handler has closed the
\* connection, and may fail when the client has: main() then throws, nothing
\* catches it and the process terminates.
GreetClient ==
  /\ mpc = "greeting"
  /\ \/ accepted \in open /\ UNCHANGED crashed
     \/ /\ accepted \notin open \/ "hangup" \in Outcomes
        /\ crashed' = TRUE
  /\ accepted' = None
  /\ mpc' = "serve"
  /\ UNCHANGED <<flagVars, leader_mutex, vectors_mutex, pfds, pc, localVars,
                 kernelVars>>

\* ~LeaderFollower(): none of the three steps takes leader_mutex.  main.cpp
\* reaches it after a Kill, leader_follower_test.cpp after ten seconds.
StopRunning ==
  /\ Destroyed
  /\ mpc = "serve"
  /\ running' = FALSE
  /\ mpc' = "vacate"
  /\ UNCHANGED <<has_leader, leader_mutex, vectors_mutex, pfds, pc, localVars,
                 accepted, kernelVars, crashed>>

VacateSeat ==
  /\ mpc = "vacate"
  /\ has_leader' = FALSE
  /\ mpc' = "notify"
  /\ UNCHANGED <<running, leader_mutex, vectors_mutex, pfds, pc, localVars,
                 accepted, kernelVars, crashed>>

NotifyAll ==
  /\ mpc = "notify"
  /\ pc' = [t \in Threads |-> IF pc[t] = "asleep" THEN "woken" ELSE pc[t]]
  /\ mpc' = "join"
  /\ UNCHANGED <<flagVars, leader_mutex, vectors_mutex, pfds, localVars,
                 accepted, kernelVars, crashed>>

Join ==
  /\ mpc = "join"
  /\ \A t \in Threads : pc[t] = "exited"
  /\ mpc' = "destroyed"
  /\ UNCHANGED <<flagVars, leader_mutex, vectors_mutex, pfds, pc, localVars,
                 accepted, kernelVars, crashed>>

\* A client sends a line or closes its end.
ClientSends(fd) ==
  /\ fd \in open \ readable
  /\ readable' = readable \cup {fd}
  /\ UNCHANGED <<flagVars, leader_mutex, vectors_mutex, pfds, pc, localVars,
                 mainVars, open, crashed>>

-----------------------------------------------------------------------------
Init ==
  /\ running = TRUE
  /\ has_leader = FALSE
  /\ leader_mutex = None
  /\ vectors_mutex = None
  /\ pfds = << >>
  /\ pc = [t \in Threads |-> "lock_leader"]
  /\ idx = [t \in Threads |-> 0]
  /\ polled = [t \in Threads |-> None]
  /\ arg = [t \in Threads |-> None]
  /\ mpc = "serve"
  /\ accepted = None
  /\ open = {}
  /\ readable = {}
  /\ crashed = FALSE

FollowStep(t) ==
  \/ LockLeader(t) \/ FollowWhile(t) \/ CheckLeader(t) \/ Block(t)
  \/ Reacquire(t) \/ Recheck(t) \/ TakeSeat(t)

LeadStep(t) ==
  \/ LeadWhile(t) \/ LockVectors(t) \/ Poll(t) \/ PromoteLeader(t)
  \/ UnlockVectors(t) \/ CallHandler(t)

HandlerStep(t) == HandlerRead(t) \/ HandlerClose(t) \/ RemoveFd(t)

Destructor == StopRunning \/ VacateSeat \/ NotifyAll \/ Join

Next ==
  /\ ~crashed
  /\ \/ \E t \in Threads :
          \/ FollowStep(t) \/ LeadStep(t) \/ HandlerStep(t)
          \/ SpuriousWakeup(t) \/ CallUndefined(t)
     \/ \E fd \in Fds : Accept(fd) \/ ClientSends(fd)
     \/ AddFd \/ GreetClient
     \/ Destructor

Spec == Init /\ [][Next]_vars

\* Fairness.  A thread that can run runs.  A lock may be taken by others
\* first, but not for ever: leader_mutex is held for a few statements, and
\* between two polls the leader sleeps with vectors_mutex released.  Nothing
\* is assumed of clients, of new connections or of the decision to stop.
Alive(A) == ~crashed /\ A

Fairness ==
  /\ \A t \in Threads :
       /\ SF_vars(Alive(FollowStep(t)))
       /\ SF_vars(Alive(LeadStep(t)))
       /\ WF_vars(Alive(HandlerRead(t) \/ HandlerClose(t)))
       /\ SF_vars(Alive(RemoveFd(t)))
  /\ SF_vars(Alive(AddFd))
  /\ WF_vars(Alive(GreetClient))
  /\ WF_vars(Alive(VacateSeat \/ NotifyAll \/ Join))

FairSpec == Spec /\ Fairness

-----------------------------------------------------------------------------
(* Safety properties.                                                      *)

\* Types, and what the locals of a thread must hold where they are used: the
\* dispatch works on a registered descriptor, a handler runs on a real one.
TypeOK ==
  /\ running \in BOOLEAN /\ has_leader \in BOOLEAN /\ crashed \in BOOLEAN
  /\ leader_mutex \in Threads \cup {None}
  /\ vectors_mutex \in Threads \cup {None}
  /\ pfds \in Seq(Fds)
  /\ pc \in [Threads -> PCs]
  /\ idx \in [Threads -> Nat]
  /\ polled \in [Threads -> Fds \cup {None}]
  /\ arg \in [Threads -> Fds \cup {None}]
  /\ mpc \in MainPCs
  /\ accepted \in Fds \cup {None}
  /\ open \subseteq Fds /\ readable \subseteq open
  /\ mpc = "adding" => accepted \in Fds
  /\ \A t \in Threads :
       /\ pc[t] \in {"promote", "unlock_vectors", "call"} => polled[t] \in Fds
       /\ pc[t] \in {"handler", "close", "close_only", "remove"} =>
            arg[t] \in Fds

\* "continuously polls": one thread at most is in lead()'s polling part, also
\* while the destructor, which takes no lock, clears has_leader under it.
AtMostOneLeader ==
  \A s, t \in Threads : IsLeading(s) /\ IsLeading(t) => s = t

\* No wakeup is lost while the pool runs: if the seat is vacant and a
\* follower sleeps on leader_cond, some thread is on its way to the seat.
\* promote_leader() notifies a single thread and a woken one can find the
\* seat taken, so this is not a property of one function.
NoLostWakeup ==
  running /\ ~has_leader /\ (\E t \in Threads : pc[t] = "asleep")
    => \E t \in Threads : pc[t] \in InFollow \cup Arriving

\* No descriptor is registered twice: add_fd's check, made under
\* vectors_mutex, against handlers that unregister theirs concurrently.
NoDuplicateFds == IsInjective(pfds)

\* From the scan to the unlock, the leader's index designates the descriptor
\* poll() reported: vectors_mutex keeps add_fd and remove_fd out.
ScanStable ==
  \A t \in Threads : pc[t] \in {"promote", "unlock_vectors"} =>
    idx[t] \in DOMAIN pfds /\ pfds[idx[t]] = polled[t]

(* The inductive invariant: who owns which mutex, and how has_leader and     *)
(* running relate to where the threads are.                                  *)

MutexInv ==
  \A t \in Threads : /\ pc[t] \in InFollow <=> leader_mutex = t
                     /\ pc[t] \in Scanning <=> vectors_mutex = t

RunningInv == running <=> mpc \in {"serve", "adding", "greeting"}

\* While the pool runs has_leader tells the truth, and what follow() read of
\* it is still true when the thread acts on it.
SeatInv ==
  /\ running => (has_leader <=> \E t \in Threads : IsLeading(t))
  /\ \A t \in Threads :
       /\ running /\ pc[t] = "recheck" => ~has_leader
       /\ running /\ pc[t] = "block" => has_leader
       /\ pc[t] = "seat" => \A u \in Threads : ~IsLeading(u)

IInv == /\ TypeOK /\ MutexInv /\ RunningInv /\ SeatInv
        /\ AtMostOneLeader /\ NoLostWakeup /\ NoDuplicateFds /\ ScanStable

-----------------------------------------------------------------------------
(* Refinement: the pool implements WorkerPool.                              *)

RoleAt(place) ==
  CASE place \in Leading  -> "leader"
    [] place \in Handling -> "handler"
    [] place = "exited"   -> "gone"
    [] OTHER              -> "follower"

roleBar == [t \in Threads |-> RoleAt(pc[t])]

Pool == INSTANCE WorkerPool WITH Workers <- Threads, role <- roleBar,
                                 stopping <- ~running

\* The pool is a pool of workers with one leader: a leader is elected only
\* when there is none, only a leader starts a handler, and a worker steps
\* down or leaves only when the pool has been told to stop.
ImplementsPool == Pool!Spec

-----------------------------------------------------------------------------
(* Liveness properties, of FairSpec.                                        *)

\* promote_leader(): a vacant seat does not stay vacant while some thread is
\* not busy with a handler.
LeaderElected ==
  (running /\ \E t \in Threads : roleBar[t] = "follower")
    ~> (\/ \E t \in Threads : IsLeading(t)
        \/ \A t \in Threads : pc[t] \in Handling
        \/ ~running \/ crashed)

\* ~LeaderFollower(): "Can take up to LEADER_FOLLOWER_POLL_TIMEOUT
\* milliseconds for the leader to stop", hence the leader does stop.
LeaderStops ==
  \A t \in Threads :
    (~running /\ IsLeading(t)) ~> (~IsLeading(t) \/ crashed)

\* Input that waits on a registered descriptor is read, if no other
\* descriptor has any: level-triggered dispatch may send several threads to
\* one descriptor, where all but one block, but never the last free one.
InputConsumed ==
  \A fd \in Fds :
    (running /\ fd \in ToSet(pfds) /\ readable = {fd})
      ~> (readable # {fd} \/ ~running \/ crashed)

\* ~LeaderFollower(): "Will block until leader stops and all running handlers
\* finish", so with no handler in the way the destructor returns.
DestructorReturns == (mpc = "vacate") ~> (mpc = "destroyed")

\* lead(): "if found one with error, remove it from the set": a registered
\* descriptor that is closed is unregistered by the pool.
ClosedFdRemoved ==
  \A fd \in Fds :
    (running /\ fd \in ToSet(pfds) \ open)
      ~> (fd \notin ToSet(pfds) \/ fd \in open \/ ~running \/ crashed)

\* Handler: "receives as an argument the file descriptor on which the event
\* occured".
HandlerGetsEventFd ==
  \A t \in Threads : pc[t] = "handler" => arg[t] = polled[t]

=============================================================================
