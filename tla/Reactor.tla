------------------------------ MODULE Reactor -------------------------------
(***************************************************************************)
(* The reactor of pattern_library/reactor.cpp, driven the way pl_main.cpp  *)
(* drives it: one application thread starts it, accepts connections,       *)
(* registers them with add_fd and finally stops it; the handlers, which    *)
(* run on the reactor's own thread, are pl_main.cpp's message_handler.     *)
(*                                                                         *)
(* Every access to the vectors is made under vectors_mutex and every       *)
(* access to `running' under running_mutex, and neither is kept across     *)
(* anything another thread can observe (poll() is called with a timeout of *)
(* 0): what a thread does between taking and releasing one is one step.    *)
(***************************************************************************)
EXTENDS Integers, SequencesExt

CONSTANTS
  Fds,        \* the file descriptors the kernel can hand out
  None,       \* "no descriptor"
  Outcomes,   \* the ways a handler may end, see HandlerRead
  MaxStarts   \* bound: how often the application calls start()

ASSUME ReactorAssumption ==
  /\ Fds \subseteq Nat
  /\ None \notin Fds
  /\ Outcomes \subseteq {"command", "newgraph", "exit", "hangup", "throw"}
  /\ MaxStarts \in Nat

VARIABLES
  running,    \* the flag `running'
  thread,     \* `thread' is not null
  pfds,       \* the registered descriptors (pfds, handlers, fds_count)
  pc,         \* where the reactor thread is, "none" when there is none
  actions,    \* reactor_main's local: what is left to do of the last poll
  apc,        \* where the application thread is
  after,      \* where it goes once stop() returns
  accepted,   \* the connection it is about to register or greet, or None
  starts,     \* how often start() was called
  open,       \* kernel: the descriptors that are open
  readable,   \* kernel: the open descriptors with input or end of file
  crashed     \* an uncaught exception has ended the process

appVars    == <<apc, after, accepted, starts>>
kernelVars == <<open, readable>>
vars == <<running, thread, pfds, pc, actions, appVars, kernelVars, crashed>>

-----------------------------------------------------------------------------
InHandler == {"reading", "close", "close_only", "remove", "threw"}
ReactorPCs == {"none", "check", "poll", "act", "exited"} \cup InHandler
AppPCs == {"idle", "adding", "greeting", "stop", "join", "clear",
           "set_running", "spawn", "ended", "threw"}

\* An action is a handler_action or a remove_action, and its descriptor.  A
\* descriptor on which poll() reports nothing gets a place that says "none".
Action == [kind : {"handle", "remove", "none"}, fd : Fds]

\* The action reactor_main is performing.
Now == Head(actions)

\* Mutant: POLLNVAL is not handled.
ActionForInput(fd) ==
  [kind |-> IF fd \in readable THEN "handle" ELSE "none", fd |-> fd]

\* Mutant: the handler is called for whatever is not POLLNVAL.
ActionForAll(fd) ==
  [kind |-> IF fd \in open THEN "handle" ELSE "remove", fd |-> fd]

\* POLLIN, that is input or end of file: call the handler; POLLNVAL, that is
\* registered but closed: remove.
ActionFor(fd) ==
  [kind |-> IF fd \in readable THEN "handle"
            ELSE IF fd \notin open THEN "remove" ELSE "none",
   fd |-> fd]

Unregister(fd) == pfds' = RemoveFirst(pfds, fd)

-----------------------------------------------------------------------------
(* reactor_main(), the reactor thread.                                      *)

\* Mutant: while (true).
CheckNothing ==
  /\ pc = "check"
  /\ pc' = "poll"
  /\ UNCHANGED <<running, thread, pfds, actions, appVars, kernelVars, crashed>>

\* still_running = running, before the loop and at the end of its body.
CheckRunning ==
  /\ pc = "check"
  /\ pc' = IF running THEN "poll" ELSE "exited"
  /\ UNCHANGED <<running, thread, pfds, actions, appVars, kernelVars, crashed>>

\* Mutant: only the first descriptor is looked at.
PollFirst ==
  /\ pc = "poll"
  /\ actions' = [i \in DOMAIN pfds \cap {1} |-> ActionFor(pfds[i])]
  /\ pc' = "act"
  /\ UNCHANGED <<running, thread, pfds, appVars, kernelVars, crashed>>

\* poll() and the scan of its results, in the order of registration.
Poll ==
  /\ pc = "poll"
  /\ actions' = [i \in DOMAIN pfds |-> ActionFor(pfds[i])]
  /\ pc' = "act"
  /\ UNCHANGED <<running, thread, pfds, appVars, kernelVars, crashed>>

\* Every action has been performed.
ActionsDone ==
  /\ pc = "act" /\ actions = << >>
  /\ pc' = "check"
  /\ UNCHANGED <<running, thread, pfds, actions, appVars, kernelVars, crashed>>

\* remove_action: remove_fd, whatever the descriptor has become meanwhile.
PerformRemove ==
  /\ pc = "act" /\ actions # << >> /\ Now.kind = "remove"
  /\ Unregister(Now.fd)
  /\ actions' = Tail(actions)
  /\ UNCHANGED <<running, thread, pc, appVars, kernelVars, crashed>>

\* Nothing was reported on this descriptor.
PerformNone ==
  /\ pc = "act" /\ actions # << >> /\ Now.kind = "none"
  /\ actions' = Tail(actions)
  /\ UNCHANGED <<running, thread, pfds, pc, appVars, kernelVars, crashed>>

-----------------------------------------------------------------------------
(* handler_action: message_handler, as far as it touches the reactor and    *)
(* the descriptors.                                                         *)

Return == pc' = "act" /\ actions' = Tail(actions)

\* read() drains the input of an open descriptor, blocking until there is
\* some, and fails on a closed one.  What happens then is one of:
\*   "command"   the command is answered and the handler returns;
\*   "newgraph"  the handler reads further messages;
\*   "exit"      Exit or Kill: the connection is closed and unregistered;
\*   "hangup"    end of file or an error: the connection is only closed;
\*   "throw"     an exception leaves the handler and ends the process.
HandlerRead ==
  /\ \/ pc = "act" /\ actions # << >> /\ Now.kind = "handle"
     \/ pc = "reading"
  /\ \/ /\ Now.fd \in readable
        /\ readable' = readable \ {Now.fd}
        /\ \/ "command" \in Outcomes /\ Return /\ UNCHANGED crashed
           \/ /\ "newgraph" \in Outcomes /\ pc' = "reading"
              /\ UNCHANGED <<actions, crashed>>
           \/ /\ "exit" \in Outcomes /\ pc' = "close"
              /\ UNCHANGED <<actions, crashed>>
           \/ /\ "hangup" \in Outcomes /\ pc' = "close_only"
              /\ UNCHANGED <<actions, crashed>>
           \/ /\ "throw" \in Outcomes /\ pc' = "threw" /\ crashed' = TRUE
              /\ UNCHANGED actions
     \/ /\ Now.fd \notin open
        /\ pc' = "close_only"
        /\ UNCHANGED <<actions, readable, crashed>>
  /\ UNCHANGED <<running, thread, pfds, appVars, open>>

HandlerClose ==
  /\ \/ pc = "close" /\ pc' = "remove" /\ UNCHANGED actions
     \/ pc = "close_only" /\ Return
  /\ open' = open \ {Now.fd}
  /\ readable' = readable \ {Now.fd}
  /\ UNCHANGED <<running, thread, pfds, appVars, crashed>>

\* r.remove_fd(fd) of an Exit or a Kill.
HandlerRemove ==
  /\ pc = "remove"
  /\ Unregister(Now.fd)
  /\ Return
  /\ UNCHANGED <<running, thread, appVars, kernelVars, crashed>>

-----------------------------------------------------------------------------
(* The application thread: start() and stop().                              *)

\* start() begins with a stop().
CallStart ==
  /\ apc = "idle" /\ starts < MaxStarts
  /\ starts' = starts + 1
  /\ after' = "set_running"
  /\ apc' = "stop"
  /\ UNCHANGED <<running, thread, pfds, pc, actions, accepted, kernelVars,
                 crashed>>

\* stop(): called by the destructor after a Kill, or when accept() fails.
CallStop ==
  /\ apc = "idle"
  /\ after' = "ended"
  /\ apc' = "stop"
  /\ UNCHANGED <<running, thread, pfds, pc, actions, accepted, starts,
                 kernelVars, crashed>>

\* if (!thread) return; running = false;
StopRunning ==
  /\ apc = "stop"
  /\ \/ ~thread /\ apc' = after /\ UNCHANGED running
     \/ thread /\ apc' = "join" /\ running' = FALSE
  /\ UNCHANGED <<thread, pfds, pc, actions, after, accepted, starts,
                 kernelVars, crashed>>

\* Mutant: stop() does not wait for the thread.
JoinNothing ==
  /\ apc = "join"
  /\ thread' = FALSE
  /\ pc' = "none"
  /\ apc' = "clear"
  /\ UNCHANGED <<running, pfds, actions, after, accepted, starts, kernelVars,
                 crashed>>

\* thread->join(); delete thread; thread = nullptr;
Join ==
  /\ apc = "join" /\ pc = "exited"
  /\ thread' = FALSE
  /\ pc' = "none"
  /\ apc' = "clear"
  /\ UNCHANGED <<running, pfds, actions, after, accepted, starts, kernelVars,
                 crashed>>

\* Clear the vectors; a main() that failed to greet throws afterwards.
Clear ==
  /\ apc = "clear"
  /\ pfds' = << >>
  /\ apc' = after
  /\ crashed' = (after = "threw")
  /\ UNCHANGED <<running, thread, pc, actions, after, accepted, starts,
                 kernelVars>>

SetRunning ==
  /\ apc = "set_running"
  /\ running' = TRUE
  /\ apc' = "spawn"
  /\ UNCHANGED <<thread, pfds, pc, actions, after, accepted, starts,
                 kernelVars, crashed>>

\* thread = new std::thread(&Reactor::reactor_main, this);
Spawn ==
  /\ apc = "spawn"
  /\ thread' = TRUE
  /\ pc' = "check"
  /\ apc' = "idle"
  /\ UNCHANGED <<running, pfds, actions, after, accepted, starts, kernelVars,
                 crashed>>

-----------------------------------------------------------------------------
(* The application thread: the accept loop of pl_main.cpp.                  *)

\* accept() returns the lowest descriptor that is free.
Accept(fd) ==
  /\ apc = "idle"
  /\ fd \notin open
  /\ \A f \in Fds \ open : fd <= f
  /\ open' = open \cup {fd}
  /\ accepted' = fd
  /\ apc' = "adding"
  /\ UNCHANGED <<running, thread, pfds, pc, actions, after, starts, readable,
                 crashed>>

\* Mutant: add_fd does not look for fd first.
AddFdUnchecked ==
  /\ apc = "adding"
  /\ pfds' = Append(pfds, accepted)
  /\ apc' = "greeting"
  /\ UNCHANGED <<running, thread, pc, actions, after, accepted, starts,
                 kernelVars, crashed>>

\* add_fd(fd): refused, without a trace, when fd is registered already.
AddFd ==
  /\ apc = "adding"
  /\ pfds' = IF accepted \in ToSet(pfds) THEN pfds ELSE Append(pfds, accepted)
  /\ apc' = "greeting"
  /\ UNCHANGED <<running, thread, pc, actions, after, accepted, starts,
                 kernelVars, crashed>>

\* send_message(new_socket, ...).  It fails when a handler has closed the
\* connection, and may fail when the client has: main() then closes it, stops
\* the reactor and throws.
Greet ==
  /\ apc = "greeting"
  /\ accepted' = None
  /\ \/ /\ accepted \in open
        /\ apc' = "idle"
        /\ UNCHANGED <<after, open, readable>>
     \/ /\ accepted \notin open \/ "hangup" \in Outcomes
        /\ open' = open \ {accepted}
        /\ readable' = readable \ {accepted}
        /\ apc' = "stop" /\ after' = "threw"
  /\ UNCHANGED <<running, thread, pfds, pc, actions, starts, crashed>>

\* A client sends a line or closes its end.
ClientSends(fd) ==
  /\ fd \in open \ readable
  /\ readable' = readable \cup {fd}
  /\ UNCHANGED <<running, thread, pfds, pc, actions, appVars, open, crashed>>

-----------------------------------------------------------------------------
Init ==
  /\ running = FALSE
  /\ thread = FALSE
  /\ pfds = << >>
  /\ pc = "none"
  /\ actions = << >>
  /\ apc = "idle"
  /\ after = "idle"
  /\ accepted = None
  /\ starts = 0
  /\ open = {}
  /\ readable = {}
  /\ crashed = FALSE

HandlerStep == HandlerRead \/ HandlerClose \/ HandlerRemove

ReactorStep ==
  CheckRunning \/ Poll \/ ActionsDone \/ PerformRemove \/ PerformNone
  \/ HandlerStep

StopStep == StopRunning \/ Join \/ Clear
StartStep == SetRunning \/ Spawn

Next ==
  /\ ~crashed
  /\ \/ ReactorStep
     \/ CallStart \/ CallStop \/ StopStep \/ StartStep
     \/ AddFd \/ Greet
     \/ \E fd \in Fds : Accept(fd) \/ ClientSends(fd)

Spec == Init /\ [][Next]_vars

\* Both threads run, and lock() succeeds in the end: the mutexes are released
\* within a few statements.  A client that has sent Newgraph goes on sending
\* while its handler reads, or closes, and the loop that reads counts down; no
\* other thread takes what it sends.  Nothing else is assumed of clients, of new connections or of the decisions to start and
\* to stop.
FairSpec ==
  /\ Spec
  /\ WF_vars(~crashed /\ ReactorStep)
  /\ WF_vars(~crashed /\ (StopStep \/ StartStep \/ AddFd \/ Greet))
  /\ WF_vars(~crashed /\ pc = "reading" /\ ClientSends(Now.fd))
  /\ SF_vars(~crashed /\ pc = "reading" /\ HandlerRead /\ pc' # "reading")

-----------------------------------------------------------------------------
(* Safety properties.                                                       *)

\* Types, and what the locals hold where they are used.
TypeOK ==
  /\ running \in BOOLEAN /\ thread \in BOOLEAN /\ crashed \in BOOLEAN
  /\ pfds \in Seq(Fds)
  /\ pc \in ReactorPCs
  /\ actions \in Seq(Action)
  /\ apc \in AppPCs
  /\ after \in {"idle", "set_running", "ended", "threw"}
  /\ accepted \in Fds \cup {None}
  /\ starts \in 0..MaxStarts
  /\ open \subseteq Fds /\ readable \subseteq open
  /\ apc \in {"adding", "greeting"} => accepted \in Fds
  /\ pc \in InHandler => actions # << >>

\* No descriptor is registered twice: add_fd's check against descriptors that
\* are closed, handed out again and unregistered in between.
NoDuplicateFds == IsInjective(pfds)

\* A handler is only called for a descriptor that has input, or that main()
\* has closed because it could not be greeted: what poll() reported still
\* holds when the action is performed, after the unlock and after the handlers
\* before it.  So the first read of a handler never blocks the reactor.
HandlerNeverBlocks ==
  pc = "act" /\ actions # << >> /\ Now.kind = "handle"
    => Now.fd \in readable \/ Now.fd \notin open

\* stop() "blocks until all currently polled operations are finished": once it
\* has joined the thread no action is left and no handler runs.
StopDrains ==
  apc \in {"clear", "set_running", "spawn", "ended", "threw"}
    => actions = << >> /\ pc = "none"

(* The inductive invariant.                                                  *)

\* There is a thread exactly when `thread' says so, and it is told to stop by
\* stop() alone.
ThreadInv ==
  /\ thread <=> pc # "none"
  /\ running <=> (thread /\ apc # "join") \/ apc = "spawn"
  /\ pc = "exited" => apc = "join"
  /\ apc = "join" => thread
  /\ apc \in {"clear", "set_running", "spawn", "ended", "threw"} => ~thread
  /\ pc \in {"none", "check", "poll", "exited"} => actions = << >>

\* The actions of a batch are for different descriptors; one whose handler is
\* yet to be called has input, unless main() gave the connection up.
BatchInv ==
  /\ \A i, j \in DOMAIN actions : actions[i].fd = actions[j].fd => i = j
  /\ \A i \in DOMAIN actions :
       actions[i].kind = "handle" /\ (i > 1 \/ pc = "act")
         => \/ actions[i].fd \in readable
            \/ /\ actions[i].fd \notin open
               /\ after = "threw" /\ apc \in {"stop", "join"}
  /\ pc \in InHandler => Now.kind = "handle"

IInv == /\ TypeOK /\ NoDuplicateFds /\ HandlerNeverBlocks /\ StopDrains
        /\ ThreadInv /\ BatchInv

-----------------------------------------------------------------------------
(* Liveness properties, of FairSpec.                                        *)

\* add_fd: "when events occur on it handler will be called", whatever happens
\* on the other descriptors, for as long as it stays registered.
EventHandled ==
  \A fd \in Fds :
    (running /\ fd \in ToSet(pfds) \cap readable)
      ~> (fd \notin ToSet(pfds) \cap readable \/ ~running \/ crashed)

\* A registered descriptor that is closed is unregistered, or handed out again.
ClosedFdRemoved ==
  \A fd \in Fds :
    (running /\ fd \in ToSet(pfds) \ open)
      ~> (fd \notin ToSet(pfds) \/ fd \in open \/ ~running \/ crashed)

\* stop() returns, also when the reactor is in the middle of a batch.
StopReturns == apc = "join" ~> (apc # "join" \/ crashed)

=============================================================================
