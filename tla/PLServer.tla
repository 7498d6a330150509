------------------------------ MODULE PLServer -------------------------------
(***************************************************************************)
(* The graph service of pl_main.cpp: the thread of the reactor r calls     *)
(* message_handler, one call at a time; an MST and its four distances are  *)
(* computed by six active objects, each with a thread of its own; main     *)
(* accepts connections, and leads to the destruction of all of these,      *)
(* while the reactor may still be running.                                 *)
(*                                                                         *)
(* Reactor and ActiveObject have the details of the two patterns.  An      *)
(* active object of this program has at most one call at a time, so what   *)
(* is left of it is the state of this call, of its dispatcher and of its   *)
(* destructor.                                                             *)
(***************************************************************************)
EXTENDS GraphCommands

CONSTANT
  MaxBatch    \* bound: the descriptors on which one poll() reports input

ASSUME PLAssumption == MaxBatch \in Nat \ {0}

\* prim_ao, kruskal_ao, total_ao, ..., in the order in which they are constructed.
Objects == <<"prim", "kruskal", "total", "avg", "shortest", "longest">>
Names == {"prim", "kruskal", "total", "avg", "shortest", "longest"}
Distances == {"total", "avg", "shortest", "longest"}

\* o is constructed before p.
Before(o, p) ==
  \E k, l \in 1..6 : Objects[k] = o /\ Objects[l] = p /\ k < l

VARIABLES
  graph,      \* what g points to, or pointed to until it was deleted
  dangling,   \* g was deleted and not yet replaced
  lock,       \* how the reactor thread holds graph_mutex
  pc,         \* where the reactor thread is
  batch,      \* how many handlers it has still to call after this poll()
  cmd,        \* the command that message_handler carries out
  got, left,  \* the edges it has received, and how many it still waits for
  mst,        \* what the future of the algorithm has returned
  reply,      \* what the client was told in answer to the command
  calls,      \* of each active object, its call: "none", "queued", "running",
              \* and then "value" or "broken"; "lost" when the object is gone
  dispatch,   \* of each, its dispatcher: "loop", "run", in its "last" iteration
              \* because `done' is set, or "out"
  life,       \* of each: "up", "closing" in the destructor, "joined" when it has
              \* joined the dispatcher, "gone"
  running,    \* main's flag `running'
  flag,       \* the reactor's flag `running'
  mpc,        \* where the main thread is
  crashed     \* std::terminate, or a signal

graphVars   == <<graph, dangling, lock>>
commandVars == <<cmd, got, left, mst, reply>>
objectVars  == <<calls, dispatch, life>>
mainVars    == <<running, flag, mpc>>
vars == <<graphVars, pc, batch, commandVars, objectVars, mainVars, crashed>>

-----------------------------------------------------------------------------
(* The reactor thread: reactor_main and the start of a handler.             *)

Crash ==
  /\ crashed' = TRUE
  /\ UNCHANGED <<graphVars, pc, batch, commandVars, objectVars, mainVars>>

FirstStep(c) ==
  CASE c.op = "MST" -> "mst_check"
    [] c.op = "Newgraph" -> "params"
    [] c.op \in {"Newedge", "Removeedge"} -> "edge_check"
    [] OTHER -> "unknown"

\* The flag, and a poll() that reports some descriptors or none.
Poll ==
  /\ pc = "check"
  /\ IF flag THEN pc' = "act" /\ batch' \in 0..MaxBatch
             ELSE pc' = "exited" /\ UNCHANGED batch
  /\ UNCHANGED <<graphVars, commandVars, objectVars, mainVars, crashed>>

BatchDone ==
  /\ pc = "act" /\ batch = 0
  /\ pc' = "check"
  /\ UNCHANGED <<graphVars, batch, commandVars, objectVars, mainVars, crashed>>

\* message_handler reads a command.
Start ==
  /\ pc = "act" /\ batch > 0
  /\ \E c \in Commands : cmd' = c /\ pc' = FirstStep(c)
  /\ UNCHANGED <<graphVars, batch, got, left, mst, reply, objectVars, mainVars,
                 crashed>>

\* Exit, the end of the connection, or Kill, which also tells main to return.
Leave ==
  /\ pc = "act" /\ batch > 0
  /\ batch' = batch - 1
  /\ running' \in {running, FALSE}
  /\ UNCHANGED <<graphVars, pc, commandVars, objectVars, flag, mpc, crashed>>

\* message_handler goes on at a place, and nothing but it has changed.
Goto(place) ==
  /\ pc' = place
  /\ UNCHANGED <<batch, cmd, got, left, mst, objectVars, mainVars, crashed>>

\* The client is told something.
Tell(message, place) == reply' = message /\ Goto(place)

\* An answer that cannot be sent is an exception that nothing catches.
Unknown ==
  /\ pc = "unknown"
  /\ \/ Tell("unknown command", "prompt") /\ UNCHANGED graphVars
     \/ Crash

\* "Enter command: "; a failure only closes the connection.
Prompt ==
  /\ pc = "prompt"
  /\ reply' = "none"
  /\ pc' = "act"
  /\ cmd' = [op |-> "Unknown"]
  /\ batch' = batch - 1
  /\ UNCHANGED <<graphVars, got, left, mst, objectVars, mainVars, crashed>>

-----------------------------------------------------------------------------
(* MST.                                                                     *)

\* The tests of g, under a shared lock that does not outlive the step.
MstCheck ==
  /\ pc = "mst_check" /\ lock = "none"
  /\ \/ /\ Tell(Refusal(graph),
                IF Refusal(graph) = "none" THEN "mst_lock" ELSE "prompt")
        /\ UNCHANGED graphVars
     \/ Refusal(graph) # "none" /\ Crash

\* mst_strategy does not know the algorithm; the second lock is released.
MstUnknown ==
  /\ pc = "mst_lock" /\ lock = "none" /\ cmd.algo = "unknown"
  /\ Tell("unknown algorithm", "prompt")
  /\ UNCHANGED graphVars

\* o(...).  Once the object is destroyed this is undefined: it may do harm, or
\* leave a future that nobody will resolve.
Invoke(o) ==
  calls' = [calls EXCEPT ![o] = IF life[o] = "gone" THEN "lost" ELSE "queued"]

\* prim_ao(g) or kruskal_ao(g).
MstInvoke ==
  /\ pc = "mst_lock" /\ lock = "none" /\ cmd.algo # "unknown"
  /\ \/ /\ lock' = "shared"
        /\ Invoke(cmd.algo)
        /\ pc' = "mst_wait"
        /\ UNCHANGED <<graph, dangling, batch, commandVars, dispatch, life,
                       mainVars, crashed>>
     \/ life[cmd.algo] = "gone" /\ Crash

\* mst_fut.wait() and get(), which throws if the promise was broken.
MstWait ==
  /\ pc = "mst_wait"
  /\ \/ /\ calls[cmd.algo] = "value"
        /\ calls' = [calls EXCEPT ![cmd.algo] = "none"]
        /\ mst' = IF Connected(graph) THEN "tree" ELSE "forest"
        /\ pc' = "mst_ask"
        /\ UNCHANGED <<graphVars, batch, cmd, got, left, reply, dispatch, life,
                       mainVars, crashed>>
     \/ calls[cmd.algo] = "broken" /\ Crash

\* The four calls, in their order, with a pointer to the local Subgraph.
MstAsk ==
  /\ pc = "mst_ask"
  /\ \E o \in Distances :
       /\ calls[o] = "none"
       /\ \A p \in Distances : Before(p, o) => calls[p] # "none"
       /\ \/ /\ Invoke(o)
             /\ pc' = IF o = "longest" THEN "mst_gather" ELSE pc
             /\ UNCHANGED <<graphVars, batch, commandVars, dispatch, life,
                            mainVars, crashed>>
          \/ life[o] = "gone" /\ Crash

\* Mutant: the last future is not waited for.
MstGatherThree ==
  /\ pc = "mst_gather"
  /\ \A o \in Distances \ {"longest"} : calls[o] = "value"
  /\ calls' = [o \in Names |-> IF o \in {"total", "avg", "shortest"}
                               THEN "none" ELSE calls[o]]
  /\ lock' = "none"
  /\ pc' = "mst_send"
  /\ UNCHANGED <<graph, dangling, batch, commandVars, dispatch, life,
                 mainVars, crashed>>

\* All four futures have been waited for; then get() of each, the end of the
\* lifetime of the Subgraph and of the lock.
MstGather ==
  /\ pc = "mst_gather"
  /\ \A o \in Distances : calls[o] \in {"value", "broken"}
  /\ \/ /\ \A o \in Distances : calls[o] = "value"
        /\ calls' = [o \in Names |-> IF o \in Distances THEN "none" ELSE calls[o]]
        /\ lock' = "none"
        /\ pc' = "mst_send"
        /\ UNCHANGED <<graph, dangling, batch, commandVars, dispatch, life,
                       mainVars, crashed>>
     \/ (\E o \in Distances : calls[o] = "broken") /\ Crash

MstSend ==
  /\ pc = "mst_send"
  /\ \/ /\ reply' = mst /\ mst' = "none" /\ pc' = "prompt"
        /\ UNCHANGED <<graphVars, batch, cmd, got, left, objectVars, mainVars,
                       crashed>>
     \/ Crash

-----------------------------------------------------------------------------
(* Newgraph, Newedge, Updateedge and Removeedge.                            *)

\* A missing parameter is reported, and then read as 0.
Params ==
  /\ pc = "params"
  /\ \/ /\ Tell(IF Incomplete(cmd) THEN "ignored" ELSE reply,
                IF cmd.op = "Newgraph" THEN "newgraph_lock" ELSE "edge_write")
        /\ UNCHANGED graphVars
     \/ Incomplete(cmd) /\ Crash

\* The unique lock, and delete g: from here to `g = new' it points to nothing.
NewgraphLock ==
  /\ pc = "newgraph_lock" /\ lock = "none"
  /\ lock' = "unique"
  /\ dangling' = (graph # NoGraph)
  /\ got' = << >>
  /\ left' = Number(cmd.m)
  /\ pc' = "newgraph_edges"
  /\ UNCHANGED <<graph, batch, cmd, mst, reply, objectVars, mainVars, crashed>>

\* What the next read() gets: an edge, of several the first; a text that is none;
\* or the end of the connection, which is caught and ends the loop.
ReceiveEdge ==
  /\ pc = "newgraph_edges" /\ left > 0
  /\ \/ (\E e \in Edges : got' = Append(got, e)) /\ left' = left - 1
     \/ left' \in {left - 1, 0} /\ UNCHANGED got
  /\ UNCHANGED <<graphVars, pc, batch, cmd, mst, reply, objectVars, mainVars,
                 crashed>>

\* Mutant: the exception of the constructor is caught as well.
ReplaceCaught ==
  /\ pc = "newgraph_edges" /\ left = 0
  /\ LET n == Number(cmd.n) IN
     \/ /\ \A k \in DOMAIN got : Accepted(n, got[k])
        /\ graph' = Construct(n, got) /\ dangling' = FALSE
     \/ /\ \E k \in DOMAIN got : ~Accepted(n, got[k])
        /\ UNCHANGED <<graph, dangling>>
  /\ got' = << >> /\ lock' = "none" /\ pc' = "prompt"
  /\ UNCHANGED <<batch, cmd, left, mst, reply, objectVars, mainVars, crashed>>

\* g = new AdjacencyGraph(n, edges); what its constructor throws is not caught.
Replace ==
  /\ pc = "newgraph_edges" /\ left = 0
  /\ LET n == Number(cmd.n) IN
     \/ /\ \A k \in DOMAIN got : Accepted(n, got[k])
        /\ graph' = Construct(n, got) /\ dangling' = FALSE
        /\ got' = << >> /\ lock' = "none" /\ pc' = "prompt"
        /\ UNCHANGED <<batch, cmd, left, mst, reply, objectVars, mainVars, crashed>>
     \/ /\ \E k \in DOMAIN got : ~Accepted(n, got[k])
        /\ Crash

EdgeCheck ==
  /\ pc = "edge_check" /\ lock = "none"
  /\ \/ /\ IF graph = NoGraph THEN Tell("no graph", "prompt")
                             ELSE Goto("params") /\ UNCHANGED reply
        /\ UNCHANGED graphVars
     \/ graph = NoGraph /\ Crash

\* The unique lock, set_edge or remove_edge, and the answer.
EdgeWrite ==
  /\ pc = "edge_write" /\ lock = "none"
  /\ \/ /\ EdgeAccepted(graph, cmd)
        /\ graph' = EdgeEffect(graph, cmd)
        /\ Tell(EdgeReply(graph, cmd), "prompt")
        /\ UNCHANGED <<dangling, lock>>
     \/ Crash

-----------------------------------------------------------------------------
(* The dispatcher of the active object o.                                   *)

\* It takes the method object out of the queue.
Take(o) ==
  /\ dispatch[o] \in {"loop", "last"} /\ calls[o] = "queued"
  /\ dispatch' = [dispatch EXCEPT ![o] = "run"]
  /\ calls' = [calls EXCEPT ![o] = "running"]
  /\ UNCHANGED <<graphVars, pc, batch, commandVars, life, mainVars, crashed>>

\* What the functions of the active objects do to a graph without vertices, and
\* prim to one that is not connected: the exception leaves the dispatcher thread.
Fatal(o) ==
  \/ graph.n = 0 /\ o \in {"prim", "avg", "longest"}
  \/ o = "prim" /\ ~Connected(graph)

\* The function returns, and the promise has its value.
Return(o) ==
  /\ dispatch[o] = "run"
  /\ \/ /\ ~Fatal(o)
        /\ calls' = [calls EXCEPT ![o] = "value"]
        /\ dispatch' = [dispatch EXCEPT ![o] = IF life[o] = "up" THEN "loop"
                                                                 ELSE "out"]
        /\ UNCHANGED <<graphVars, pc, batch, commandVars, life, mainVars, crashed>>
     \/ Fatal(o) /\ Crash

\* Its last wait_for() times out.
TimeOut(o) ==
  /\ dispatch[o] = "last" /\ calls[o] # "queued"
  /\ dispatch' = [dispatch EXCEPT ![o] = "out"]
  /\ UNCHANGED <<graphVars, pc, batch, commandVars, calls, life, mainVars, crashed>>

-----------------------------------------------------------------------------
(* main.                                                                    *)

\* while (running): main returns, and the static objects are destroyed.
MainReturns ==
  /\ mpc = "loop" /\ ~running
  /\ mpc' = "returned"
  /\ UNCHANGED <<graphVars, pc, batch, commandVars, objectVars, running, flag,
                 crashed>>

\* Mutant: exit() without stopping the reactor.
AcceptExits ==
  /\ mpc = "loop"
  /\ mpc' = "exit"
  /\ UNCHANGED <<graphVars, pc, batch, commandVars, objectVars, running, flag,
                 crashed>>

\* accept() fails: the reactor is stopped, and main exits.
AcceptFails ==
  /\ mpc = "loop"
  /\ mpc' = "stop_exit"
  /\ flag' = FALSE
  /\ UNCHANGED <<graphVars, pc, batch, commandVars, objectVars, running, crashed>>

\* A new client cannot be greeted: the reactor is stopped, and main throws.
GreetingFails ==
  /\ mpc = "loop"
  /\ mpc' = "stop_throw"
  /\ flag' = FALSE
  /\ UNCHANGED <<graphVars, pc, batch, commandVars, objectVars, running, crashed>>

\* stop() has joined the reactor thread.
Stopped ==
  /\ pc = "exited"
  /\ \/ /\ mpc = "stop_exit" /\ mpc' = "exit"
        /\ UNCHANGED <<graphVars, pc, batch, commandVars, objectVars, running, flag,
                       crashed>>
     \/ mpc = "stop_throw" /\ Crash

\* The destructor of the active object that was constructed last begins.
SetDone(o) ==
  /\ mpc \in {"returned", "exit"} /\ life[o] = "up"
  /\ \A p \in Names : Before(o, p) => life[p] = "gone"
  /\ life' = [life EXCEPT ![o] = "closing"]
  /\ \/ dispatch[o] = "run" /\ UNCHANGED dispatch
     \/ /\ dispatch[o] = "loop"
        /\ \E where \in {"last", "out"} :
             dispatch' = [dispatch EXCEPT ![o] = where]
  /\ UNCHANGED <<graphVars, pc, batch, commandVars, calls, mainVars, crashed>>

Join(o) ==
  /\ life[o] = "closing" /\ dispatch[o] = "out"
  /\ life' = [life EXCEPT ![o] = "joined"]
  /\ UNCHANGED <<graphVars, pc, batch, commandVars, calls, dispatch, mainVars,
                 crashed>>

\* Mutant: the promises in the queue are not destroyed.
LeakMembers(o) ==
  /\ life[o] = "joined"
  /\ life' = [life EXCEPT ![o] = "gone"]
  /\ UNCHANGED <<graphVars, pc, batch, commandVars, calls, dispatch, mainVars,
                 crashed>>

\* The members of the active object are destroyed, and with them a promise that is
\* still in the queue.
DestroyMembers(o) ==
  /\ life[o] = "joined"
  /\ life' = [life EXCEPT ![o] = "gone"]
  /\ calls' = [calls EXCEPT ![o] = IF @ = "queued" THEN "broken" ELSE @]
  /\ UNCHANGED <<graphVars, pc, batch, commandVars, dispatch, mainVars, crashed>>

AllGone == \A o \in Names : life[o] = "gone"

\* ~Reactor() comes last: it stops the reactor, if it is not stopped already.
DestroyReactor ==
  /\ AllGone
  /\ \/ mpc = "exit" /\ mpc' = "ended" /\ UNCHANGED flag
     \/ mpc = "returned" /\ mpc' = "joining" /\ flag' = FALSE
     \/ mpc = "joining" /\ pc = "exited" /\ mpc' = "ended" /\ UNCHANGED flag
  /\ UNCHANGED <<graphVars, pc, batch, commandVars, objectVars, running, crashed>>

-----------------------------------------------------------------------------
\* main has started the reactor.
Init ==
  /\ graph = NoGraph /\ dangling = FALSE /\ lock = "none"
  /\ pc = "check" /\ batch = 0
  /\ cmd = [op |-> "Unknown"] /\ got = << >> /\ left = 0
  /\ mst = "none" /\ reply = "none"
  /\ calls = [o \in Names |-> "none"]
  /\ dispatch = [o \in Names |-> "loop"]
  /\ life = [o \in Names |-> "up"]
  /\ running = TRUE /\ flag = TRUE /\ mpc = "loop"
  /\ crashed = FALSE

MstStep == MstCheck \/ MstUnknown \/ MstInvoke \/ MstWait \/ MstAsk \/ MstGather
             \/ MstSend

NewgraphStep == NewgraphLock \/ ReceiveEdge \/ Replace

EdgeStep == EdgeCheck \/ EdgeWrite

ReactorStep == Poll \/ BatchDone \/ Start \/ Leave \/ Unknown \/ Prompt \/ MstStep
                 \/ Params \/ NewgraphStep \/ EdgeStep

Dispatcher(o) == Take(o) \/ Return(o) \/ TimeOut(o)

DestroyStep == DestroyReactor \/ \E o \in Names : SetDone(o) \/ Join(o)
                                                    \/ DestroyMembers(o)

Next ==
  /\ ~crashed
  /\ \/ ReactorStep
     \/ \E o \in Names : Dispatcher(o)
     \/ MainReturns \/ AcceptFails \/ GreetingFails \/ Stopped \/ DestroyStep

Spec == Init /\ [][Next]_vars

\* All threads run, and a client that has sent Newgraph goes on sending until there
\* have been as many reads as it announced edges, or closes.  (Only this thread
\* reads from it.)  Nothing is assumed of accept() and of the commands.
FairSpec ==
  /\ Spec
  /\ WF_vars(~crashed /\ ReactorStep)
  /\ \A o \in Names : WF_vars(~crashed /\ Dispatcher(o))
  /\ WF_vars(~crashed /\ (MainReturns \/ Stopped \/ DestroyStep))

-----------------------------------------------------------------------------
(* Properties.                                                              *)

Places ==
  {"check", "act", "exited", "unknown", "prompt", "mst_check", "mst_lock",
   "mst_wait", "mst_ask", "mst_gather", "mst_send", "params", "newgraph_lock",
   "newgraph_edges", "edge_check", "edge_write"}

Replies ==
  {"none", "no graph", "not connected", "unknown command", "unknown algorithm",
   "tree", "forest", "ignored", "already exists", "was created",
   "does not exist", "was removed"}

TypeOK ==
  /\ graph \in AllGraphs \cup {NoGraph}
  /\ dangling \in BOOLEAN /\ lock \in {"none", "shared", "unique"}
  /\ pc \in Places /\ batch \in 0..MaxBatch
  /\ cmd \in Commands /\ got \in Seq(Edges) /\ left \in 0..MaxEdges
  /\ mst \in {"none", "tree", "forest"} /\ reply \in Replies
  /\ calls \in [Names -> {"none", "queued", "running", "value", "broken", "lost"}]
  /\ dispatch \in [Names -> {"loop", "run", "last", "out"}]
  /\ life \in [Names -> {"up", "closing", "joined", "gone"}]
  /\ running \in BOOLEAN /\ flag \in BOOLEAN /\ crashed \in BOOLEAN
  /\ mpc \in {"loop", "stop_exit", "stop_throw", "exit", "returned", "joining",
              "ended"}

\* Where the reactor thread waits for the algorithm, and for the distances.
Measuring == {"mst_ask", "mst_gather"}
Sharing   == {"mst_wait"} \cup Measuring

\* The active objects only run while what they were given a pointer to is there:
\* the algorithms while the handler that holds graph_mutex waits for them, the
\* distances while it has not left the block of MST_Graph; and g is not used
\* between the delete and the new.
PointersValid ==
  /\ \A o \in Names :
       calls[o] # "none" =>
         IF o \in Distances THEN pc \in Measuring
                            ELSE pc = "mst_wait" /\ o = cmd.algo
  /\ dangling => pc = "newgraph_edges"
  /\ lock = "shared" <=> pc \in Sharing
  /\ lock = "unique" <=> pc = "newgraph_edges"

\* Only a Kill destroys active objects that the reactor may still call: both other
\* ways out of main's loop have stopped it before.
CleanExit ==
  /\ \A o \in Names : life[o] # "up" => pc = "exited" \/ ~running
  /\ mpc = "ended" => pc = "exited" /\ AllGone

\* A dispatcher and the call it has; a future is only broken or lost once the
\* object is gone.
ObjectInv ==
  \A o \in Names :
    /\ dispatch[o] = "run" <=> calls[o] = "running"
    /\ dispatch[o] = "loop" => life[o] = "up"
    /\ dispatch[o] = "last" => life[o] = "closing"
    /\ dispatch[o] = "out" => life[o] # "up"
    /\ life[o] \in {"joined", "gone"} => dispatch[o] = "out"
    /\ calls[o] \in {"broken", "lost"} => life[o] = "gone"
    /\ life[o] = "gone" => calls[o] # "queued"

MainInv ==
  /\ pc = "exited" => ~flag
  /\ ~flag <=> mpc \notin {"loop", "returned"}
  /\ mpc \in {"exit", "ended"} => pc = "exited"
  /\ mpc \in {"returned", "joining"} => ~running
  /\ mpc \in {"joining", "ended"} => AllGone
  /\ (\E o \in Names : life[o] # "up")
       => mpc \in {"exit", "returned", "joining", "ended"}
  /\ pc \notin {"check", "act", "exited"} => batch > 0

CommandInv ==
  LET edge == cmd.op \in {"Newedge", "Removeedge"} IN
  /\ pc \in {"check", "act", "exited"} => cmd = [op |-> "Unknown"]
  /\ pc = "unknown" => cmd.op = "Unknown"
  /\ pc \in {"mst_check", "mst_lock", "mst_send"} \cup Sharing => cmd.op = "MST"
  /\ pc \in {"mst_lock", "mst_send"} \cup Sharing
       => graph # NoGraph /\ Connected(graph)
  /\ pc \in Sharing \cup {"mst_send"} => cmd.algo # "unknown"
  /\ mst = IF pc \in Measuring \cup {"mst_send"} THEN "tree" ELSE "none"
  /\ pc = "params" => (edge /\ graph # NoGraph) \/ cmd.op = "Newgraph"
  /\ pc = "edge_check" => edge
  /\ pc = "edge_write" => edge /\ graph # NoGraph
  /\ pc \in {"newgraph_lock", "newgraph_edges"} => cmd.op = "Newgraph"
  /\ pc = "prompt" /\ cmd.op # "Newgraph" => reply \notin {"none", "ignored"}

IInv == /\ TypeOK /\ PointersValid /\ CleanExit /\ ObjectInv /\ MainInv
        /\ CommandInv

\* A Kill ends the program, unless a client's MST calls an active object that is
\* destroyed by then and leaves the reactor waiting for a future that nobody will
\* resolve.
ServerEnds ==
  ~running ~> mpc = "ended" \/ crashed \/ \E o \in Names : calls[o] = "lost"

-----------------------------------------------------------------------------
(* Refinement.                                                              *)

AnswerOf ==
  CASE pc \in {"check", "act", "exited"} -> "idle"
    [] pc = "prompt" -> IF cmd.op = "Newgraph" THEN "done" ELSE reply
    [] pc \in Measuring \cup {"mst_send"} -> mst
    [] OTHER -> "none"

Service == INSTANCE GraphService WITH
  Callers <- {"reactor"},
  Forests <- FALSE,
  call    <- [h \in {"reactor"} |-> cmd],
  answer  <- [h \in {"reactor"} |-> AnswerOf]

\* The commands are carried out one at a time, and an MST command is answered with a
\* spanning tree of the graph or with what the graph lacks, whatever the objects and
\* main do meanwhile.  (GraphServer, with its threads, may answer with a forest.)
ImplementsService == Service!Spec

=============================================================================
