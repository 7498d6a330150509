----------------------------- MODULE GraphServer -----------------------------
(***************************************************************************)
(* The graph service of main.cpp: calls of message_handler that run at the *)
(* same time on the threads of the LeaderFollower, and share the graph g   *)
(* under graph_mutex.  A call reads one command, carries it out and sends  *)
(* its answer.  The descriptors belong to module LeaderFollower; here a    *)
(* call is all there is of a connection.                                   *)
(***************************************************************************)
EXTENDS GraphCommands

CONSTANTS
  Handlers,   \* the calls of message_handler that may run at the same time
  None        \* no handler

ASSUME ServerAssumption == None \notin Handlers

VARIABLES
  graph,     \* g: NoGraph, or its size and the weight of each pair
  readers,   \* the calls that hold graph_mutex shared
  writer,    \* the call that holds it exclusively, or None
  pc,        \* where each call is
  cmd,       \* the command it carries out
  got,       \* the edges it has received
  left,      \* how many it still waits for
  seen,      \* the graph whose MST it has computed (history)
  reply,     \* what the client was told in answer to it
  server,    \* "running", "killed" by a client, "joining" the threads in the
             \* destructor of lf, or "ended"
  crashed    \* std::terminate, or a signal

vars == <<graph, readers, writer, pc, cmd, got, left, seen, reply, server,
          crashed>>

-----------------------------------------------------------------------------
(* Steps that the commands share.                                           *)

Goto(h, place) == pc' = [pc EXCEPT ![h] = place]

Crash ==
  /\ crashed' = TRUE
  /\ UNCHANGED <<graph, readers, writer, pc, cmd, got, left, seen, reply,
                 server>>

\* send_message: the client is answered, or the caller throws and nothing
\* catches the exception.
Tell(h, message, place) ==
  /\ reply' = [reply EXCEPT ![h] = message]
  /\ Goto(h, place)

LockFree == writer = None /\ readers = {}

\* A unique_lock of graph_mutex.
LockUnique(h, place) ==
  /\ LockFree
  /\ writer' = h
  /\ Goto(h, place)

Unlock(h) == writer' = None /\ readers' = readers \ {h}

-----------------------------------------------------------------------------
(* message_handler and the commands.                                        *)

FirstStep(c) ==
  CASE c.op = "MST" -> "mst_check"
    [] c.op = "Newgraph" -> "params"
    [] c.op \in {"Newedge", "Removeedge"} -> "edge_check"
    [] OTHER -> "unknown"

\* A call reads a command.  A client that closes or sends Exit ends the call
\* without touching the graph.
Start(h) ==
  /\ pc[h] = "idle" /\ server # "ended"
  /\ \E c \in Commands :
       /\ cmd' = [cmd EXCEPT ![h] = c]
       /\ Goto(h, FirstStep(c))
  /\ UNCHANGED <<graph, readers, writer, got, left, seen, reply, server,
                 crashed>>

\* Kill: the call ends after it has told main's loop to stop.
Kill(h) ==
  /\ pc[h] = "idle" /\ server = "running"
  /\ server' = "killed"
  /\ UNCHANGED <<graph, readers, writer, pc, cmd, got, left, seen, reply,
                 crashed>>

\* A command that is not known.  If it cannot say so the call ends without a
\* prompt, which makes no difference here.
Unknown(h) ==
  /\ pc[h] = "unknown"
  /\ Tell(h, "unknown command", "prompt")
  /\ UNCHANGED <<graph, readers, writer, cmd, got, left, seen, server, crashed>>

\* "Enter command: "; a failure only closes the connection.
Prompt(h) ==
  /\ pc[h] = "prompt"
  /\ Tell(h, "none", "idle")
  /\ cmd' = [cmd EXCEPT ![h] = [op |-> "Unknown"]]
  /\ UNCHANGED <<graph, readers, writer, got, left, seen, server, crashed>>

\* The test of g and of its connectivity, under a shared lock of its own.
MstCheck(h) ==
  /\ pc[h] = "mst_check" /\ writer = None
  /\ \/ /\ Tell(h, Refusal(graph),
                IF Refusal(graph) = "none" THEN "mst_lock" ELSE "prompt")
        /\ UNCHANGED <<graph, readers, writer, cmd, got, left, seen, server,
                       crashed>>
     \/ Refusal(graph) # "none" /\ Crash

\* Mutant: the second shared lock is forgotten.
MstLockNothing(h) ==
  /\ pc[h] = "mst_lock" /\ writer = None
  /\ Goto(h, "mst_run")
  /\ UNCHANGED <<graph, readers, writer, cmd, got, left, seen, reply, server,
                 crashed>>

\* The second shared lock: the graph may be another one by now.
MstLock(h) ==
  /\ pc[h] = "mst_lock" /\ writer = None
  /\ readers' = readers \cup {h}
  /\ Goto(h, "mst_run")
  /\ UNCHANGED <<graph, writer, cmd, got, left, seen, reply, server, crashed>>

\* Mutant: the early return keeps the lock.
MstUnknownHolding(h) ==
  /\ pc[h] = "mst_run" /\ cmd[h].algo = "unknown"
  /\ Tell(h, "unknown algorithm", "prompt")
  /\ UNCHANGED <<graph, readers, writer, cmd, got, left, seen, server, crashed>>

\* mst_strategy does not know the algorithm.  Whether the message could be
\* sent is not looked at.
MstUnknown(h) ==
  /\ pc[h] = "mst_run" /\ cmd[h].algo = "unknown"
  /\ Tell(h, "unknown algorithm", "prompt")
  /\ Unlock(h)
  /\ UNCHANGED <<graph, cmd, got, left, seen, server, crashed>>

\* Algorithm and distances.  Prim throws on a graph that is not connected.  On a
\* graph without vertices it takes the first of none, and so does the average
\* distance; if that does no harm the longest distance asks for vertex 0 and throws.
MstRun(h) ==
  /\ pc[h] = "mst_run" /\ cmd[h].algo # "unknown"
  /\ \/ /\ graph.n > 0
        /\ cmd[h].algo = "prim" => Connected(graph)
        /\ seen' = [seen EXCEPT ![h] = graph]
        /\ Goto(h, "mst_report")
        /\ UNCHANGED <<graph, readers, writer, cmd, got, left, reply, server,
                       crashed>>
     \/ /\ graph.n = 0 \/ (cmd[h].algo = "prim" /\ ~Connected(graph))
        /\ Crash

\* The report is complete and the lock is released.
MstUnlock(h) ==
  /\ pc[h] = "mst_report"
  /\ Unlock(h)
  /\ Goto(h, "mst_send")
  /\ UNCHANGED <<graph, cmd, got, left, seen, reply, server, crashed>>

MstSend(h) ==
  /\ pc[h] = "mst_send"
  /\ \/ /\ Tell(h, IF Connected(seen[h]) THEN "tree" ELSE "forest", "prompt")
        /\ seen' = [seen EXCEPT ![h] = NoGraph]
        /\ UNCHANGED <<graph, readers, writer, cmd, got, left, server, crashed>>
     \/ Crash

\* Newgraph and the edge commands: a missing parameter is reported, and then
\* read as 0.
Params(h) ==
  /\ pc[h] = "params"
  /\ \/ /\ IF Incomplete(cmd[h])
           THEN reply' = [reply EXCEPT ![h] = "ignored"]
           ELSE UNCHANGED reply
        /\ Goto(h, IF cmd[h].op = "Newgraph" THEN "newgraph_lock"
                                             ELSE "edge_lock")
        /\ UNCHANGED <<graph, readers, writer, cmd, got, left, seen, server,
                       crashed>>
     \/ Incomplete(cmd[h]) /\ Crash

\* Mutant: the old graph is dropped before the new one is there.
NewgraphLockDropping(h) ==
  /\ pc[h] = "newgraph_lock"
  /\ LockUnique(h, "newgraph_edges")
  /\ graph' = NoGraph
  /\ got' = [got EXCEPT ![h] = <<>>]
  /\ left' = [left EXCEPT ![h] = Number(cmd[h].m)]
  /\ UNCHANGED <<readers, cmd, seen, reply, server, crashed>>

NewgraphLock(h) ==
  /\ pc[h] = "newgraph_lock"
  /\ LockUnique(h, "newgraph_edges")
  /\ got' = [got EXCEPT ![h] = <<>>]
  /\ left' = [left EXCEPT ![h] = Number(cmd[h].m)]
  /\ UNCHANGED <<graph, readers, cmd, seen, reply, server, crashed>>

\* Mutant: the loop runs once more than it should.
ReceiveEdgeTooMany(h) ==
  /\ pc[h] = "newgraph_edges"
  /\ \E e \in Edges :
       got' = [got EXCEPT ![h] = Append(@, e)]
  /\ left' = [left EXCEPT ![h] = @ - 1]
  /\ UNCHANGED <<graph, readers, writer, pc, cmd, seen, reply, server, crashed>>

\* What the next read() gets, while graph_mutex is held: an edge, or a text that
\* is none, or the end of the connection.  Of several edges in one read() only the
\* first is used; and the pool may send other threads to the same descriptor, whose
\* calls take edges for commands.  So a client may have sent all it announced and
\* the call still be short of some: there may never be a next message.
ReceiveEdge(h) ==
  /\ pc[h] = "newgraph_edges" /\ left[h] > 0
  /\ \/ /\ \E e \in Edges :
             got' = [got EXCEPT ![h] = Append(@, e)]
        /\ left' = [left EXCEPT ![h] = @ - 1]
     \/ /\ left' = [left EXCEPT ![h] = @ - 1]
        /\ UNCHANGED got
     \/ /\ left' = [left EXCEPT ![h] = 0]
        /\ UNCHANGED got
  /\ UNCHANGED <<graph, readers, writer, pc, cmd, seen, reply, server, crashed>>

\* The new graph takes the place of the old one, unless its constructor throws.
Replace(h) ==
  /\ pc[h] = "newgraph_edges" /\ left[h] = 0
  /\ LET n == Number(cmd[h].n) IN
     \/ /\ \A k \in DOMAIN got[h] : Accepted(n, got[h][k])
        /\ graph' = Construct(n, got[h])
        /\ Unlock(h)
        /\ got' = [got EXCEPT ![h] = <<>>]
        /\ Goto(h, "prompt")
        /\ UNCHANGED <<cmd, left, seen, reply, server, crashed>>
     \/ /\ \E k \in DOMAIN got[h] : ~Accepted(n, got[h][k])
        /\ Crash

\* Newedge, Updateedge and Removeedge test g under a shared lock of their own.
EdgeCheck(h) ==
  /\ pc[h] = "edge_check" /\ writer = None
  /\ \/ /\ IF graph = NoGraph THEN Tell(h, "no graph", "prompt")
                             ELSE Goto(h, "params") /\ UNCHANGED reply
        /\ UNCHANGED <<graph, readers, writer, cmd, got, left, seen, server,
                       crashed>>
     \/ graph = NoGraph /\ Crash

\* Mutant: a shared lock for a command that writes.
EdgeLockShared(h) ==
  /\ pc[h] = "edge_lock" /\ writer = None
  /\ writer' = h
  /\ Goto(h, "edge_write")
  /\ UNCHANGED <<graph, readers, cmd, got, left, seen, reply, server, crashed>>

EdgeLock(h) ==
  /\ pc[h] = "edge_lock"
  /\ LockUnique(h, "edge_write")
  /\ UNCHANGED <<graph, readers, cmd, got, left, seen, reply, server, crashed>>

\* set_edge and remove_edge, and the answer.
EdgeWrite(h) ==
  /\ pc[h] = "edge_write"
  /\ \/ /\ EdgeAccepted(graph, cmd[h])
        /\ graph' = EdgeEffect(graph, cmd[h])
        /\ Tell(h, EdgeReply(graph, cmd[h]), "prompt")
        /\ Unlock(h)
        /\ UNCHANGED <<cmd, got, left, seen, server, crashed>>
     \/ Crash

-----------------------------------------------------------------------------
(* main and the destructors at the end of the program.                      *)

\* main notices the flag and returns; the destructor of lf waits for its
\* threads, which may still begin a call.
MainReturns ==
  /\ server = "killed"
  /\ server' = "joining"
  /\ UNCHANGED <<graph, readers, writer, pc, cmd, got, left, seen, reply,
                 crashed>>

\* main could not greet a new client.
GreetingFails == server = "running" /\ Crash

\* Mutant: g is defined after lf, and destroyed before it.
DestroyUnjoined ==
  /\ server = "joining"
  /\ server' = "ended"
  /\ graph' = NoGraph
  /\ UNCHANGED <<readers, writer, pc, cmd, got, left, seen, reply, crashed>>

\* All threads have been joined; g is destroyed last.
Destroy ==
  /\ server = "joining"
  /\ \A h \in Handlers : pc[h] = "idle"
  /\ server' = "ended"
  /\ graph' = NoGraph
  /\ UNCHANGED <<readers, writer, pc, cmd, got, left, seen, reply, crashed>>

-----------------------------------------------------------------------------
Init ==
  /\ graph = NoGraph
  /\ readers = {} /\ writer = None
  /\ pc = [h \in Handlers |-> "idle"]
  /\ cmd = [h \in Handlers |-> [op |-> "Unknown"]]
  /\ got = [h \in Handlers |-> <<>>]
  /\ left = [h \in Handlers |-> 0]
  /\ seen = [h \in Handlers |-> NoGraph]
  /\ reply = [h \in Handlers |-> "none"]
  /\ server = "running"
  /\ crashed = FALSE

MstStep(h) == MstCheck(h) \/ MstLock(h) \/ MstUnknown(h) \/ MstRun(h)
                \/ MstUnlock(h) \/ MstSend(h)

NewgraphStep(h) == NewgraphLock(h) \/ ReceiveEdge(h) \/ Replace(h)

EdgeStep(h) == EdgeCheck(h) \/ EdgeLock(h) \/ EdgeWrite(h)

\* What a call does once it has a command.
CallStep(h) == Unknown(h) \/ Prompt(h) \/ Params(h)
                 \/ MstStep(h) \/ NewgraphStep(h) \/ EdgeStep(h)

Next ==
  /\ ~crashed
  /\ \/ \E h \in Handlers : Start(h) \/ Kill(h) \/ CallStep(h)
     \/ MainReturns \/ GreetingFails \/ Destroy

Spec == Init /\ [][Next]_vars

\* The call waits in read() for an edge.
ForEdges(h) == pc[h] = "newgraph_edges" /\ left[h] > 0

\* The threads run, and one that asks for graph_mutex gets it if again and again
\* nobody holds it who would keep it out: strong fairness matters to the steps that
\* lock, and to no other.  Nothing makes a message arrive, and a lock that readers
\* pass from one to the next is never free for a writer.
Fairness ==
  \A h \in Handlers : SF_vars(~crashed /\ ~ForEdges(h) /\ CallStep(h))

FairSpec == Spec /\ Fairness

-----------------------------------------------------------------------------
(* Properties.                                                              *)

Locking  == {"mst_run", "mst_report"}
Writing  == {"newgraph_edges", "edge_write"}
Checked  == {"mst_lock", "mst_run", "mst_report", "edge_lock", "edge_write"}
Places   == Locking \cup Writing \cup Checked \cup
              {"idle", "unknown", "prompt", "params", "mst_check", "mst_send",
               "newgraph_lock", "edge_check"}

Replies ==
  {"none", "no graph", "not connected", "unknown command", "unknown algorithm",
   "tree", "forest", "ignored", "already exists", "was created",
   "does not exist", "was removed"}

\* The types, and the commands that wait for edges.
TypeOK ==
  /\ graph \in AllGraphs \cup {NoGraph}
  /\ readers \subseteq Handlers
  /\ writer \in Handlers \cup {None}
  /\ pc \in [Handlers -> Places]
  /\ cmd \in [Handlers -> Commands]
  /\ got \in [Handlers -> Seq(Edges)]
  /\ left \in [Handlers -> 0..MaxEdges]
  /\ seen \in [Handlers -> AllGraphs \cup {NoGraph}]
  /\ reply \in [Handlers -> Replies]
  /\ \A h \in Handlers : pc[h] \in {"newgraph_lock", "newgraph_edges"}
                           => cmd[h].op = "Newgraph"
  /\ server \in {"running", "killed", "joining", "ended"}
  /\ crashed \in BOOLEAN

\* graph_mutex is held by one writer or by readers, and exactly where the code
\* holds it: every return of every command has released it.
LockDiscipline ==
  /\ \A h \in Handlers : h \in readers <=> pc[h] \in Locking
  /\ \A h \in Handlers : h = writer <=> pc[h] \in Writing
  /\ writer # None => readers = {}

\* A call that has found a graph still finds one when it has taken the lock
\* again, and none runs when the graph is destroyed: g.get() is not null at
\* lines 101, 207 and 252.
GraphPresent ==
  /\ \A h \in Handlers :
       pc[h] \in Checked \/ (pc[h] = "params" /\ cmd[h].op # "Newgraph")
         => graph # NoGraph
  /\ server = "ended" => \A h \in Handlers : pc[h] = "idle"

\* The report of an MST is about one graph: what its four distances are
\* computed from is the graph that the algorithm has seen.
ReportOfOneGraph ==
  \A h \in Handlers : pc[h] = "mst_report" => seen[h] = graph

\* While a call computes an MST, no step of another call changes the graph.
UndisturbedWhileRead == [][readers # {} => graph' = graph]_vars

ToWrite(h)  == pc[h] \in {"newgraph_lock", "edge_lock"}
ToLock(h)   == pc[h] \in {"mst_check", "mst_lock", "edge_check"} \/ ToWrite(h)

\* Every command comes to an end: its call gives its thread back, or the program
\* is gone.  There are two exceptions, and no other.  A Newgraph may wait for edges
\* for ever, and then so does a command at the lock it holds; and a command that
\* wants to write waits as long as there is always some reader, although no
\* reader keeps the lock for good.
CommandAnswered ==
  \A h \in Handlers :
    \/ []<>(pc[h] = "idle" \/ crashed)
    \/ \E k \in Handlers : <>[](ForEdges(k) /\ (h = k \/ ToLock(h)))
    \/ /\ <>[](ToWrite(h) /\ readers # {})
       /\ \A k \in Handlers : []<>(k \notin readers)

\* "The graph is not connected, therefore has no MST": no report calls a graph
\* an MST that is none.
MstIsTree == \A h \in Handlers : reply[h] # "forest"

\* Each place belongs to some commands, and the prompt follows their answers.
CommandInv ==
  \A h \in Handlers :
    LET edge == cmd[h].op \in {"Newedge", "Removeedge"} IN
    /\ pc[h] = "idle" => cmd[h] = [op |-> "Unknown"]
    /\ pc[h] = "unknown" => cmd[h].op = "Unknown"
    /\ pc[h] \in {"mst_check", "mst_lock", "mst_run", "mst_report", "mst_send"}
         => cmd[h].op = "MST"
    /\ pc[h] \in {"mst_report", "mst_send"}
         => /\ seen[h] # NoGraph /\ cmd[h].algo # "unknown"
            /\ Connected(seen[h]) \/ cmd[h].algo = "kruskal"
    /\ pc[h] = "params" => edge \/ cmd[h].op = "Newgraph"
    /\ pc[h] \in {"edge_check", "edge_lock", "edge_write"} => edge
    /\ pc[h] = "prompt" /\ cmd[h].op # "Newgraph"
         => reply[h] \notin {"none", "ignored"}

IInv == /\ TypeOK /\ LockDiscipline /\ GraphPresent /\ ReportOfOneGraph
        /\ CommandInv

-----------------------------------------------------------------------------
(* Refinement.                                                              *)

\* The answer of a call is settled in the step that changes or reads the graph
\* under graph_mutex, and not by what happens before or after.
AnswerOf(h) ==
  CASE pc[h] = "idle" -> "idle"
    [] pc[h] = "prompt" -> IF cmd[h].op = "Newgraph" THEN "done" ELSE reply[h]
    [] pc[h] \in {"mst_report", "mst_send"} ->
         IF Connected(seen[h]) THEN "tree" ELSE "forest"
    [] OTHER -> "none"

answerBar == [h \in Handlers |-> AnswerOf(h)]

Service == INSTANCE GraphService WITH
  Callers <- Handlers,
  Forests <- TRUE,
  call    <- cmd,
  answer  <- answerBar

\* The commands of all clients, however their steps interleave, are carried out
\* as if each took place at one moment; but for the MST of a graph that is not
\* connected (see MstIsTree) the answers are those of this moment.
ImplementsService == Service!Spec

=============================================================================
