---------------------------- MODULE GraphService -----------------------------
(***************************************************************************)
(* What a server with one graph for all its clients should be: a command   *)
(* takes effect at one moment between its arrival and its answer, on the   *)
(* graph that all the commands before it have left, and is answered by     *)
(* what it found at this moment.                                           *)
(***************************************************************************)
EXTENDS GraphCommands

CONSTANTS
  Callers,   \* whoever carries out a command
  Forests    \* TRUE: an MST command may be answered with a forest

VARIABLES
  graph,     \* the graph, or NoGraph
  call,      \* of each caller, the command it carries out
  answer     \* "idle", "none" before the effect, the answer after it

serviceVars == <<graph, call, answer>>

NoCommand == [op |-> "Unknown"]

\* The possible answers to an MST command.
MstAnswer(c, result) ==
  \/ result = Refusal(graph) /\ result # "none"
  \/ /\ graph # NoGraph /\ c.algo = "unknown"
     /\ result = "unknown algorithm"
  \/ /\ graph # NoGraph /\ c.algo # "unknown"
     /\ Connected(graph) /\ result = "tree"
  \/ /\ graph # NoGraph /\ c.algo = "kruskal"
     /\ Forests /\ ~Connected(graph) /\ result = "forest"

-----------------------------------------------------------------------------
Call(h) ==
  /\ answer[h] = "idle"
  /\ \E c \in Commands : call' = [call EXCEPT ![h] = c]
  /\ answer' = [answer EXCEPT ![h] = "none"]
  /\ UNCHANGED graph

\* The moment at which the command of h takes effect.
Effect(h) ==
  /\ answer[h] = "none"
  /\ LET c == call[h]
         Answer(result) == answer' = [answer EXCEPT ![h] = result]
     IN \/ /\ c.op = "Unknown"
           /\ Answer("unknown command") /\ UNCHANGED graph
        \/ /\ c.op = "MST"
           /\ \E result \in {"no graph", "not connected", "unknown algorithm",
                             "tree", "forest"} :
                MstAnswer(c, result) /\ Answer(result)
           /\ UNCHANGED graph
        \/ /\ c.op = "Newgraph"
           /\ graph' \in GraphsOf(Number(c.n)) /\ Answer("done")
        \/ /\ c.op \in {"Newedge", "Removeedge"} /\ graph = NoGraph
           /\ Answer("no graph") /\ UNCHANGED graph
        \/ /\ c.op \in {"Newedge", "Removeedge"} /\ graph # NoGraph
           /\ EdgeAccepted(graph, c)
           /\ graph' = EdgeEffect(graph, c)
           /\ Answer(EdgeReply(graph, c))
  /\ UNCHANGED call

Return(h) ==
  /\ answer[h] \notin {"idle", "none"}
  /\ call' = [call EXCEPT ![h] = NoCommand]
  /\ answer' = [answer EXCEPT ![h] = "idle"]
  /\ UNCHANGED graph

\* The end of the program.
Close ==
  /\ \A h \in Callers : answer[h] = "idle"
  /\ graph' = NoGraph
  /\ UNCHANGED <<call, answer>>

ServiceInit ==
  /\ graph = NoGraph
  /\ call = [h \in Callers |-> NoCommand]
  /\ answer = [h \in Callers |-> "idle"]

ServiceNext == Close \/ \E h \in Callers : Call(h) \/ Effect(h) \/ Return(h)

Spec == ServiceInit /\ [][ServiceNext]_serviceVars

=============================================================================
