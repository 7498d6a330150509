--------------------------- MODULE WeightedGraph ----------------------------
(***************************************************************************)
(* What the class Graph of graphs/Graph.hpp promises: an undirected graph  *)
(* on a fixed set of vertices, in which two different vertices have one    *)
(* weight or no edge, and whose operations tell the previous weight or     *)
(* refuse.                                                                 *)
(***************************************************************************)
EXTENDS Integers

CONSTANTS
  Vertices,   \* the vertices of the graph
  Args,       \* the vertices callers may name
  Weights,    \* the weights callers may use
  NoEdge,     \* Graph::no_edge
  Threw,      \* the result of a call that was refused
  Zero        \* the weight of a self edge

VARIABLES
  built,    \* the constructor has returned
  edge,     \* of each pair of vertices, the weight or NoEdge
  result    \* what the last call returned

graphVars == <<built, edge, result>>

Pairs == {p \in SUBSET Vertices : \E a, b \in Vertices : a # b /\ p = {a, b}}

\* While it is constructed the graph is nobody's business.
Build ==
  /\ ~built
  /\ built' \in BOOLEAN
  /\ edge' \in [Pairs -> Weights \cup {NoEdge}]
  /\ UNCHANGED result

SetEdge(a, b, w) ==
  \/ /\ a \in Vertices /\ b \in Vertices /\ a # b
     /\ result' = edge[{a, b}]
     /\ edge' = [edge EXCEPT ![{a, b}] = w]
  \/ /\ a \in Vertices /\ a = b /\ w = Zero
     /\ result' = Zero
     /\ UNCHANGED edge

RemoveEdge(a, b) ==
  /\ a \in Vertices /\ b \in Vertices /\ a # b
  /\ result' = edge[{a, b}]
  /\ edge' = [edge EXCEPT ![{a, b}] = NoEdge]

\* A vertex that does not exist, or a self edge that may not be changed.
Refuse(a, b) ==
  /\ a \notin Vertices \/ b \notin Vertices \/ a = b
  /\ result' = Threw
  /\ UNCHANGED edge

GraphInit ==
  /\ built = FALSE
  /\ edge = [p \in Pairs |-> NoEdge]
  /\ result = NoEdge

GraphNext ==
  \/ Build
  \/ built /\ UNCHANGED built /\ \E a, b \in Args :
       \/ \E w \in Weights : SetEdge(a, b, w)
       \/ RemoveEdge(a, b)
       \/ Refuse(a, b)

Spec == GraphInit /\ [][GraphNext]_graphVars

=============================================================================
