--------------------------- MODULE AdjacencyGraph ---------------------------
(***************************************************************************)
(* The graph of graphs/AdjacencyGraph.cpp: a square matrix of weights, the *)
(* constructor that fills it from a list of edges, one iteration of a loop *)
(* at a time, and the operations set_edge and remove_edge.                 *)
(*                                                                         *)
(* Weights are the values of a double that the code tells apart: 0, the    *)
(* other weights, and no_edge, the largest double.                         *)
(***************************************************************************)
EXTENDS Integers, Sequences

CONSTANTS
  N,         \* the number of vertices
  Args,      \* the vertex numbers that callers use
  Weights,   \* the weights that callers use
  no_edge,   \* Graph::no_edge
  Threw,     \* the result of a call that throws invalid_argument
  MaxEdges   \* bound: the number of edges given to the constructor

Vertices == 0..(N - 1)

ASSUME GraphAssumption ==
  /\ N \in Nat
  /\ Args \subseteq Nat
  /\ 0 \in Weights /\ no_edge \notin Weights
  /\ Threw \notin Weights \cup {no_edge}
  /\ MaxEdges \in Nat

VARIABLES
  adjacency_matrix,
  phase,    \* "edges", "diagonal", "ready", or "failed" when the constructor
            \* has thrown
  todo,     \* how many edges the constructor has still to set, at most
  i,        \* the loop index of the constructor's last loop
  result    \* what the last call of set_edge or remove_edge returned

vars == <<adjacency_matrix, phase, todo, i, result>>

-----------------------------------------------------------------------------
\* Mutant: only one half of the matrix is written.
WriteHalf(src, dst, w) == [adjacency_matrix EXCEPT ![src][dst] = w]

\* The two assignments to the matrix in set_edge and remove_edge.
Write(src, dst, w) == [adjacency_matrix EXCEPT ![src][dst] = w,
                                               ![dst][src] = w]

InRange(src, dst) == src < N /\ dst < N

\* Mutant: the previous weight is read after the assignment.
set_edge_late(src, dst, w) ==
  IF InRange(src, dst) /\ (src = dst => w = 0)
  THEN /\ adjacency_matrix' = Write(src, dst, w)
       /\ result' = w
  ELSE result' = Threw /\ UNCHANGED adjacency_matrix

set_edge(src, dst, w) ==
  IF InRange(src, dst) /\ (src = dst => w = 0)
  THEN /\ adjacency_matrix' = Write(src, dst, w)
       /\ result' = adjacency_matrix[src][dst]
  ELSE result' = Threw /\ UNCHANGED adjacency_matrix

\* Mutant: a self edge may be removed.
remove_edge_self(src, dst) ==
  IF InRange(src, dst)
  THEN /\ adjacency_matrix' = Write(src, dst, no_edge)
       /\ result' = adjacency_matrix[src][dst]
  ELSE result' = Threw /\ UNCHANGED adjacency_matrix

remove_edge(src, dst) ==
  IF InRange(src, dst) /\ src # dst
  THEN /\ adjacency_matrix' = Write(src, dst, no_edge)
       /\ result' = adjacency_matrix[src][dst]
  ELSE result' = Threw /\ UNCHANGED adjacency_matrix

\* get_neighbors(v): a row of the matrix without the diagonal.
get_neighbors(v) ==
  {u \in Vertices : adjacency_matrix[v][u] # no_edge /\ u # v}

\* get_edges(): the entries above the diagonal.
get_edges ==
  {e \in Vertices \X Vertices :
     e[1] < e[2] /\ adjacency_matrix[e[1]][e[2]] # no_edge}

-----------------------------------------------------------------------------
(* The constructor.                                                         *)

\* One edge of the list.  An exception leaves no graph behind.
ConstructEdge ==
  /\ phase = "edges" /\ todo > 0
  /\ \E a, b \in Args, w \in Weights :
       /\ set_edge(a, b, w)
       /\ IF result' = Threw THEN phase' = "failed" /\ UNCHANGED todo
                             ELSE todo' = todo - 1 /\ UNCHANGED phase
  /\ UNCHANGED i

\* The list ends.
EdgesDone ==
  /\ phase = "edges"
  /\ phase' = "diagonal"
  /\ UNCHANGED <<adjacency_matrix, todo, i, result>>

\* One iteration of the loop that gives every vertex a self edge.
ConstructDiagonal ==
  /\ phase = "diagonal" /\ i < N
  /\ set_edge(i, i, 0)
  /\ i' = i + 1
  /\ UNCHANGED <<phase, todo>>

\* The constructor returns; no call has been made on the new graph.
DiagonalDone ==
  /\ phase = "diagonal" /\ i >= N
  /\ phase' = "ready"
  /\ result' = no_edge
  /\ UNCHANGED <<adjacency_matrix, todo, i>>

\* A call of set_edge or remove_edge on the finished graph.
Operate ==
  /\ phase = "ready"
  /\ \E a, b \in Args :
       \/ \E w \in Weights : set_edge(a, b, w)
       \/ remove_edge(a, b)
  /\ UNCHANGED <<phase, todo, i>>

Init ==
  /\ adjacency_matrix = [a \in Vertices |-> [b \in Vertices |-> no_edge]]
  /\ phase = "edges"
  /\ todo = MaxEdges
  /\ i = 0
  /\ result = no_edge

Next == ConstructEdge \/ EdgesDone \/ ConstructDiagonal \/ DiagonalDone
          \/ Operate

Spec == Init /\ [][Next]_vars

-----------------------------------------------------------------------------
(* Properties.                                                              *)

Stored == Weights \cup {no_edge}

TypeOK ==
  /\ adjacency_matrix \in [Vertices -> [Vertices -> Stored]]
  /\ phase \in {"edges", "diagonal", "ready", "failed"}
  /\ todo \in 0..MaxEdges
  /\ i \in 0..N
  /\ result \in Stored \cup {Threw}

\* The matrix stays symmetric.
Symmetric ==
  \A a, b \in Vertices : adjacency_matrix[a][b] = adjacency_matrix[b][a]

\* Self edges have the weight 0 once the constructor has set them, whatever
\* edges it was given before and whatever operations follow.
SelfEdgesZero ==
  /\ \A a \in Vertices :
       /\ adjacency_matrix[a][a] \in {0, no_edge}
       /\ a < i => adjacency_matrix[a][a] = 0
  /\ phase = "ready" => i >= N

\* get_edges(), which Kruskal uses, and get_neighbors(), which Prim and
\* is_connected use, describe the same undirected graph.
EdgesAgreeWithNeighbors ==
  \A a, b \in Vertices :
    b \in get_neighbors(a) <=> <<a, b>> \in get_edges \/ <<b, a>> \in get_edges

IInv == TypeOK /\ Symmetric /\ SelfEdgesZero

-----------------------------------------------------------------------------
(* Refinement.                                                              *)

VertexPairs == {p \in SUBSET Vertices :
                  \E a, b \in Vertices : a # b /\ p = {a, b}}

\* The entry above the diagonal that belongs to a pair of vertices.
Entry(p) ==
  CHOOSE w \in Stored : \E a, b \in p : a < b /\ w = adjacency_matrix[a][b]

edgeBar   == [p \in VertexPairs |-> Entry(p)]
resultBar == IF phase = "ready" THEN result ELSE no_edge

Abstract == INSTANCE WeightedGraph WITH
  NoEdge <- no_edge,
  Zero   <- 0,
  built  <- phase = "ready",
  edge   <- edgeBar,
  result <- resultBar

\* The matrix implements an undirected graph: each operation changes one edge,
\* answers with its previous weight, or is refused and changes nothing.
ImplementsGraph == Abstract!Spec

=============================================================================
