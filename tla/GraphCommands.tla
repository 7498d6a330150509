---------------------------- MODULE GraphCommands ----------------------------
(***************************************************************************)
(* What the servers main.cpp and pl_main.cpp have in common: the commands  *)
(* of their clients, the graphs these are about, and what each command     *)
(* asks of a graph.  The two sources repeat the same code.                 *)
(*                                                                         *)
(* Vertices and weights are numbers because the code reads a missing       *)
(* parameter as 0, and a weight as a truth value.                          *)
(***************************************************************************)
EXTENDS Integers, Sequences, FiniteSetsExt

CONSTANTS
  NoGraph,    \* g is null
  Missing,    \* a parameter that the client left out
  Sizes,      \* the numbers of vertices that clients ask for
  Args,       \* the vertices that clients name
  Weights,    \* the weights that clients use
  no_edge,    \* Graph::no_edge
  MaxEdges    \* bound: the edges that follow a Newgraph

ASSUME CommandAssumption ==
  /\ Sizes \subseteq Nat /\ Args \subseteq Nat
  /\ Weights \subseteq Int /\ no_edge \in Int \ (Weights \cup {0})
  /\ MaxEdges \in Nat
  /\ Missing \notin Nat \cup Weights
  /\ 0 \in Weights

-----------------------------------------------------------------------------
(* Commands.                                                                *)

Algorithms == {"kruskal", "prim", "unknown"}

Commands ==
  [op : {"MST"}, algo : Algorithms]
    \cup [op : {"Newgraph"}, n : Sizes \cup {Missing},
          m : (0..MaxEdges) \cup {Missing}]
    \cup [op : {"Newedge"}, src : Args \cup {Missing},
          dst : Args \cup {Missing}, w : Weights \cup {Missing}]
    \cup [op : {"Removeedge"}, src : Args \cup {Missing},
          dst : Args \cup {Missing}]
    \cup [op : {"Unknown"}]

\* strtoull and strtod of an empty string.
Number(p) == IF p = Missing THEN 0 ELSE p

Incomplete(c) == \E f \in DOMAIN c : c[f] = Missing

-----------------------------------------------------------------------------
(* Graphs, without the diagonal, which is 0 in a finished graph.            *)

VerticesOf(n) == 0..(n - 1)
PairsOf(n) ==
  {p \in SUBSET VerticesOf(n) : \E a, b \in p : a # b /\ p = {a, b}}

GraphsOf(n) == [n : {n}, edge : [PairsOf(n) -> Weights \cup {no_edge}]]
AllGraphs == UNION {GraphsOf(n) : n \in Sizes \cup {0}}

ASSUME NoGraphAssumption == NoGraph \notin AllGraphs

\* What the client may send after a Newgraph, as far as it can be parsed.
Edges == [src : Args, dst : Args, w : Weights]

\* A call of set_edge that does not throw.
Accepted(n, e) ==
  /\ e.src < n /\ e.dst < n
  /\ e.src = e.dst => e.w = 0

\* The weight before; a self edge of a finished graph has weight 0.
Previous(G, a, b) == IF a = b THEN 0 ELSE G.edge[{a, b}]

WithEdge(G, a, b, w) ==
  IF a = b THEN G ELSE [G EXCEPT !.edge[{a, b}] = w]

\* The constructor of AdjacencyGraph, on edges it accepts: the last edge in the
\* list that joins a pair of vertices gives the pair its weight.
Construct(n, edges) ==
  LET of(p) == {k \in DOMAIN edges : {edges[k].src, edges[k].dst} = p}
  IN [n |-> n,
      edge |-> [p \in PairsOf(n) |->
                  IF of(p) = {} THEN no_edge ELSE edges[Max(of(p))].w]]

\* is_connected: the search from vertex 0 is not stuck in a smaller set.
Connected(G) ==
  \/ G.n <= 1
  \/ \A S \in SUBSET VerticesOf(G.n) :
       0 \in S /\ S # VerticesOf(G.n) =>
         \E a \in S, b \in VerticesOf(G.n) \ S : G.edge[{a, b}] # no_edge

-----------------------------------------------------------------------------
(* The commands on a graph.                                                 *)

\* What the first part of MST says of the graph.
Refusal(G) ==
  IF G = NoGraph THEN "no graph"
  ELSE IF Connected(G) THEN "none" ELSE "not connected"

\* The last part of Newedge, Updateedge and Removeedge: the weight they give to
\* the edge, whether set_edge or remove_edge accepts it, and what becomes of the
\* graph.
NewWeight(c) == IF c.op = "Newedge" THEN Number(c.w) ELSE no_edge

EdgeAccepted(G, c) ==
  /\ Number(c.src) < G.n /\ Number(c.dst) < G.n
  /\ Number(c.src) = Number(c.dst) => NewWeight(c) = 0

EdgeEffect(G, c) == WithEdge(G, Number(c.src), Number(c.dst), NewWeight(c))

\* The answer is chosen by whether the weight that they return is 0.
EdgeReply(G, c) ==
  LET was == Previous(G, Number(c.src), Number(c.dst)) # 0 IN
  IF c.op = "Newedge"
  THEN IF was THEN "was created" ELSE "already exists"
  ELSE IF was THEN "was removed" ELSE "does not exist"

=============================================================================
