-------------------------------- MODULE Prim ---------------------------------
(***************************************************************************)
(* algorithms/Prim.cpp, one iteration of its loop at a time.               *)
(***************************************************************************)
EXTENDS Subgraph

CONSTANTS
  Infinity,   \* numeric_limits<weight>::infinity()
  NoVertex    \* numeric_limits<vertex>::max()

\* A weight is less than infinity.  (strtod reads "inf" as infinity: such an edge
\* is one for is_connected and never taken by Prim.  It is not among Weights.)
ASSUME PrimAssumption ==
  /\ Weights \subseteq Int
  /\ Infinity \in Int /\ \A w \in Weights : w < Infinity
  /\ NoVertex \notin Nat

VARIABLE
  costs   \* of each vertex that is not in the tree, the weight of an edge that
          \* joins it to the tree, and the end of this edge in the tree

Unreached == [cost |-> Infinity, parent |-> NoVertex]

\* pop_min: the first of those with the least cost, in the order of the vertices.
IsMin(v, all) ==
  \A u \in DOMAIN all :
    all[v].cost < all[u].cost \/ (all[v].cost = all[u].cost /\ v <= u)

\* Mutant: the cost of a vertex that has one is not lowered.
ModifiedOnce(all, v) ==
  [u \in DOMAIN all \ {v} |->
     IF u \in get_neighbors(v) /\ all[u].parent = NoVertex
     THEN [cost |-> adjacency_matrix[v][u], parent |-> v]
     ELSE all[u]]

\* The costs without v, and after modify_neighbours of v.
Modified(all, v) ==
  [u \in DOMAIN all \ {v} |->
     IF u \in get_neighbors(v) /\ all[u].cost > adjacency_matrix[v][u]
     THEN [cost |-> adjacency_matrix[v][u], parent |-> v]
     ELSE all[u]]

\* Up to the loop.  Without vertices pop_min would take the front of nothing; what
\* follows from this is in GraphServer.
StartPrim ==
  /\ phase = "ready" /\ stage = "graph" /\ N > 0
  /\ LET all == [v \in Vertices |-> Unreached] IN
     \E v \in Vertices :
       /\ IsMin(v, all)
       /\ add_vertex(v)
       /\ costs' = Modified(all, v)
  /\ stage' = "prim"
  /\ UNCHANGED <<graphVars, edits>>

\* One iteration for a vertex that has a parent.
PrimLoop ==
  /\ stage = "prim"
  /\ \E v \in DOMAIN costs :
       /\ IsMin(v, costs)
       /\ has_vertex(costs[v].parent)
       /\ members' = members \cup {v}
       /\ stale' = (stale \/ Listed(v))
       /\ adjacency_list' = Joined([adjacency_list EXCEPT ![v] = Empty],
                                   v, costs[v].parent)
       /\ costs' = Modified(costs, v)
  /\ UNCHANGED <<graphVars, stage, edits>>

\* One without: add_edge throws vertex_not_in_subgraph_exception, and the subgraph
\* and the locals are gone.
PrimThrows ==
  /\ stage = "prim"
  /\ \E v \in DOMAIN costs : IsMin(v, costs) /\ ~has_vertex(costs[v].parent)
  /\ stage' = "threw"
  /\ costs' = << >>
  /\ UNCHANGED <<graphVars, listVars, edits>>

PrimReturns ==
  /\ stage = "prim" /\ DOMAIN costs = {}
  /\ stage' = "tree"
  /\ costs' = << >>
  /\ UNCHANGED <<graphVars, listVars, edits>>

PrimStep == StartPrim \/ PrimLoop \/ PrimThrows \/ PrimReturns

-----------------------------------------------------------------------------
\* The cost of a vertex outside of the tree is that of the lightest edge between
\* it and the tree, and there is none exactly if it has no parent, although the
\* costs are only ever updated by the last vertex that was added: so each edge
\* that Prim takes is a lightest one between the tree and the rest, and Prim
\* throws only if no edge leaves the tree.
CostsOfCut ==
  stage = "prim" =>
    /\ DOMAIN costs = Vertices \ members
    /\ \A v \in DOMAIN costs :
         LET near == members \cap get_neighbors(v) IN
         IF near = {} THEN costs[v] = Unreached
         ELSE /\ costs[v].parent \in near
              /\ costs[v].cost = adjacency_matrix[v][costs[v].parent]
              /\ \A u \in near : costs[v].cost <= adjacency_matrix[v][u]

\* What is left of a tree that could not be finished is joined to nothing else.
ThrowsOnCut ==
  stage = "threw" =>
    /\ members # Vertices
    /\ \A v \in members : get_neighbors(v) \subseteq members

=============================================================================
