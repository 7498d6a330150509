------------------------------ MODULE Subgraph ------------------------------
(***************************************************************************)
(* The class of graphs/Subgraph.cpp: some vertices of a supergraph, which  *)
(* is the AdjacencyGraph, and for each of them a list of neighbours.       *)
(*                                                                         *)
(* Nothing depends on the order of a list, so a list is the number of      *)
(* times that each vertex is in it.                                        *)
(***************************************************************************)
EXTENDS AdjacencyGraph

CONSTANTS
  EditArgs,   \* the vertices that callers name when they change a subgraph
  MaxEdits    \* bound: how often a finished tree is changed

ASSUME SubgraphAssumption == EditArgs \subseteq Nat /\ MaxEdits \in Nat

VARIABLES
  members,          \* the keys of adjacency_list
  adjacency_list,   \* how often each vertex is in the list of each vertex
  stage,            \* "graph": there is only the supergraph; "kruskal" and
                    \* "prim" compute a tree; "tree" when they have returned it,
                    \* "edited" when it was changed; "threw" an exception
  edits,            \* the number of changes
  stale             \* history: a vertex was removed, or added again, that was
                    \* in the list of another one

graphVars == vars
listVars == <<members, adjacency_list, stale>>

Empty == [u \in Vertices |-> 0]

has_vertex(v) == v \in members

\* The vertices that an iteration over get_neighbors(v) meets.
Neighbors(v) ==
  {u \in Vertices : adjacency_list[v][u] > 0 /\ adjacency_matrix[v][u] # no_edge}

\* get_edges(): each edge from its smaller end.
TreeEdges == {e \in members \X Vertices : e[1] < e[2] /\ e[2] \in Neighbors(e[1])}

\* Some other vertex has v in its list.
Listed(v) == \E u \in Vertices \ {v} : adjacency_list[u][v] > 0

Push(lists, src, dst) == [lists EXCEPT ![src][dst] = @ + 1]

\* Mutant: the second list is not written.
JoinedOneWay(lists, src, dst) ==
  IF adjacency_matrix[src][dst] = no_edge \/ lists[src][dst] > 0
  THEN lists
  ELSE Push(lists, src, dst)

\* What add_edge makes of the lists: only an edge of the supergraph is added,
\* and only if the list of src does not have it.
Joined(lists, src, dst) ==
  IF adjacency_matrix[src][dst] = no_edge \/ lists[src][dst] > 0
  THEN lists
  ELSE Push(Push(lists, src, dst), dst, src)

-----------------------------------------------------------------------------
\* adjacency_list[v] = {}: a vertex that is there loses its list.
add_vertex(v) ==
  /\ v < N
  /\ members' = members \cup {v}
  /\ adjacency_list' = [adjacency_list EXCEPT ![v] = Empty]
  /\ stale' = (stale \/ Listed(v))

\* adjacency_list.erase(v): the lists of the other vertices stay.
remove_vertex(v) ==
  /\ v < N
  /\ members' = members \ {v}
  /\ adjacency_list' = [adjacency_list EXCEPT ![v] = Empty]
  /\ stale' = (stale \/ Listed(v))

add_edge(src, dst) ==
  /\ has_vertex(src) /\ has_vertex(dst)
  /\ adjacency_list' = Joined(adjacency_list, src, dst)
  /\ UNCHANGED <<members, stale>>

\* Subgraph::remove_edge.
drop_edge(src, dst) ==
  /\ has_vertex(src) /\ has_vertex(dst)
  /\ adjacency_list' = [adjacency_list EXCEPT ![src][dst] = 0, ![dst][src] = 0]
  /\ UNCHANGED <<members, stale>>

\* A call that throws changes nothing.
Refused(v, u) ==
  /\ v >= N \/ ~has_vertex(v) \/ ~has_vertex(u)
  /\ UNCHANGED listVars

\* A call on a tree that an algorithm has returned.
Edit ==
  /\ stage \in {"tree", "edited"} /\ edits < MaxEdits
  /\ \E v, u \in EditArgs :
       \/ add_vertex(v) \/ remove_vertex(v)
       \/ add_edge(v, u) \/ drop_edge(v, u)
       \/ Refused(v, u)
  /\ stage' = "edited"
  /\ edits' = edits + 1
  /\ UNCHANGED graphVars

SubgraphInit ==
  /\ members = {}
  /\ adjacency_list = [v \in Vertices |-> Empty]
  /\ stage = "graph"
  /\ edits = 0
  /\ stale = FALSE

-----------------------------------------------------------------------------
SubgraphTypeOK ==
  /\ members \subseteq Vertices
  /\ adjacency_list \in [Vertices -> [Vertices -> Nat]]
  /\ stage \in {"graph", "kruskal", "prim", "tree", "edited", "threw"}
  /\ edits \in 0..MaxEdits
  /\ stale \in BOOLEAN
  /\ phase # "ready" => stage = "graph"

\* Unless a vertex was removed or added again while it had edges, each edge is in
\* the lists of both its ends, once, and joins two vertices that are there by an
\* edge of the supergraph, although add_edge looks for it in one list only.  A
\* self edge is twice in one list.
SubgraphConsistent ==
  /\ stale => stage = "edited"
  /\ ~stale => \A u, v \in Vertices :
       /\ adjacency_list[u][v] = adjacency_list[v][u]
       /\ adjacency_list[u][v] > 0
            => u \in members /\ adjacency_matrix[u][v] # no_edge
       /\ adjacency_list[u][v] <= IF u = v THEN 2 ELSE 1

=============================================================================
