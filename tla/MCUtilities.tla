----------------------------- MODULE MCUtilities -----------------------------
(* Instances of the graphs and the algorithms on them: the vertex number N is *)
(* out of range.                                                              *)
EXTENDS Utilities, Graphs

SomeWeights == {0, 1}
VertexArgs == 0..N
SomeEdits == {0, 1, N}
NoEdgeWeight == 9
InfiniteWeight == 10

\* Joins means paths.
ASSUME JoinsByPaths ==
  \A E \in SUBSET {e \in Vertices \X Vertices : e[1] < e[2]} :
    LET both == E \cup {<<e[2], e[1]>> : e \in E}
        paths == ConnectionsIn([node |-> Vertices, edge |-> both])
    IN Joins(E) = {p \in Vertices \X Vertices : paths[p]}

\* An algorithm reads the graph and not what the last operation on it answered: it
\* is started once for each graph, and not once for each answer as well.
StartOncePerGraph == stage = "graph" /\ stage' # "graph" => result = no_edge

=============================================================================
