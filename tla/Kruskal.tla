------------------------------ MODULE Kruskal -------------------------------
(***************************************************************************)
(* algorithms/Kruskal.cpp, one iteration of its loop at a time, with its   *)
(* union-find structure: path compression and union by size.               *)
(***************************************************************************)
EXTENDS Subgraph

VARIABLES
  parent,   \* the union-find forest
  size,     \* of each root, the number of vertices below it
  edges     \* the edges that the loop has still to look at

kruskalVars == <<parent, size, edges>>

\* The vertices from v up to its root, all of which find_set(v) visits.
Above[v \in Vertices] ==
  {v} \cup IF parent[v] = v THEN {} ELSE Above[parent[v]]

Root(v) == CHOOSE u \in Above[v] : parent[u] = u

\* find_set(a) and find_set(b) make the vertices they visit children of their
\* roots.
Compressed(a, b) ==
  [v \in Vertices |-> IF v \in Above[a] \cup Above[b] THEN Root(v) ELSE parent[v]]

EdgeWeight(e) == adjacency_matrix[e[1]][e[2]]

\* std::sort may put edges of the same weight in any order.
Lightest(e) == \A f \in edges : EdgeWeight(e) <= EdgeWeight(f)

\* Mutant: the size of the surviving root is not updated.
UnionSizeKept(forest, a, b) ==
  /\ parent' = IF size[a] < size[b] THEN [forest EXCEPT ![a] = b]
                                    ELSE [forest EXCEPT ![b] = a]
  /\ UNCHANGED size

\* union_sets of two different roots: the smaller set goes below the larger one.
Union(forest, a, b) ==
  IF size[a] < size[b]
  THEN /\ parent' = [forest EXCEPT ![a] = b]
       /\ size' = [size EXCEPT ![b] = @ + size[a]]
  ELSE /\ parent' = [forest EXCEPT ![b] = a]
       /\ size' = [size EXCEPT ![a] = @ + size[b]]

Singletons == parent' = [v \in Vertices |-> v] /\ size' = [v \in Vertices |-> 1]

StartKruskal ==
  /\ phase = "ready" /\ stage = "graph"
  /\ members' = Vertices
  /\ Singletons
  /\ edges' = get_edges
  /\ stage' = "kruskal"
  /\ UNCHANGED <<graphVars, adjacency_list, edits, stale>>

\* Mutant: the edges are sorted the other way round.
HeaviestLoop ==
  /\ stage = "kruskal"
  /\ \E e \in edges :
       /\ \A f \in edges : EdgeWeight(e) >= EdgeWeight(f)
       /\ edges' = edges \ {e}
       /\ IF Root(e[1]) = Root(e[2])
          THEN /\ parent' = Compressed(e[1], e[2])
               /\ UNCHANGED <<size, listVars>>
          ELSE /\ add_edge(e[1], e[2])
               /\ Union(Compressed(e[1], e[2]), Root(e[1]), Root(e[2]))
  /\ UNCHANGED <<graphVars, stage, edits>>

\* One iteration.  The test has compressed the paths that union_sets visits.
KruskalLoop ==
  /\ stage = "kruskal"
  /\ \E e \in edges :
       /\ Lightest(e)
       /\ edges' = edges \ {e}
       /\ IF Root(e[1]) = Root(e[2])
          THEN /\ parent' = Compressed(e[1], e[2])
               /\ UNCHANGED <<size, listVars>>
          ELSE /\ add_edge(e[1], e[2])
               /\ Union(Compressed(e[1], e[2]), Root(e[1]), Root(e[2]))
  /\ UNCHANGED <<graphVars, stage, edits>>

\* The tree is returned; the locals are gone.
KruskalReturns ==
  /\ stage = "kruskal" /\ edges = {}
  /\ stage' = "tree"
  /\ Singletons
  /\ UNCHANGED <<graphVars, listVars, edits, edges>>

KruskalInit ==
  /\ parent = [v \in Vertices |-> v]
  /\ size = [v \in Vertices |-> 1]
  /\ edges = {}

KruskalStep == StartKruskal \/ KruskalLoop \/ KruskalReturns

=============================================================================
