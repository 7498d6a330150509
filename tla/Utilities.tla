------------------------------ MODULE Utilities ------------------------------
(***************************************************************************)
(* The functions of algorithms/Utilities.cpp: is_connected of the graph,   *)
(* and the four numbers that a report gives of a tree.                     *)
(*                                                                         *)
(* A recursive function of the code is a function here whose last argument *)
(* is the set of the neighbours that the loop in its call has still to     *)
(* visit, or has visited.                                                  *)
(***************************************************************************)
EXTENDS SpanningTrees, Functions

\* The visited vertices after a call of DFS, of whose vertex these neighbours are
\* left when those are visited.
DFS[visited \in SUBSET Vertices] ==
  [left \in SUBSET Vertices |->
     IF left = {} THEN visited
     ELSE LET u == Min(left) IN
          DFS[IF u \in visited THEN visited
              ELSE DFS[visited \cup {u}][get_neighbors(u)]][left \ {u}]]

is_connected == N <= 1 \/ DFS[{0}][get_neighbors(0)] = Vertices

total_weight == WeightOf(TreeEdges)

\* Max of two numbers.
Larger(a, b) == IF a < b THEN b ELSE a
Smaller(a, b) == IF a < b THEN a ELSE b

\* The longest of the returned pair.
Longest(r) == Larger(r.farthest + r.second_farthest, r.child_longest)

\* The variables after an iteration for a neighbour, at the end of an edge of this
\* weight, whose call ended with those of below.
Visited(r, below, w) ==
  LET u_farthest == below.farthest + w
  IN [farthest |-> Larger(r.farthest, u_farthest),
      second_farthest |->
        IF u_farthest > r.farthest THEN r.farthest
        ELSE Larger(r.second_farthest, u_farthest),
      child_longest |-> Larger(r.child_longest, Longest(below))]

\* The variables of a call for v that has visited these neighbours.  (The order
\* of the list does not matter.)
longest_and_farthest[v \in Vertices] ==
  [visited \in SUBSET Neighbors(v) |->
     IF visited = {}
     THEN [farthest |-> 0, second_farthest |-> 0, child_longest |-> 0]
     ELSE LET u == CHOOSE u \in visited : TRUE IN
          Visited(longest_and_farthest[v][visited \ {u}],
                  longest_and_farthest[u][Neighbors(u) \ {v}],
                  adjacency_matrix[v][u])]

\* Mutant: the path through the root is the longest one.
farthest_distance == longest_and_farthest[0][Neighbors(0)].farthest

longest_distance == Longest(longest_and_farthest[0][Neighbors(0)])

\* The entries of descendents after an iteration for u in a call for v.
Counted(here, below, v, u) ==
  [w \in DOMAIN here \cup DOMAIN below |->
     IF w = v THEN here[v] + below[u]
     ELSE IF w \in DOMAIN below THEN below[w] ELSE here[w]]

\* Those of a call for v that has visited these neighbours, and of the calls below.
set_descendents[v \in Vertices] ==
  [visited \in SUBSET Neighbors(v) |->
     IF visited = {} THEN [w \in {v} |-> 1]
     ELSE LET u == CHOOSE u \in visited : TRUE IN
          Counted(set_descendents[v][visited \ {u}],
                  set_descendents[u][Neighbors(u) \ {v}], v, u)]

descendents == LET root == Min(members) IN set_descendents[root][Neighbors(root)]

\* How many paths go through an edge, times its weight.
PathsThrough(e) ==
  LET m == Smaller(descendents[e[1]], descendents[e[2]])
  IN m * (N - m) * EdgeWeight(e)

\* The sum that average_distance divides by the number of pairs.
distances_sum == SumFunction([e \in TreeEdges |-> PathsThrough(e)])

shortest_distance ==
  IF N <= 1 THEN 0 ELSE Min({EdgeWeight(e) : e \in TreeEdges})

-----------------------------------------------------------------------------
\* In a tree the path between u and v has the edges that separate them.
Distance(u, v) ==
  WeightOf({e \in TreeEdges : <<u, v>> \notin Joins(TreeEdges \ {e})})

Pairs == {p \in Vertices \X Vertices : p[1] < p[2]}

Distances == [p \in Pairs |-> Distance(p[1], p[2])]

\* is_connected tells whether the graph is connected; the longest and the shortest
\* distance in a tree and the sum of its distances, computed in one traversal from
\* an arbitrary root, are those between its vertices, the first two if no weight is
\* negative.  (They are not asked of a graph without vertices.)
UtilitiesRight ==
  /\ phase = "ready" /\ stage = "graph" => is_connected = AllJoined(get_edges)
  /\ stage = "tree" /\ AllJoined(TreeEdges) /\ N > 0 =>
       LET all == Distances
           lengths == Range(all)
       IN /\ Weights \subseteq Nat => longest_distance = Max(lengths \cup {0})
          /\ Weights \subseteq Nat /\ N > 1 => shortest_distance = Min(lengths)
          /\ distances_sum = SumFunction(all)

=============================================================================
