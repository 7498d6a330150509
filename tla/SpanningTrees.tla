---------------------------- MODULE SpanningTrees ----------------------------
(***************************************************************************)
(* The graph, the two algorithms that compute a minimum spanning tree of   *)
(* it, and the changes that callers make to the tree: one call of one of   *)
(* the functions of MSTFactory.cpp on any graph that AdjacencyGraph can    *)
(* reach.                                                                  *)
(***************************************************************************)
EXTENDS Kruskal, Prim, FiniteSetsExt

mstVars == <<graphVars, listVars, stage, edits, kruskalVars, costs>>

MstInit ==
  /\ Init
  /\ SubgraphInit
  /\ KruskalInit
  /\ costs = << >>

GraphStep ==
  /\ stage = "graph" /\ Next
  /\ UNCHANGED <<listVars, stage, edits, kruskalVars, costs>>

MstNext ==
  \/ GraphStep
  \/ KruskalStep /\ UNCHANGED costs
  \/ PrimStep /\ UNCHANGED kruskalVars
  \/ Edit /\ UNCHANGED <<kruskalVars, costs>>

MstSpec == MstInit /\ [][MstNext]_mstVars

-----------------------------------------------------------------------------
(* Reference definitions.                                                   *)

Crosses(e, S) == ~(e[1] \in S <=> e[2] \in S)

\* Which vertices are joined by the edges in a set: those that no set of vertices
\* separates unless an edge crosses its border.  (MCUtilities compares this with
\* paths.)
Joins(E) ==
  LET uncrossed == {S \in SUBSET Vertices : \A e \in E : ~Crosses(e, S)}
  IN {p \in Vertices \X Vertices : \A S \in uncrossed : ~Crosses(p, S)}

WeightOf(E) == MapThenSumSet(EdgeWeight, E)

AllJoined(E) == Joins(E) = Vertices \X Vertices

\* A set of edges that joins what all edges join, with as few edges as that takes,
\* and no set of as many that does so weighs less.
MinimumSpanning(T, E) ==
  /\ Joins(T) = Joins(E)
  /\ \A e \in T : Joins(T \ {e}) # Joins(E)
  /\ \A S \in kSubset(Cardinality(T), E) :
       Joins(S) = Joins(E) => WeightOf(T) <= WeightOf(S)

-----------------------------------------------------------------------------
(* Properties.                                                              *)

\* Both algorithms return a minimum spanning tree, on whatever order std::sort
\* leaves edges of the same weight in; if there is none Kruskal returns a minimum
\* spanning forest and Prim throws.
ReturnsMst ==
  /\ stage = "tree" => members = Vertices /\ MinimumSpanning(TreeEdges, get_edges)
  /\ stage = "threw" => ~AllJoined(get_edges)

\* In Kruskal's loop two vertices have the same root exactly if the tree so far
\* joins them, and the size of a root is the number of vertices below it.
UnionFindMatches ==
  stage = "kruskal" =>
    LET joined == Joins(TreeEdges) IN
    \A v \in Vertices :
      /\ \A u \in Vertices : Root(u) = Root(v) <=> <<u, v>> \in joined
      /\ parent[v] = v
           => size[v] = Cardinality({u \in Vertices : Root(u) = v})

-----------------------------------------------------------------------------
(* Why: what the steps of the algorithms keep true.                         *)

\* The lists of the tree, and Prim's costs.
TreeInv ==
  /\ SubgraphTypeOK
  /\ stage = "graph" => members = {} /\ adjacency_list = [v \in Vertices |-> Empty]
  /\ SubgraphConsistent
  /\ CostsOfCut
  /\ ThrowsOnCut

\* No edge of the graph that crosses the border of S weighs less than e.
LightestAcross(e, S) ==
  \A f \in get_edges : Crosses(f, S) => EdgeWeight(e) <= EdgeWeight(f)

\* Each edge of T alone crosses a border, and is a lightest edge across it.
CutOptimal(T) ==
  \A e \in T : \E S \in SUBSET Vertices :
    {f \in T : Crosses(f, S)} = {e} /\ LightestAcross(e, S)

\* Parents lead to roots: in every set of vertices there is a root, or a vertex
\* whose parent is not in the set.
Rooted ==
  \A S \in (SUBSET Vertices) \ {{}} :
    \E v \in S : parent[v] = v \/ parent[v] \notin S

UnionFindInv ==
  /\ parent \in [Vertices -> Vertices] /\ size \in [Vertices -> Nat]
  /\ Rooted
  /\ edges \subseteq get_edges
  /\ \A e \in get_edges \ edges : Root(e[1]) = Root(e[2])

SpanningInv ==
  /\ stage \in {"kruskal", "prim", "tree"} => CutOptimal(TreeEdges)
  /\ stage \in {"kruskal", "tree"} => members = Vertices
  /\ stage = "kruskal" => UnionFindInv
  /\ stage \in {"prim", "threw"} => members # {}
  /\ stage = "prim" => members \X members \subseteq Joins(TreeEdges)
  /\ stage = "tree" => Joins(TreeEdges) = Joins(get_edges)

\* The list of a vertex of the tree does not have the vertex itself.
NoLoops ==
  stage \in {"kruskal", "prim", "tree"}
    => \A v \in Vertices : adjacency_list[v][v] = 0

\* Types, symmetry and self edges of the matrix, and the above; inductive together
\* with UnionFindMatches.
MstInv == IInv /\ TreeInv /\ SpanningInv /\ NoLoops

=============================================================================
