------------------------- MODULE GraphCommandLemmas -------------------------
(***************************************************************************)
(* Facts about the operators of GraphCommands, for the proofs about the    *)
(* two servers.                                                            *)
(***************************************************************************)
EXTENDS GraphCommands, DataLemmas

\* A set of positions has a last one.
LEMMA MaxOfPositions ==
  ASSUME NEW n \in Nat, NEW S, S \subseteq 1..n, S # {}
  PROVE  Max(S) \in S
<1> DEFINE I == {n - k : k \in S}
<1>1. I \subseteq Nat /\ I # {}
  <2>1. \A k \in S : n - k \in Nat
    OBVIOUS
  <2>2. I \subseteq Nat
    BY <2>1
  <2>3. I # {}
    OBVIOUS
  <2> QED BY <2>2, <2>3
<1> HIDE DEF I
<1>2. Min(I) \in I /\ \A y \in I : Min(I) <= y
  BY <1>1, MinOfNats
<1>3. PICK k \in S : Min(I) = n - k
  BY <1>2 DEF I
<1>4. \A j \in S : n - k <= n - j
  BY <1>2, <1>3 DEF I
<1>5. \A j \in S : k >= j
  BY <1>4
<1> QED BY <1>5 DEF Max

\* The constructor makes a graph of the size it was asked for.
LEMMA ConstructGraph ==
  ASSUME NEW n \in Sizes \cup {0}, NEW edges \in Seq(Edges)
  PROVE  Construct(n, edges) \in GraphsOf(n)
<1> DEFINE of(p) == {k \in DOMAIN edges : {edges[k].src, edges[k].dst} = p}
           weight(p) == IF of(p) = {} THEN no_edge ELSE edges[Max(of(p))].w
<1>1. \A p \in PairsOf(n) : weight(p) \in Weights \cup {no_edge}
  <2> SUFFICES ASSUME NEW p \in PairsOf(n), of(p) # {}
               PROVE  edges[Max(of(p))].w \in Weights
    OBVIOUS
  <2>1. of(p) \subseteq 1..Len(edges) /\ Len(edges) \in Nat
    OBVIOUS
  <2>2. Max(of(p)) \in of(p)
    BY <2>1, MaxOfPositions
  <2>3. edges[Max(of(p))] \in Edges
    BY <2>1, <2>2
  <2> QED BY <2>3 DEF Edges
<1> HIDE DEF weight
<1>2. Construct(n, edges) = [n |-> n, edge |-> [p \in PairsOf(n) |-> weight(p)]]
  BY DEF Construct, weight
<1> QED BY <1>1, <1>2 DEF GraphsOf

LEMMA ConstructType ==
  ASSUME NEW n \in Sizes \cup {0}, NEW edges \in Seq(Edges)
  PROVE  Construct(n, edges) \in AllGraphs
BY ConstructGraph DEF AllGraphs

\* Giving an edge a weight makes a graph of a graph.
LEMMA WithEdgeType ==
  ASSUME NEW G \in AllGraphs, NEW a, NEW b, NEW w \in Weights \cup {no_edge}
  PROVE  WithEdge(G, a, b, w) \in AllGraphs
<1>1. PICK n \in Sizes \cup {0} : G \in GraphsOf(n)
  BY DEF AllGraphs
<1>2. WithEdge(G, a, b, w) \in GraphsOf(n)
  BY <1>1 DEF GraphsOf, WithEdge
<1> QED BY <1>2 DEF AllGraphs

\* What the parameters of a command are read as.
LEMMA Parameters ==
  ASSUME NEW c \in Commands
  PROVE  /\ c.op = "Newgraph" => /\ Number(c.n) \in Sizes \cup {0}
                                 /\ Number(c.m) \in 0..MaxEdges
         /\ c.op = "Newedge" => Number(c.w) \in Weights
BY CommandAssumption DEF Commands, Number

\* An edge command makes a graph of a graph.
LEMMA EdgeEffectType ==
  ASSUME NEW c \in Commands, c.op \in {"Newedge", "Removeedge"},
         NEW G \in AllGraphs
  PROVE  EdgeEffect(G, c) \in AllGraphs
<1>1. NewWeight(c) \in Weights \cup {no_edge}
  BY Parameters DEF NewWeight
<1> QED BY <1>1, WithEdgeType DEF EdgeEffect

=============================================================================
