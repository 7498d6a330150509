------------------------ MODULE SpanningTreesProofs -------------------------
(***************************************************************************)
(* Proofs about the graph and the algorithms on it, for every number of    *)
(* vertices, every set of weights and every list of edges given to the     *)
(* constructor: the matrix is symmetric with zeros on its diagonal, and    *)
(* implements WeightedGraph; the tree that an algorithm builds is an       *)
(* undirected graph; the union-find forest of Kruskal joins what its tree  *)
(* joins; both algorithms return a minimum spanning tree; and the          *)
(* functions of Utilities compute what they are called after.              *)
(***************************************************************************)
EXTENDS Utilities, DataLemmas

\* A call either throws or writes both entries of one edge.
LEMMA SetEdgeEffect ==
  ASSUME TypeOK, NEW a \in Nat, NEW b \in Nat, NEW w \in Weights,
         set_edge(a, b, w)
  PROVE  \/ result' = Threw /\ UNCHANGED adjacency_matrix
         \/ /\ a \in Vertices /\ b \in Vertices /\ (a = b => w = 0)
            /\ result' \in Stored /\ result' # Threw
            /\ adjacency_matrix' = Write(a, b, w)
BY GraphAssumption DEF set_edge, InRange, Vertices, Stored, TypeOK

LEMMA RemoveEdgeEffect ==
  ASSUME TypeOK, NEW a \in Nat, NEW b \in Nat, remove_edge(a, b)
  PROVE  \/ result' = Threw /\ UNCHANGED adjacency_matrix
         \/ /\ a \in Vertices /\ b \in Vertices /\ a # b
            /\ result' \in Stored /\ result' # Threw
            /\ adjacency_matrix' = Write(a, b, no_edge)
BY GraphAssumption DEF remove_edge, InRange, Vertices, Stored, TypeOK

\* Writing an edge keeps the matrix symmetric, and its diagonal as it was.
LEMMA WriteStep ==
  ASSUME IInv, NEW a \in Vertices, NEW b \in Vertices, NEW w \in Stored,
         a = b => w = 0, adjacency_matrix' = Write(a, b, w)
  PROVE  /\ adjacency_matrix' \in [Vertices -> [Vertices -> Stored]]
         /\ Symmetric'
         /\ \A c \in Vertices :
              adjacency_matrix'[c][c] =
                IF c = a /\ c = b THEN 0 ELSE adjacency_matrix[c][c]
<1>1. TypeOK /\ Symmetric
  BY DEF IInv
<1>2. /\ adjacency_matrix' \in [Vertices -> [Vertices -> Stored]]
      /\ \A c, d \in Vertices :
           adjacency_matrix'[c][d] =
             IF (c = a /\ d = b) \/ (c = b /\ d = a)
             THEN w ELSE adjacency_matrix[c][d]
  BY <1>1 DEF TypeOK, Write
<1>3. Symmetric'
  BY <1>1, <1>2 DEF Symmetric
<1>4. \A c \in Vertices :
        adjacency_matrix'[c][c] =
          IF c = a /\ c = b THEN 0 ELSE adjacency_matrix[c][c]
  BY <1>2
<1> QED BY <1>2, <1>3, <1>4

LEMMA InvStep == IInv /\ [Next]_vars => IInv'
<1> SUFFICES ASSUME IInv, [Next]_vars PROVE IInv'
  OBVIOUS
<1> USE GraphAssumption DEF IInv, TypeOK, SelfEdgesZero
<1>0. 0 \in Stored /\ no_edge \in Stored /\ Weights \subseteq Stored
  BY DEF Stored
<1>1. ASSUME ConstructEdge
      PROVE  IInv'
  <2>1. PICK a \in Args, b \in Args, w \in Weights :
          /\ set_edge(a, b, w)
          /\ IF result' = Threw THEN phase' = "failed" /\ UNCHANGED todo
                                ELSE todo' = todo - 1 /\ UNCHANGED phase
    BY <1>1 DEF ConstructEdge
  <2>2. phase = "edges" /\ todo > 0 /\ i' = i
    BY <1>1 DEF ConstructEdge
  <2>3. CASE result' = Threw /\ UNCHANGED adjacency_matrix
    BY <2>1, <2>2, <2>3 DEF Symmetric
  <2>4. CASE ~(result' = Threw /\ UNCHANGED adjacency_matrix)
    <3>1. /\ a \in Vertices /\ b \in Vertices /\ (a = b => w = 0)
          /\ result' \in Stored /\ result' # Threw
          /\ adjacency_matrix' = Write(a, b, w)
      BY <2>1, <2>4, SetEdgeEffect
    <3>2. /\ adjacency_matrix' \in [Vertices -> [Vertices -> Stored]]
          /\ Symmetric'
          /\ \A c \in Vertices :
               adjacency_matrix'[c][c] =
                 IF c = a /\ c = b THEN 0 ELSE adjacency_matrix[c][c]
      BY <3>1, <1>0, WriteStep
    <3> QED BY <2>1, <2>2, <3>1, <3>2
  <2> QED BY <2>3, <2>4
<1>2. ASSUME EdgesDone
      PROVE  IInv'
  BY <1>2 DEF EdgesDone, Symmetric
<1>3. ASSUME ConstructDiagonal
      PROVE  IInv'
  <2>1. /\ set_edge(i, i, 0) /\ i \in Vertices /\ i' = i + 1
        /\ phase = "diagonal" /\ phase' = phase /\ todo' = todo
    BY <1>3 DEF ConstructDiagonal, Vertices
  <2>2. /\ result' \in Stored /\ adjacency_matrix' = Write(i, i, 0)
    BY <2>1 DEF set_edge, InRange, Vertices
  <2>3. /\ adjacency_matrix' \in [Vertices -> [Vertices -> Stored]]
        /\ Symmetric'
        /\ \A c \in Vertices :
             adjacency_matrix'[c][c] =
               IF c = i /\ c = i THEN 0 ELSE adjacency_matrix[c][c]
    BY <2>1, <2>2, <1>0, WriteStep
  <2>4. \A c \in Vertices : c < i + 1 => c < i \/ c = i
    BY DEF Vertices
  <2>5. i + 1 \in 0..N
    BY <2>1 DEF Vertices
  <2> QED BY <2>1, <2>2, <2>3, <2>4, <2>5
<1>4. ASSUME DiagonalDone
      PROVE  IInv'
  BY <1>4, <1>0 DEF DiagonalDone, Symmetric
<1>5. ASSUME Operate
      PROVE  IInv'
  <2>1. UNCHANGED <<phase, todo, i>>
    BY <1>5 DEF Operate
  <2>2. PICK a \in Args, b \in Args :
          (\E w \in Weights : set_edge(a, b, w)) \/ remove_edge(a, b)
    BY <1>5 DEF Operate
  <2>3. CASE result' = Threw /\ UNCHANGED adjacency_matrix
    BY <2>1, <2>3 DEF Symmetric
  <2>4. ASSUME NEW w \in Stored, a \in Vertices, b \in Vertices, a = b => w = 0,
               result' \in Stored, adjacency_matrix' = Write(a, b, w)
        PROVE  IInv'
    <3>1. /\ adjacency_matrix' \in [Vertices -> [Vertices -> Stored]]
          /\ Symmetric'
          /\ \A c \in Vertices :
               adjacency_matrix'[c][c] =
                 IF c = a /\ c = b THEN 0 ELSE adjacency_matrix[c][c]
      BY <2>4, WriteStep
    <3> QED BY <2>1, <2>4, <3>1
  <2>5. ASSUME NEW w \in Weights, set_edge(a, b, w)
        PROVE  IInv'
    BY <1>0, <2>3, <2>4, <2>5, SetEdgeEffect
  <2>6. ASSUME remove_edge(a, b)
        PROVE  IInv'
    BY <1>0, <2>3, <2>4, <2>6, RemoveEdgeEffect
  <2> QED BY <2>2, <2>5, <2>6
<1>6. ASSUME UNCHANGED vars
      PROVE  IInv'
  BY <1>6 DEF vars, Symmetric
<1> QED BY <1>1, <1>2, <1>3, <1>4, <1>5, <1>6 DEF Next

\* The empty matrix satisfies the invariant.
LEMMA InitInv == Init => IInv
  BY GraphAssumption
  DEF Init, IInv, TypeOK, Symmetric, SelfEdgesZero, Stored, Vertices

\* The algorithms and the changes of a tree leave the graph alone.
LEMMA GraphUnchanged == [MstNext]_mstVars => [Next]_vars
  BY DEF MstNext, mstVars, GraphStep, graphVars, KruskalStep, StartKruskal,
         KruskalLoop, KruskalReturns, PrimStep, StartPrim, PrimLoop, PrimThrows,
         PrimReturns, Edit

\* Types, symmetry and the self edges are invariant together.
LEMMA GraphInvHolds == MstSpec => []IInv
<1>1. MstInit => IInv
  BY InitInv DEF MstInit
<1>2. IInv /\ [MstNext]_mstVars => IInv'
  BY GraphUnchanged, InvStep
<1> QED BY <1>1, <1>2, PTL DEF MstSpec

\* get_edges() and get_neighbors() describe the same graph.
LEMMA EdgesAgreeIs == IInv => EdgesAgreeWithNeighbors
<1> SUFFICES ASSUME IInv, NEW a \in Vertices, NEW b \in Vertices
             PROVE  b \in get_neighbors(a)
                      <=> <<a, b>> \in get_edges \/ <<b, a>> \in get_edges
  BY DEF EdgesAgreeWithNeighbors
<1>1. adjacency_matrix[a][b] = adjacency_matrix[b][a]
  BY DEF IInv, Symmetric
<1>2. a # b <=> a < b \/ b < a
  BY GraphAssumption DEF Vertices
<1> QED BY <1>1, <1>2 DEF get_neighbors, get_edges

\* What Kruskal reads and what Prim and is_connected read is the same graph.
THEOREM EdgesAgree == MstSpec => []EdgesAgreeWithNeighbors
BY EdgesAgreeIs, GraphInvHolds, PTL

-----------------------------------------------------------------------------
(* The matrix implements an undirected graph.                               *)

\* Two pairs are equal when they have the same members.
LEMMA PairsEqual ==
  \A a, b, c, d : {c, d} = {a, b} <=> (c = a /\ d = b) \/ (c = b /\ d = a)
<1> SUFFICES ASSUME NEW a, NEW b, NEW c, NEW d
             PROVE  {c, d} = {a, b} <=> (c = a /\ d = b) \/ (c = b /\ d = a)
  OBVIOUS
<1>1. ASSUME {c, d} = {a, b}
      PROVE  (c = a /\ d = b) \/ (c = b /\ d = a)
  <2>1. c \in {a, b} /\ d \in {a, b} /\ a \in {c, d} /\ b \in {c, d}
    BY <1>1
  <2> QED BY <2>1
<1>2. ASSUME c = b, d = a
      PROVE  {c, d} = {a, b}
  BY <1>2
<1> QED BY <1>1, <1>2

\* The entry of a pair of vertices, in whichever order they are named.
LEMMA EntryOfPair ==
  ASSUME TypeOK, Symmetric, NEW a \in Vertices, NEW b \in Vertices, a # b
  PROVE  Entry({a, b}) = adjacency_matrix[a][b]
<1> USE GraphAssumption DEF Vertices
<1>1. adjacency_matrix[a][b] \in Stored
  BY DEF TypeOK
<1>2. \A w \in Stored :
        (\E c, d \in {a, b} : c < d /\ w = adjacency_matrix[c][d])
          <=> w = adjacency_matrix[a][b]
  <2>1. adjacency_matrix[a][b] = adjacency_matrix[b][a]
    BY DEF Symmetric
  <2>2. a < b \/ b < a
    OBVIOUS
  <2>3. ASSUME NEW c \in {a, b}, NEW d \in {a, b}, c < d
        PROVE  adjacency_matrix[c][d] = adjacency_matrix[a][b]
    BY <2>1, <2>3
  <2> QED BY <2>1, <2>2, <2>3
<1> QED BY <1>1, <1>2 DEF Entry

\* All edges, read that way.
EdgesOfMatrix ==
  /\ edgeBar \in [VertexPairs -> Stored]
  /\ \A a, b \in Vertices : a # b => edgeBar[{a, b}] = adjacency_matrix[a][b]

LEMMA EdgesRead == IInv => EdgesOfMatrix
<1> SUFFICES ASSUME TypeOK, Symmetric
             PROVE  EdgesOfMatrix
  BY DEF IInv
<1>1. \A a, b \in Vertices : a # b => {a, b} \in VertexPairs
  BY DEF VertexPairs
<1>2. \A a, b \in Vertices : a # b => Entry({a, b}) \in Stored
  BY EntryOfPair DEF TypeOK
<1>3. \A p \in VertexPairs : Entry(p) \in Stored
  BY <1>2 DEF VertexPairs
<1> QED BY <1>1, <1>3, EntryOfPair DEF edgeBar, EdgesOfMatrix

\* The same of the next state.
LEMMA EdgesReadNext == IInv' => EdgesOfMatrix'
  BY EdgesRead, PTL

\* Writing one edge of the matrix sets one edge of the graph.
LEMMA WriteSetsEdge ==
  ASSUME IInv, IInv', NEW a \in Vertices, NEW b \in Vertices, NEW w \in Stored,
         adjacency_matrix' = Write(a, b, w)
  PROVE  /\ a # b => /\ edgeBar' = [edgeBar EXCEPT ![{a, b}] = w]
                     /\ edgeBar[{a, b}] = adjacency_matrix[a][b]
         /\ a = b => edgeBar' = edgeBar
<1>1. /\ edgeBar \in [VertexPairs -> Stored]
      /\ \A c, d \in Vertices :
           c # d => edgeBar[{c, d}] = adjacency_matrix[c][d]
  BY EdgesRead DEF EdgesOfMatrix
<1>3. /\ edgeBar' \in [VertexPairs -> Stored]
      /\ \A c, d \in Vertices :
           c # d => edgeBar'[{c, d}] = adjacency_matrix'[c][d]
  BY EdgesReadNext DEF EdgesOfMatrix
<1>4. \A c, d \in Vertices :
        adjacency_matrix'[c][d] =
          IF (c = a /\ d = b) \/ (c = b /\ d = a)
          THEN w ELSE adjacency_matrix[c][d]
  BY DEF IInv, TypeOK, Write
<1>5. \A p \in VertexPairs :
        edgeBar'[p] = IF p = {a, b} THEN w ELSE edgeBar[p]
  <2> SUFFICES ASSUME NEW c \in Vertices, NEW d \in Vertices, c # d
               PROVE  edgeBar'[{c, d}] = IF {c, d} = {a, b} THEN w
                                                          ELSE edgeBar[{c, d}]
    BY DEF VertexPairs
  <2>1. {c, d} = {a, b} <=> (c = a /\ d = b) \/ (c = b /\ d = a)
    BY PairsEqual
  <2>2. edgeBar'[{c, d}] = adjacency_matrix'[c][d]
        /\ edgeBar[{c, d}] = adjacency_matrix[c][d]
    BY <1>1, <1>3
  <2> QED BY <1>4, <2>1, <2>2
<1>6. CASE a # b
  <2>1. {a, b} \in VertexPairs
    BY <1>6 DEF VertexPairs
  <2> QED BY <1>1, <1>3, <1>5, <1>6, <2>1
<1>7. CASE a = b
  <2>1. {a, b} \notin VertexPairs
    BY <1>7 DEF VertexPairs
  <2>2. \A p \in VertexPairs : edgeBar'[p] = edgeBar[p]
    BY <1>5, <2>1
  <2>3. edgeBar' = edgeBar
    BY <1>1, <1>3, <2>2
  <2> QED BY <1>7, <2>3
<1> QED BY <1>6, <1>7

LEMMA AbstractStep ==
  ASSUME IInv, IInv', [Next]_vars
  PROVE  [Abstract!GraphNext]_(Abstract!graphVars)
<1> USE GraphAssumption
<1>0. /\ TypeOK /\ SelfEdgesZero
      /\ edgeBar' \in [Abstract!Pairs -> Weights \cup {no_edge}]
  <2>1. TypeOK /\ SelfEdgesZero
    BY DEF IInv
  <2>2. edgeBar' \in [VertexPairs -> Stored]
    BY EdgesReadNext DEF EdgesOfMatrix
  <2> QED BY <2>1, <2>2 DEF VertexPairs, Abstract!Pairs, Stored
<1>1. ASSUME phase # "ready", resultBar' = no_edge
      PROVE  Abstract!Build
  BY <1>0, <1>1 DEF Abstract!Build, resultBar, edgeBar
<1>2. ASSUME ConstructEdge \/ EdgesDone \/ ConstructDiagonal \/ DiagonalDone
      PROVE  Abstract!Build
  <2>1. phase # "ready" /\ resultBar' = no_edge
    BY <1>2 DEF ConstructEdge, EdgesDone, ConstructDiagonal, DiagonalDone,
                resultBar
  <2> QED BY <1>1, <2>1
<1>3. ASSUME Operate
      PROVE  Abstract!GraphNext
  <2>1. phase = "ready" /\ phase' = "ready"
    BY <1>3 DEF Operate
  <2>2. PICK a \in Args, b \in Args :
          (\E w \in Weights : set_edge(a, b, w)) \/ remove_edge(a, b)
    BY <1>3 DEF Operate
  <2>3. resultBar' = result'
    BY <2>1 DEF resultBar
  <2>4. ASSUME NEW w \in Weights, set_edge(a, b, w), InRange(a, b),
               a = b => w = 0
        PROVE  Abstract!SetEdge(a, b, w)
    <3>1. /\ a \in Vertices /\ b \in Vertices
          /\ adjacency_matrix' = Write(a, b, w)
          /\ result' = adjacency_matrix[a][b]
      <4>1. a \in Vertices /\ b \in Vertices
        BY <2>4 DEF InRange, Vertices
      <4> QED BY <2>4, <4>1 DEF set_edge
    <3>2. w \in Stored
      BY DEF Stored
    <3>3. /\ a # b => /\ edgeBar' = [edgeBar EXCEPT ![{a, b}] = w]
                      /\ edgeBar[{a, b}] = adjacency_matrix[a][b]
          /\ a = b => edgeBar' = edgeBar
      BY <3>1, <3>2, WriteSetsEdge
    <3>4. a = b => result' = 0 /\ w = 0
      BY <1>0, <2>1, <2>4, <3>1 DEF SelfEdgesZero, Vertices, TypeOK
    <3> QED BY <2>3, <3>1, <3>3, <3>4 DEF Abstract!SetEdge, edgeBar, resultBar
  <2>5. ASSUME remove_edge(a, b), InRange(a, b), a # b
        PROVE  Abstract!RemoveEdge(a, b)
    <3>1. /\ a \in Vertices /\ b \in Vertices
          /\ adjacency_matrix' = Write(a, b, no_edge)
          /\ result' = adjacency_matrix[a][b]
      <4>1. a \in Vertices /\ b \in Vertices
        BY <2>5 DEF InRange, Vertices
      <4> QED BY <2>5, <4>1 DEF remove_edge
    <3>2. no_edge \in Stored
      BY DEF Stored
    <3>3. /\ edgeBar' = [edgeBar EXCEPT ![{a, b}] = no_edge]
          /\ edgeBar[{a, b}] = adjacency_matrix[a][b]
      BY <2>5, <3>1, <3>2, WriteSetsEdge
    <3> QED BY <2>3, <2>5, <3>1, <3>3
            DEF Abstract!RemoveEdge, edgeBar, resultBar
  <2>6. ASSUME result' = Threw, UNCHANGED adjacency_matrix,
               ~InRange(a, b) \/ a = b
        PROVE  Abstract!Refuse(a, b)
    <3>1. edgeBar' = edgeBar
      BY <2>6 DEF edgeBar, Entry
    <3>2. a \notin Vertices \/ b \notin Vertices \/ a = b
      BY <2>6 DEF InRange, Vertices
    <3> QED BY <2>3, <2>6, <3>1, <3>2
            DEF Abstract!Refuse, edgeBar, resultBar
  <2>7. CASE remove_edge(a, b)
    <3>1. Abstract!RemoveEdge(a, b) \/ Abstract!Refuse(a, b)
      BY <2>5, <2>6, <2>7 DEF remove_edge
    <3> QED BY <2>1, <3>1 DEF Abstract!GraphNext
  <2>8. ASSUME NEW w \in Weights, set_edge(a, b, w)
        PROVE  Abstract!GraphNext
    <3>1. Abstract!SetEdge(a, b, w) \/ Abstract!Refuse(a, b)
      BY <2>4, <2>6, <2>8 DEF set_edge
    <3> QED BY <2>1, <3>1 DEF Abstract!GraphNext
  <2> QED BY <2>2, <2>7, <2>8
<1>4. ASSUME UNCHANGED vars
      PROVE  UNCHANGED Abstract!graphVars
  BY <1>4 DEF vars, Abstract!graphVars, edgeBar, Entry, resultBar
<1> QED BY <1>2, <1>3, <1>4 DEF Next, Abstract!GraphNext

\* AdjacencyGraph implements WeightedGraph: an operation changes the edge it
\* names and no other, in both directions, and answers with the weight that
\* the edge had before.
THEOREM Implements == MstSpec => ImplementsGraph
<1>1. Init => Abstract!GraphInit
  <2> SUFFICES ASSUME Init PROVE Abstract!GraphInit
    OBVIOUS
  <2>1. IInv
    BY InitInv
  <2>2. /\ edgeBar \in [VertexPairs -> Stored]
        /\ \A a, b \in Vertices :
             a # b => edgeBar[{a, b}] = adjacency_matrix[a][b]
    BY <2>1, EdgesRead DEF EdgesOfMatrix
  <2>3. \A p \in VertexPairs : edgeBar[p] = no_edge
    BY <2>2 DEF VertexPairs, Init
  <2>4. phase # "ready" /\ resultBar = no_edge
    BY DEF Init, resultBar
  <2> QED BY <2>2, <2>3, <2>4
          DEF Abstract!GraphInit, Abstract!Pairs, VertexPairs, edgeBar, resultBar
<1>2. IInv /\ IInv' /\ [Next]_vars => [Abstract!GraphNext]_(Abstract!graphVars)
  BY AbstractStep
<1>3. MstInit => Abstract!GraphInit
  BY <1>1 DEF MstInit
<1>4. IInv /\ IInv' /\ [MstNext]_mstVars
        => [Abstract!GraphNext]_(Abstract!graphVars)
  BY <1>2, GraphUnchanged
<1> QED
  BY <1>3, <1>4, GraphInvHolds, PTL DEF MstSpec, ImplementsGraph, Abstract!Spec

-----------------------------------------------------------------------------
(* The trees.                                                               *)

\* Of a row of the matrix: get_neighbors is symmetric, and its weights are less
\* than infinity.
LEMMA NeighborFacts ==
  ASSUME IInv, NEW a \in Vertices, NEW b \in Vertices
  PROVE  /\ b \in get_neighbors(a) <=> a \in get_neighbors(b)
         /\ b \in get_neighbors(a)
              => /\ adjacency_matrix[a][b] \in Int
                 /\ adjacency_matrix[a][b] < Infinity
                 /\ adjacency_matrix[b][a] = adjacency_matrix[a][b]
         /\ get_neighbors(a) \subseteq Vertices \ {a}
<1>1. adjacency_matrix[a][b] = adjacency_matrix[b][a]
  BY DEF IInv, Symmetric
<1>2. adjacency_matrix[a][b] \in Weights \cup {no_edge}
  BY DEF IInv, TypeOK, Stored
<1> QED BY <1>1, <1>2, PrimAssumption DEF get_neighbors

Lists == [Vertices -> [Vertices -> Nat]]

LEMMA PushType ==
  ASSUME NEW lists \in Lists, NEW src \in Vertices, NEW dst \in Vertices
  PROVE  Push(lists, src, dst) \in Lists
BY DEF Push, Lists

\* add_edge on lists that are those of an undirected graph.
LEMMA JoinedStep ==
  ASSUME IInv, NEW lists \in Lists,
         NEW src \in Vertices, NEW dst \in Vertices,
         \A u, v \in Vertices : lists[u][v] = lists[v][u]
  PROVE  /\ Joined(lists, src, dst) \in Lists
         /\ \A u, v \in Vertices :
              Joined(lists, src, dst)[u][v] =
                IF /\ (u = src /\ v = dst) \/ (u = dst /\ v = src)
                   /\ adjacency_matrix[u][v] # no_edge
                   /\ lists[u][v] = 0
                THEN IF u = v THEN 2 ELSE 1
                ELSE lists[u][v]
<1> USE DEF Lists
<1>1. CASE adjacency_matrix[src][dst] = no_edge \/ lists[src][dst] > 0
  <2>1. adjacency_matrix[dst][src] = adjacency_matrix[src][dst]
    BY DEF IInv, Symmetric
  <2> QED BY <1>1, <2>1 DEF Joined
<1>2. CASE ~(adjacency_matrix[src][dst] = no_edge \/ lists[src][dst] > 0)
  <2>1. adjacency_matrix[dst][src] = adjacency_matrix[src][dst]
    BY DEF IInv, Symmetric
  <2>2. lists[src][dst] = 0 /\ lists[dst][src] = 0
    BY <1>2
  <2> DEFINE once == Push(lists, src, dst)
  <2>3. /\ once \in [Vertices -> [Vertices -> Nat]]
        /\ \A u, v \in Vertices :
             once[u][v] = IF u = src /\ v = dst THEN 1 ELSE lists[u][v]
    BY <2>2 DEF Push
  <2>4. /\ Push(once, dst, src) \in [Vertices -> [Vertices -> Nat]]
        /\ \A u, v \in Vertices :
             Push(once, dst, src)[u][v] =
               IF u = dst /\ v = src THEN once[dst][src] + 1 ELSE once[u][v]
    <3> HIDE DEF once
    <3> QED BY <2>3 DEF Push
  <2>5. Joined(lists, src, dst) = Push(once, dst, src)
    BY <1>2 DEF Joined
  <2> HIDE DEF once
  <2> QED BY <1>2, <2>1, <2>2, <2>3, <2>4, <2>5
<1> QED BY <1>1, <1>2

\* The part of SubgraphConsistent about the lists.
Consistent(lists, vs) ==
  \A u, v \in Vertices :
    /\ lists[u][v] = lists[v][u]
    /\ lists[u][v] > 0 => u \in vs /\ adjacency_matrix[u][v] # no_edge
    /\ lists[u][v] <= IF u = v THEN 2 ELSE 1

LEMMA ConsistentIs ==
  SubgraphConsistent <=> /\ stale => stage = "edited"
                         /\ ~stale => Consistent(adjacency_list, members)
  BY DEF SubgraphConsistent, Consistent

LEMMA JoinedConsistent ==
  ASSUME IInv, NEW lists \in Lists, NEW vs \in SUBSET Vertices,
         Consistent(lists, vs), NEW src \in vs, NEW dst \in vs
  PROVE  /\ Joined(lists, src, dst) \in Lists
         /\ Consistent(Joined(lists, src, dst), vs)
<1>1. src \in Vertices /\ dst \in Vertices
  OBVIOUS
<1>2. \A u, v \in Vertices : lists[u][v] = lists[v][u]
  BY DEF Consistent
<1> DEFINE joined == Joined(lists, src, dst)
<1>3. /\ joined \in Lists
      /\ \A u, v \in Vertices :
           joined[u][v] =
             IF /\ (u = src /\ v = dst) \/ (u = dst /\ v = src)
                /\ adjacency_matrix[u][v] # no_edge
                /\ lists[u][v] = 0
             THEN IF u = v THEN 2 ELSE 1
             ELSE lists[u][v]
  BY <1>1, <1>2, JoinedStep
<1> HIDE DEF joined
<1>4. \A u, v \in Vertices : adjacency_matrix[u][v] = adjacency_matrix[v][u]
  BY DEF IInv, Symmetric
<1>5. Consistent(joined, vs)
  BY <1>3, <1>4 DEF Consistent
<1> QED BY <1>3, <1>5 DEF joined

\* CostsOfCut of any costs and any vertices.
CutCosts(all, vs) ==
  /\ DOMAIN all = Vertices \ vs
  /\ \A u \in DOMAIN all :
       LET near == vs \cap get_neighbors(u) IN
       IF near = {} THEN all[u] = Unreached
       ELSE /\ all[u].parent \in near
            /\ all[u].cost = adjacency_matrix[u][all[u].parent]
            /\ \A w \in near : all[u].cost <= adjacency_matrix[u][w]

LEMMA CostsOfCutIs ==
  CostsOfCut <=> (stage = "prim" => CutCosts(costs, members))
  BY DEF CostsOfCut, CutCosts

\* A vertex that is added to the tree only lowers the costs of its neighbours.
LEMMA CutStep ==
  ASSUME IInv, NEW all, NEW vs \in SUBSET Vertices, CutCosts(all, vs),
         NEW v \in DOMAIN all
  PROVE  CutCosts(Modified(all, v), vs \cup {v})
<1> DEFINE next == Modified(all, v)
<1>1. DOMAIN all = Vertices \ vs /\ v \in Vertices /\ v \notin vs
  BY DEF CutCosts
<1>2. DOMAIN next = Vertices \ (vs \cup {v})
  BY <1>1 DEF Modified
<1>3. ASSUME NEW u \in DOMAIN next
      PROVE  LET near == (vs \cup {v}) \cap get_neighbors(u) IN
             IF near = {} THEN next[u] = Unreached
             ELSE /\ next[u].parent \in near
                  /\ next[u].cost = adjacency_matrix[u][next[u].parent]
                  /\ \A w \in near : next[u].cost <= adjacency_matrix[u][w]
  <2> DEFINE old  == vs \cap get_neighbors(u)
             near == (vs \cup {v}) \cap get_neighbors(u)
  <2>1. u \in DOMAIN all /\ u \in Vertices
    BY <1>1, <1>2
  <2>2. IF old = {} THEN all[u] = Unreached
        ELSE /\ all[u].parent \in old
             /\ all[u].cost = adjacency_matrix[u][all[u].parent]
             /\ \A w \in old : all[u].cost <= adjacency_matrix[u][w]
    BY <2>1 DEF CutCosts
  <2>3. \A w \in get_neighbors(u) :
          /\ adjacency_matrix[u][w] \in Int
          /\ adjacency_matrix[u][w] < Infinity
          /\ adjacency_matrix[w][u] = adjacency_matrix[u][w]
    BY <2>1, NeighborFacts
  <2>4. next[u] = IF v \in get_neighbors(u) /\ all[u].cost > adjacency_matrix[v][u]
                  THEN [cost |-> adjacency_matrix[v][u], parent |-> v]
                  ELSE all[u]
    <3>1. u \in get_neighbors(v) <=> v \in get_neighbors(u)
      BY <1>1, <2>1, NeighborFacts
    <3> QED BY <1>1, <1>2, <2>1, <3>1 DEF Modified
  <2>5. /\ all[u].cost \in Int
        /\ old = {} => all[u].cost = Infinity
    BY <2>2, <2>3, PrimAssumption DEF Unreached
  <2> HIDE DEF next
  <2>6. CASE v \in get_neighbors(u)
    <3>1. near = old \cup {v}
      BY <2>6
    <3>2. CASE all[u].cost > adjacency_matrix[v][u]
      <4>1. next[u].cost = adjacency_matrix[u][v] /\ next[u].parent = v
        BY <2>3, <2>4, <2>6, <3>2
      <4>2. \A w \in old : next[u].cost <= adjacency_matrix[u][w]
        BY <2>2, <2>3, <2>5, <2>6, <3>2, <4>1
      <4>3. next[u].cost <= adjacency_matrix[u][v]
        BY <2>3, <2>6, <4>1
      <4> QED BY <3>1, <4>1, <4>2, <4>3
    <3>3. CASE ~(all[u].cost > adjacency_matrix[v][u])
      <4>1. next[u] = all[u]
        BY <2>4, <3>3
      <4>2. old # {} /\ all[u].cost <= adjacency_matrix[u][v]
        BY <2>3, <2>5, <2>6, <3>3, PrimAssumption
      <4> HIDE DEF old
      <4> QED BY <2>2, <3>1, <4>1, <4>2
    <3> QED BY <3>2, <3>3
  <2>7. CASE v \notin get_neighbors(u)
    <3>1. near = old /\ next[u] = all[u]
      BY <2>4, <2>7
    <3> QED BY <2>2, <3>1
  <2> QED BY <2>6, <2>7
<1> QED BY <1>2, <1>3 DEF CutCosts

\* A vertex that is not in the tree is in no list.
LEMMA NotListed ==
  ASSUME adjacency_list \in Lists, Consistent(adjacency_list, members),
         NEW v \in Vertices, v \notin members
  PROVE  ~Listed(v) /\ [adjacency_list EXCEPT ![v] = Empty] = adjacency_list
<1>1. \A u \in Vertices : adjacency_list[u][v] = 0 /\ adjacency_list[v][u] = 0
  BY DEF Consistent, Lists
<1>2. adjacency_list[v] = Empty
  BY <1>1 DEF Lists, Empty
<1> QED BY <1>1, <1>2 DEF Listed, Lists

\* A vertex that is in no other list may lose its own.
LEMMA EmptiedConsistent ==
  ASSUME adjacency_list \in Lists, NEW vs \in SUBSET Vertices,
         Consistent(adjacency_list, vs), NEW v \in Vertices, ~Listed(v)
  PROVE  /\ [adjacency_list EXCEPT ![v] = Empty] \in Lists
         /\ Consistent([adjacency_list EXCEPT ![v] = Empty], vs \ {v})
<1>1. \A u \in Vertices \ {v} :
        adjacency_list[u][v] = 0 /\ adjacency_list[v][u] = 0
  <2>1. \A u \in Vertices : adjacency_list[u][v] \in Nat
    BY DEF Lists
  <2>2. \A u \in Vertices \ {v} : ~(adjacency_list[u][v] > 0)
    BY DEF Listed
  <2>3. \A u \in Vertices : adjacency_list[v][u] = adjacency_list[u][v]
    BY DEF Consistent
  <2> QED BY <2>1, <2>2, <2>3
<1> DEFINE lists == [adjacency_list EXCEPT ![v] = Empty]
<1>2. /\ lists \in Lists
      /\ \A u, w \in Vertices :
           lists[u][w] = IF u = v THEN 0 ELSE adjacency_list[u][w]
  BY DEF Lists, Empty
<1> HIDE DEF lists
<1>3. Consistent(lists, vs \ {v})
  BY <1>1, <1>2 DEF Consistent
<1> QED BY <1>2, <1>3 DEF lists

\* More vertices do no harm.
LEMMA MoreVertices ==
  ASSUME NEW lists, NEW vs, NEW more, vs \subseteq more, Consistent(lists, vs)
  PROVE  Consistent(lists, more)
BY DEF Consistent

LEMMA TreeInitInv == MstInit => TreeInv
<1> SUFFICES ASSUME MstInit PROVE TreeInv
  OBVIOUS
<1> USE DEF MstInit, SubgraphInit, Init
<1>1. adjacency_list \in Lists /\ Consistent(adjacency_list, members)
  <2>1. /\ adjacency_list \in Lists
        /\ \A u, v \in Vertices : adjacency_list[u][v] = 0
    BY DEF Lists, Empty
  <2> QED BY <2>1 DEF Consistent
<1>2. SubgraphTypeOK
  <2>1. 0 \in 0..MaxEdits
    BY SubgraphAssumption
  <2> QED BY <1>1, <2>1 DEF SubgraphTypeOK, Lists
<1>3. SubgraphConsistent
  BY <1>1, ConsistentIs
<1> QED BY <1>2, <1>3 DEF TreeInv, CostsOfCut, ThrowsOnCut

\* Consistent speaks of the graph, which only changes before there is a tree.
LEMMA ConsistentNext ==
  ASSUME UNCHANGED adjacency_matrix, Consistent(adjacency_list', members')
  PROVE  Consistent(adjacency_list, members)'
BY DEF Consistent

LEMMA CutCostsNext ==
  ASSUME UNCHANGED adjacency_matrix, CutCosts(costs', members')
  PROVE  CutCosts(costs, members)'
BY DEF CutCosts, get_neighbors

\* The parts of the invariant that a step of an algorithm establishes.
LEMMA TreeParts ==
  ASSUME TreeInv, UNCHANGED <<adjacency_matrix, phase, edits>>, phase = "ready",
         stage' \in {"kruskal", "prim", "tree"}, stale' = FALSE,
         adjacency_list' \in Lists, members' \subseteq Vertices,
         Consistent(adjacency_list', members'),
         stage' = "prim" => CutCosts(costs', members')
  PROVE  TreeInv'
<1>1. SubgraphTypeOK'
  BY DEF TreeInv, SubgraphTypeOK, Lists
<1>2. SubgraphConsistent'
  <2>1. Consistent(adjacency_list, members)'
    BY ConsistentNext
  <2>2. Consistent(adjacency_list, members)' => SubgraphConsistent'
    BY DEF SubgraphConsistent, Consistent
  <2> QED BY <2>1, <2>2
<1>3. CostsOfCut'
  <2>1. stage' = "prim" => CutCosts(costs, members)'
    BY CutCostsNext
  <2>2. (stage' = "prim" => CutCosts(costs, members)') => CostsOfCut'
    BY DEF CostsOfCut, CutCosts
  <2> QED BY <2>1, <2>2
<1> QED BY <1>1, <1>2, <1>3 DEF TreeInv, ThrowsOnCut

\* Every step keeps the tree in order.
LEMMA TreeStep ==
  ASSUME IInv, TreeInv, [MstNext]_mstVars
  PROVE  TreeInv'
<1> USE SubgraphAssumption
<1>0. /\ SubgraphTypeOK /\ SubgraphConsistent /\ CostsOfCut /\ ThrowsOnCut
      /\ adjacency_list \in Lists /\ members \in SUBSET Vertices
      /\ stage \notin {"edited"}
           => ~stale /\ Consistent(adjacency_list, members)
      /\ stage = "prim" => CutCosts(costs, members)
      /\ stage # "graph" => phase = "ready"
  BY ConsistentIs, CostsOfCutIs DEF TreeInv, SubgraphTypeOK, Lists
<1>1. ASSUME GraphStep
      PROVE  TreeInv'
  <2>1. /\ stage = "graph" /\ UNCHANGED <<members, adjacency_list, stage, edits, stale>>
        /\ members = {} /\ adjacency_list = [v \in Vertices |-> Empty]
    BY <1>1 DEF GraphStep, listVars, TreeInv
  <2>2. \A u, v \in Vertices : adjacency_list'[u][v] = 0
    BY <2>1 DEF Empty
  <2>3. SubgraphConsistent'
    BY <1>0, <2>1, <2>2 DEF SubgraphConsistent
  <2>4. SubgraphTypeOK'
    BY <1>0, <2>1 DEF SubgraphTypeOK
  <2> QED BY <2>1, <2>3, <2>4 DEF TreeInv, CostsOfCut, ThrowsOnCut
<1>2. ASSUME StartKruskal
      PROVE  TreeInv'
  <2>1. /\ stage = "graph" /\ phase = "ready" /\ stage' = "kruskal"
        /\ members' = Vertices
        /\ UNCHANGED <<adjacency_matrix, phase, edits, adjacency_list, stale>>
    BY <1>2 DEF StartKruskal, graphVars, vars
  <2>2. Consistent(adjacency_list, members)
    BY <1>0, <2>1
  <2>3. Consistent(adjacency_list', members')
    BY <1>0, <2>1, <2>2, MoreVertices
  <2>4. stale' = FALSE
    BY <1>0, <2>1 DEF SubgraphTypeOK
  <2> QED BY <1>0, <2>1, <2>3, <2>4, TreeParts
<1>3. ASSUME KruskalLoop
      PROVE  TreeInv'
  <2>1. /\ stage = "kruskal" /\ stage' = "kruskal" /\ phase = "ready"
        /\ UNCHANGED <<adjacency_matrix, phase, edits>>
    BY <1>0, <1>3 DEF KruskalLoop, graphVars, vars
  <2>2. Consistent(adjacency_list, members) /\ stale = FALSE
    BY <1>0, <2>1 DEF SubgraphTypeOK
  <2>3. PICK e \in edges : UNCHANGED listVars \/ add_edge(e[1], e[2])
    BY <1>3 DEF KruskalLoop
  <2>4. CASE UNCHANGED listVars
    BY <1>0, <2>1, <2>2, <2>4, TreeParts DEF listVars
  <2>5. CASE add_edge(e[1], e[2])
    <3>1. /\ e[1] \in members /\ e[2] \in members
          /\ adjacency_list' = Joined(adjacency_list, e[1], e[2])
          /\ UNCHANGED <<members, stale>>
      BY <2>5 DEF add_edge, has_vertex
    <3>2. adjacency_list' \in Lists /\ Consistent(adjacency_list', members')
      BY <1>0, <2>2, <3>1, JoinedConsistent
    <3> QED BY <1>0, <2>1, <2>2, <3>1, <3>2, TreeParts
  <2> QED BY <2>3, <2>4, <2>5
<1>4. ASSUME KruskalReturns \/ PrimReturns
      PROVE  TreeInv'
  <2>1. /\ stage \in {"kruskal", "prim"} /\ stage' = "tree" /\ phase = "ready"
        /\ UNCHANGED <<adjacency_matrix, phase, edits, members, adjacency_list,
                       stale>>
    BY <1>0, <1>4 DEF KruskalReturns, PrimReturns, graphVars, vars, listVars
  <2>2. Consistent(adjacency_list, members) /\ stale = FALSE
    BY <1>0, <2>1 DEF SubgraphTypeOK
  <2> QED BY <1>0, <2>1, <2>2, TreeParts
<1>5. ASSUME StartPrim
      PROVE  TreeInv'
  <2> DEFINE all == [v \in Vertices |-> Unreached]
  <2>1. /\ stage = "graph" /\ stage' = "prim" /\ phase = "ready"
        /\ UNCHANGED <<adjacency_matrix, phase, edits>>
    BY <1>5 DEF StartPrim, graphVars, vars
  <2>2. PICK v \in Vertices : add_vertex(v) /\ costs' = Modified(all, v)
    BY <1>5 DEF StartPrim
  <2>3. members = {} /\ Consistent(adjacency_list, members) /\ stale = FALSE
    BY <1>0, <2>1 DEF TreeInv, SubgraphTypeOK
  <2>4. CutCosts(all, {})
    BY DEF CutCosts
  <2>5. v \in DOMAIN all
    BY <2>2
  <2>6. CutCosts(costs', {} \cup {v})
    <3> HIDE DEF all
    <3> QED BY <2>2, <2>4, <2>5, CutStep
  <2>7. ~Listed(v) /\ [adjacency_list EXCEPT ![v] = Empty] = adjacency_list
    BY <1>0, <2>3, NotListed
  <2>8. members' = {v} /\ stale' = FALSE /\ adjacency_list' = adjacency_list
    BY <2>2, <2>3, <2>7 DEF add_vertex
  <2>9. Consistent(adjacency_list', members')
    BY <2>3, <2>8, MoreVertices
  <2>10. {} \cup {v} = {v}
    OBVIOUS
  <2> QED BY <1>0, <2>1, <2>6, <2>8, <2>9, <2>10, TreeParts
<1>6. ASSUME PrimLoop
      PROVE  TreeInv'
  <2>1. /\ stage = "prim" /\ stage' = "prim" /\ phase = "ready"
        /\ UNCHANGED <<adjacency_matrix, phase, edits>>
    BY <1>0, <1>6 DEF PrimLoop, graphVars, vars
  <2>2. Consistent(adjacency_list, members) /\ CutCosts(costs, members)
        /\ stale = FALSE
    BY <1>0, <2>1 DEF SubgraphTypeOK
  <2>3. PICK v \in DOMAIN costs :
          /\ costs[v].parent \in members
          /\ members' = members \cup {v}
          /\ stale' = (stale \/ Listed(v))
          /\ adjacency_list' = Joined([adjacency_list EXCEPT ![v] = Empty],
                                      v, costs[v].parent)
          /\ costs' = Modified(costs, v)
    BY <1>6 DEF PrimLoop, has_vertex
  <2>4. v \in Vertices /\ v \notin members
    BY <2>2 DEF CutCosts
  <2>5. ~Listed(v) /\ [adjacency_list EXCEPT ![v] = Empty] = adjacency_list
    BY <1>0, <2>2, <2>4, NotListed
  <2>6. Consistent(adjacency_list, members')
    BY <2>2, <2>3, MoreVertices
  <2>7. adjacency_list' \in Lists /\ Consistent(adjacency_list', members')
    <3>1. members' \in SUBSET Vertices /\ v \in members'
          /\ costs[v].parent \in members'
      BY <1>0, <2>3, <2>4
    <3>2. adjacency_list' = Joined(adjacency_list, v, costs[v].parent)
      BY <2>3, <2>5
    <3> QED BY <1>0, <2>6, <3>1, <3>2, JoinedConsistent
  <2>8. CutCosts(costs', members')
    BY <1>0, <2>2, <2>3, CutStep
  <2>9. members' \subseteq Vertices /\ stale' = FALSE
    BY <1>0, <2>2, <2>3, <2>4, <2>5
  <2> QED BY <2>1, <2>7, <2>8, <2>9, TreeParts
<1>7. ASSUME PrimThrows
      PROVE  TreeInv'
  <2>1. /\ stage = "prim" /\ stage' = "threw" /\ phase = "ready"
        /\ UNCHANGED <<adjacency_matrix, phase, edits, members, adjacency_list,
                       stale>>
    BY <1>0, <1>7 DEF PrimThrows, graphVars, vars, listVars
  <2>2. PICK v \in DOMAIN costs :
          IsMin(v, costs) /\ costs[v].parent \notin members
    BY <1>7 DEF PrimThrows, has_vertex
  <2>3. CutCosts(costs, members)
    BY <1>0, <2>1
  <2>4. v \in Vertices \ members /\ DOMAIN costs = Vertices \ members
    BY <2>3 DEF CutCosts
  <2>5. costs[v].cost = Infinity
    BY <2>2, <2>3 DEF CutCosts, Unreached
  <2>6. ASSUME NEW u \in Vertices \ members, NEW w \in members,
               w \in get_neighbors(u)
        PROVE  FALSE
    <3>1. costs[u].cost <= adjacency_matrix[u][w]
      BY <2>3, <2>6 DEF CutCosts
    <3>2. costs[u].parent \in get_neighbors(u)
          /\ costs[u].cost = adjacency_matrix[u][costs[u].parent]
      BY <2>3, <2>6 DEF CutCosts
    <3>3. costs[u].cost \in Int /\ costs[u].cost < Infinity
      BY <3>2, NeighborFacts DEF get_neighbors
    <3>4. Infinity < costs[u].cost \/ Infinity = costs[u].cost
      BY <2>2, <2>4, <2>5, <2>6 DEF IsMin
    <3> QED BY <3>3, <3>4, PrimAssumption
  <2>7. \A w \in members : get_neighbors(w) \subseteq members
    BY <1>0, <2>6, NeighborFacts
  <2>8. ThrowsOnCut'
    BY <2>1, <2>4, <2>7 DEF ThrowsOnCut, get_neighbors
  <2>9. SubgraphTypeOK'
    BY <1>0, <2>1 DEF SubgraphTypeOK
  <2>10. SubgraphConsistent'
    BY <1>0, <2>1 DEF SubgraphConsistent
  <2> QED BY <2>1, <2>8, <2>9, <2>10 DEF TreeInv, CostsOfCut
<1>8. ASSUME Edit
      PROVE  TreeInv'
  <2>1. /\ stage \in {"tree", "edited"} /\ stage' = "edited" /\ phase = "ready"
        /\ edits < MaxEdits /\ edits' = edits + 1
        /\ UNCHANGED <<adjacency_matrix, phase>>
    BY <1>0, <1>8 DEF Edit, graphVars, vars
  <2>2. ~stale => Consistent(adjacency_list, members)
    BY <1>0, ConsistentIs
  <2>3. PICK v \in EditArgs, u \in EditArgs :
          \/ add_vertex(v) \/ remove_vertex(v)
          \/ add_edge(v, u) \/ drop_edge(v, u)
          \/ Refused(v, u)
    BY <1>8 DEF Edit
  <2>4. ASSUME members' \subseteq Vertices, adjacency_list' \in Lists,
               stale' \in BOOLEAN, ~stale' => Consistent(adjacency_list', members')
        PROVE  TreeInv'
    <3>1. SubgraphTypeOK'
      BY <1>0, <2>1, <2>4 DEF SubgraphTypeOK, Lists
    <3>2. SubgraphConsistent'
      <4>1. ~stale' => Consistent(adjacency_list, members)'
        BY <2>1, <2>4, ConsistentNext
      <4>2. (~stale' => Consistent(adjacency_list, members)') /\ stage' = "edited"
              => SubgraphConsistent'
        BY DEF SubgraphConsistent, Consistent
      <4> QED BY <2>1, <4>1, <4>2
    <3> QED BY <2>1, <3>1, <3>2 DEF TreeInv, CostsOfCut, ThrowsOnCut
  <2>5. ASSUME v \in Vertices, stale' = (stale \/ Listed(v)),
               adjacency_list' = [adjacency_list EXCEPT ![v] = Empty],
               members' \subseteq Vertices, members \ {v} \subseteq members'
        PROVE  TreeInv'
    <3>1. adjacency_list' \in Lists
      BY <1>0, <2>5 DEF Lists, Empty
    <3>2. stale' \in BOOLEAN
      BY <2>5
    <3>3. ASSUME ~stale'
          PROVE  Consistent(adjacency_list', members')
      <4>1. Consistent(adjacency_list, members) /\ ~Listed(v)
        BY <2>2, <2>5, <3>3
      <4>2. Consistent(adjacency_list', members \ {v})
        BY <1>0, <2>5, <4>1, EmptiedConsistent
      <4> QED BY <2>5, <4>2, MoreVertices
    <3> QED BY <2>4, <2>5, <3>1, <3>2, <3>3
  <2>6. CASE add_vertex(v)
    <3>1. v \in Vertices
      BY <2>6, GraphAssumption DEF add_vertex, Vertices
    <3>2. members' = members \cup {v}
      BY <2>6 DEF add_vertex
    <3> QED BY <1>0, <2>5, <2>6, <3>1, <3>2 DEF add_vertex
  <2>7. CASE remove_vertex(v)
    <3>1. v \in Vertices
      BY <2>7, GraphAssumption DEF remove_vertex, Vertices
    <3>2. members' = members \ {v}
      BY <2>7 DEF remove_vertex
    <3> QED BY <1>0, <2>5, <2>7, <3>1, <3>2 DEF remove_vertex
  <2>8. CASE add_edge(v, u)
    <3>1. /\ v \in members /\ u \in members /\ UNCHANGED <<members, stale>>
          /\ adjacency_list' = Joined(adjacency_list, v, u)
      BY <2>8 DEF add_edge, has_vertex
    <3>2. adjacency_list' \in Lists
      <4>1. v \in Vertices /\ u \in Vertices
        BY <1>0, <3>1
      <4> QED BY <1>0, <3>1, <4>1, PushType DEF Joined
    <3>3. ~stale' => Consistent(adjacency_list', members')
      BY <1>0, <2>2, <3>1, JoinedConsistent
    <3> QED BY <1>0, <2>4, <3>1, <3>2, <3>3 DEF SubgraphTypeOK
  <2>9. CASE drop_edge(v, u)
    <3>1. /\ v \in Vertices /\ u \in Vertices /\ UNCHANGED <<members, stale>>
          /\ adjacency_list' = [adjacency_list EXCEPT ![v][u] = 0, ![u][v] = 0]
      BY <1>0, <2>9 DEF drop_edge, has_vertex
    <3>2. /\ adjacency_list' \in Lists
          /\ \A a, b \in Vertices :
               adjacency_list'[a][b] =
                 IF (a = v /\ b = u) \/ (a = u /\ b = v)
                 THEN 0 ELSE adjacency_list[a][b]
      BY <1>0, <3>1 DEF Lists
    <3>3. ~stale' => Consistent(adjacency_list', members')
      <4> SUFFICES ASSUME ~stale
                   PROVE  Consistent(adjacency_list', members)
        BY <3>1
      <4>1. Consistent(adjacency_list, members)
        BY <2>2
      <4>2. SUFFICES ASSUME NEW a \in Vertices, NEW b \in Vertices
                     PROVE  /\ adjacency_list'[a][b] = adjacency_list'[b][a]
                            /\ adjacency_list'[a][b] > 0
                                 => a \in members /\ adjacency_matrix[a][b] # no_edge
                            /\ adjacency_list'[a][b] <= IF a = b THEN 2 ELSE 1
        BY DEF Consistent
      <4>3. /\ adjacency_list[a][b] = adjacency_list[b][a]
            /\ adjacency_list[a][b] > 0
                 => a \in members /\ adjacency_matrix[a][b] # no_edge
            /\ adjacency_list[a][b] <= IF a = b THEN 2 ELSE 1
        BY <4>1, <4>2 DEF Consistent
      <4>4. \/ adjacency_list'[a][b] = 0 /\ adjacency_list'[b][a] = 0
            \/ /\ adjacency_list'[a][b] = adjacency_list[a][b]
               /\ adjacency_list'[b][a] = adjacency_list[b][a]
        BY <3>2, <4>2
      <4> QED BY <4>3, <4>4
    <3> QED BY <1>0, <2>4, <3>1, <3>2, <3>3 DEF SubgraphTypeOK
  <2>10. CASE Refused(v, u)
    BY <1>0, <2>2, <2>4, <2>10 DEF Refused, listVars, SubgraphTypeOK
  <2> QED BY <2>3, <2>6, <2>7, <2>8, <2>9, <2>10
<1>9. ASSUME UNCHANGED mstVars
      PROVE  TreeInv'
  BY <1>9 DEF mstVars, graphVars, vars, listVars, TreeInv, SubgraphTypeOK,
              SubgraphConsistent, CostsOfCut, ThrowsOnCut, get_neighbors
<1> QED
  BY <1>1, <1>2, <1>3, <1>4, <1>5, <1>6, <1>7, <1>8, <1>9
  DEF MstNext, KruskalStep, PrimStep

LEMMA TreeInvHolds == MstSpec => []TreeInv
<1>1. IInv /\ TreeInv /\ [MstNext]_mstVars => TreeInv'
  BY TreeStep
<1> QED BY <1>1, TreeInitInv, GraphInvHolds, PTL DEF MstSpec

\* The subgraph that Kruskal and Prim build is an undirected graph at every step,
\* although add_edge looks for the edge in one list and writes both, and stays one
\* under the changes of callers who remove no vertex that has edges.
THEOREM SubgraphStaysConsistent == MstSpec => []SubgraphConsistent
<1>1. TreeInv => SubgraphConsistent
  BY DEF TreeInv
<1> QED BY <1>1, TreeInvHolds, PTL

\* Prim's costs are always those of the cut between the tree and the other
\* vertices, although only the neighbours of the last vertex are updated: the edge
\* it takes is a lightest one across the cut.
THEOREM CostsStayThoseOfCut == MstSpec => []CostsOfCut
<1>1. TreeInv => CostsOfCut
  BY DEF TreeInv
<1> QED BY <1>1, TreeInvHolds, PTL

\* Prim throws only when no edge leaves its tree, so never on a connected graph,
\* which is what the servers have tested before they call it.
THEOREM PrimThrowsOnCut == MstSpec => []ThrowsOnCut
<1>1. TreeInv => ThrowsOnCut
  BY DEF TreeInv
<1> QED BY <1>1, TreeInvHolds, PTL

-----------------------------------------------------------------------------
(* Weights of sets of edges.                                                *)

\* WeightOf is a sum.
LEMMA WeightIsSum ==
  ASSUME NEW S, IsFiniteSet(S), NEW w, \A e \in S : w[e] = EdgeWeight(e)
  PROVE  WeightOf(S) = Sum(w, S)
<1> DEFINE Is(g) == g = [s \in SUBSET S |->
                           IF s = {} THEN 0
                           ELSE EdgeWeight(First(s)) + g[s \ {First(s)}]]
<1>1. \A g : Is(g) <=> IsSum(g, w, S)
  <2>1. \A s \in SUBSET S : s # {} => EdgeWeight(First(s)) = w[First(s)]
    BY DEF First
  <2>2. ASSUME NEW g
        PROVE  [s \in SUBSET S |->
                  IF s = {} THEN 0 ELSE EdgeWeight(First(s)) + g[s \ {First(s)}]]
               = [s \in SUBSET S |->
                    IF s = {} THEN 0 ELSE w[First(s)] + g[s \ {First(s)}]]
    BY <2>1
  <2> QED BY <2>2 DEF IsSum
<1>2. WeightOf(S) = (CHOOSE g : Is(g))[S]
  BY DEF WeightOf, MapThenSumSet, MapThenFoldSet, First
<1> DEFINE a == CHOOSE g : Is(g)
           b == CHOOSE g : IsSum(g, w, S)
<1>3. (\E g : IsSum(g, w, S)) /\ \E g : Is(g)
  BY <1>1, SumExists
<1> HIDE DEF Is
<1>4. Is(a) /\ IsSum(b, w, S)
  BY <1>3
<1>5. IsSum(a, w, S)
  BY <1>1, <1>4
<1> HIDE DEF a, b
<1>6. a[S] = b[S]
  BY <1>4, <1>5, SumsAgree
<1> QED BY <1>2, <1>6 DEF a, b, Sum

\* Hence the same of weights.
LEMMA WeightIsInt ==
  ASSUME NEW S, IsFiniteSet(S), \A e \in S : EdgeWeight(e) \in Int
  PROVE  WeightOf(S) \in Int
<1> DEFINE w == [e \in S |-> EdgeWeight(e)]
<1>1. \A e \in S : w[e] = EdgeWeight(e) /\ w[e] \in Int
  OBVIOUS
<1> HIDE DEF w
<1> QED BY <1>1, WeightIsSum, SumIsInt

\* Taking an edge away.
LEMMA WeightWithout ==
  ASSUME NEW S, IsFiniteSet(S), \A e \in S : EdgeWeight(e) \in Int, NEW x \in S
  PROVE  WeightOf(S) = EdgeWeight(x) + WeightOf(S \ {x})
<1> DEFINE w == [e \in S |-> EdgeWeight(e)]
<1>1. \A e \in S : w[e] = EdgeWeight(e) /\ w[e] \in Int
  OBVIOUS
<1> HIDE DEF w
<1>2. IsFiniteSet(S \ {x}) /\ \A e \in S \ {x} : w[e] = EdgeWeight(e)
  BY <1>1, FS_Subset
<1>3. WeightOf(S) = Sum(w, S)
  BY <1>1, WeightIsSum
<1>4. WeightOf(S \ {x}) = Sum(w, S \ {x})
  BY <1>2, WeightIsSum
<1>5. Sum(w, S) = w[x] + Sum(w, S \ {x})
  BY <1>1, SumWithout
<1> QED BY <1>1, <1>3, <1>4, <1>5

-----------------------------------------------------------------------------
(* Joined vertices.                                                         *)

\* Two vertices are joined if each set that has one of them and not the other has
\* an edge at its border.
LEMMA JoinsIs ==
  ASSUME NEW E, NEW u, NEW v
  PROVE  <<u, v>> \in Joins(E)
           <=> /\ u \in Vertices /\ v \in Vertices
               /\ \A S \in SUBSET Vertices :
                    (\A e \in E : ~Crosses(e, S)) => (u \in S <=> v \in S)
<1>1. \A S : Crosses(<<u, v>>, S) <=> ~(u \in S <=> v \in S)
  BY DEF Crosses
<1> QED BY <1>1 DEF Joins

\* Sets of edges are compared by the ends of their edges.
LEMMA JoinsMore ==
  ASSUME NEW E, NEW F, \A e \in E : <<e[1], e[2]>> \in Joins(F)
  PROVE  Joins(E) \subseteq Joins(F)
<1>1. ASSUME NEW S \in SUBSET Vertices, \A f \in F : ~Crosses(f, S), NEW e \in E
      PROVE  ~Crosses(e, S)
  <2>1. e[1] \in S <=> e[2] \in S
    <3>1. <<e[1], e[2]>> \in Joins(F)
      BY <1>1
    <3> DEFINE a == e[1]
               b == e[2]
    <3> HIDE DEF a, b
    <3>2. a \in S <=> b \in S
      BY <1>1, <3>1, JoinsIs DEF a, b
    <3> QED BY <3>2 DEF a, b
  <2> QED BY <2>1 DEF Crosses
<1> QED BY <1>1 DEF Joins

\* An edge joins its ends.
LEMMA EndsJoined ==
  ASSUME NEW E, NEW e \in E, e[1] \in Vertices, e[2] \in Vertices
  PROVE  <<e[1], e[2]>> \in Joins(E)
<1>1. \A S : (\A f \in E : ~Crosses(f, S)) => (e[1] \in S <=> e[2] \in S)
  BY DEF Crosses
<1> QED BY <1>1, JoinsIs

\* More edges join more.
LEMMA JoinsMonotone ==
  ASSUME NEW E, NEW F, E \subseteq F
  PROVE  Joins(E) \subseteq Joins(F)
BY DEF Joins

\* What a vertex is joined with.
Component(E, v) == {u \in Vertices : <<u, v>> \in Joins(E)}

\* No edge leaves it.
LEMMA ComponentClosed ==
  ASSUME NEW E, \A e \in E : e[1] \in Vertices /\ e[2] \in Vertices,
         NEW v \in Vertices
  PROVE  /\ v \in Component(E, v)
         /\ \A e \in E : ~Crosses(e, Component(E, v))
<1>1. v \in Component(E, v)
  BY JoinsIs DEF Component
<1>2. ASSUME NEW e \in E
      PROVE  e[1] \in Component(E, v) <=> e[2] \in Component(E, v)
  <2>1. \A S \in SUBSET Vertices :
          (\A f \in E : ~Crosses(f, S)) => (e[1] \in S <=> e[2] \in S)
    BY DEF Crosses
  <2>2. <<e[1], v>> \in Joins(E) <=> <<e[2], v>> \in Joins(E)
    BY <2>1, JoinsIs
  <2> QED BY <2>2 DEF Component
<1> QED BY <1>1, <1>2 DEF Crosses

\* To be joined is an equivalence.
LEMMA JoinsEquivalence ==
  ASSUME NEW E
  PROVE  /\ \A u \in Vertices : <<u, u>> \in Joins(E)
         /\ \A u, v : <<u, v>> \in Joins(E) <=> <<v, u>> \in Joins(E)
         /\ \A u, v, w : <<u, v>> \in Joins(E) /\ <<v, w>> \in Joins(E)
                           => <<u, w>> \in Joins(E)
<1>1. \A u \in Vertices : <<u, u>> \in Joins(E)
  BY JoinsIs
<1>2. \A u, v : <<u, v>> \in Joins(E) <=> <<v, u>> \in Joins(E)
  <2> SUFFICES ASSUME NEW u, NEW v, <<u, v>> \in Joins(E)
               PROVE  <<v, u>> \in Joins(E)
    OBVIOUS
  <2> QED BY JoinsIs
<1>3. ASSUME NEW u, NEW v, NEW w, <<u, v>> \in Joins(E), <<v, w>> \in Joins(E)
      PROVE  <<u, w>> \in Joins(E)
  <2>1. u \in Vertices /\ v \in Vertices /\ w \in Vertices
    BY <1>3, JoinsIs
  <2>2. \A S \in SUBSET Vertices :
          (\A e \in E : ~Crosses(e, S))
            => (u \in S <=> v \in S) /\ (v \in S <=> w \in S)
    BY <1>3, JoinsIs
  <2> QED BY <2>1, <2>2, JoinsIs
<1> QED BY <1>1, <1>2, <1>3

-----------------------------------------------------------------------------
(* Lightest edges across borders.                                           *)

\* Of an edge of the graph.
LEMMA EdgeFacts ==
  ASSUME TypeOK, NEW e \in get_edges
  PROVE  /\ e[1] \in Vertices /\ e[2] \in Vertices /\ e = <<e[1], e[2]>>
         /\ EdgeWeight(e) \in Int
<1>1. e[1] \in Vertices /\ e[2] \in Vertices /\ e = <<e[1], e[2]>>
  BY DEF get_edges
<1>2. adjacency_matrix[e[1]][e[2]] \in Weights
  BY <1>1 DEF get_edges, TypeOK, Stored
<1> QED BY <1>1, <1>2, PrimAssumption DEF EdgeWeight

\* There are finitely many.
LEMMA EdgesFinite == IsFiniteSet(Vertices) /\ IsFiniteSet(get_edges)
<1>1. IsFiniteSet(Vertices)
  BY GraphAssumption, FS_Interval DEF Vertices
<1>2. IsFiniteSet(Vertices \X Vertices)
  BY <1>1, FS_Product
<1> QED BY <1>1, <1>2, FS_Subset DEF get_edges

\* A lightest edge across a border that no other edge of the set crosses may be
\* added.  Its own border is this one; where it crosses the border of another
\* edge, that edge gets the symmetric difference of the two sets.
LEMMA CutExtended ==
  ASSUME TypeOK, NEW T \in SUBSET get_edges, CutOptimal(T),
         NEW f \in get_edges, NEW C \in SUBSET Vertices,
         \A e \in T : ~Crosses(e, C), Crosses(f, C), LightestAcross(f, C)
  PROVE  CutOptimal(T \cup {f})
<1>1. {g \in T \cup {f} : Crosses(g, C)} = {f}
  OBVIOUS
<1>2. ASSUME NEW e \in T
      PROVE  \E S \in SUBSET Vertices :
               {g \in T \cup {f} : Crosses(g, S)} = {e} /\ LightestAcross(e, S)
  <2>1. PICK S \in SUBSET Vertices :
          {g \in T : Crosses(g, S)} = {e} /\ LightestAcross(e, S)
    BY DEF CutOptimal
  <2>2. CASE ~Crosses(f, S)
    <3>1. {g \in T \cup {f} : Crosses(g, S)} = {e}
      BY <2>1, <2>2
    <3> QED BY <2>1, <3>1
  <2>3. CASE Crosses(f, S)
    <3> DEFINE D == (S \ C) \cup (C \ S)
    <3>1. \A g : Crosses(g, D) <=> ~(Crosses(g, S) <=> Crosses(g, C))
      BY DEF Crosses
    <3> HIDE DEF D
    <3>2. {g \in T \cup {f} : Crosses(g, D)} = {e}
      <4>1. \A g \in T : Crosses(g, D) <=> Crosses(g, S)
        BY <3>1
      <4>2. ~Crosses(f, D)
        BY <2>3, <3>1
      <4> QED BY <2>1, <4>1, <4>2
    <3>3. LightestAcross(e, D)
      <4> SUFFICES ASSUME NEW g \in get_edges, Crosses(g, D)
                   PROVE  EdgeWeight(e) <= EdgeWeight(g)
        BY DEF LightestAcross
      <4>1. Crosses(g, S) \/ Crosses(g, C)
        BY <3>1
      <4>2. Crosses(g, S) => EdgeWeight(e) <= EdgeWeight(g)
        BY <2>1 DEF LightestAcross
      <4>3. Crosses(g, C) => EdgeWeight(f) <= EdgeWeight(g)
        BY DEF LightestAcross
      <4>4. EdgeWeight(e) <= EdgeWeight(f)
        BY <2>1, <2>3 DEF LightestAcross
      <4>5. /\ EdgeWeight(e) \in Int /\ EdgeWeight(f) \in Int
            /\ EdgeWeight(g) \in Int
        BY EdgeFacts
      <4> QED BY <4>1, <4>2, <4>3, <4>4, <4>5
    <3>4. D \in SUBSET Vertices
      BY DEF D
    <3> QED BY <3>2, <3>3, <3>4
  <2> QED BY <2>2, <2>3
<1> QED BY <1>1, <1>2 DEF CutOptimal

\* Of the edges that join a and b, one that crosses a border between them is on
\* the way from a to b, so that an edge from a to b may replace it.
LEMMA OnTheWay ==
  ASSUME NEW S, IsFiniteSet(S),
         \A g \in S : g[1] \in Vertices /\ g[2] \in Vertices,
         NEW a, NEW b, <<a, b>> \in Joins(S),
         NEW C \in SUBSET Vertices, ~(a \in C <=> b \in C)
  PROVE  \E f \in S : /\ Crosses(f, C)
                      /\ <<f[1], f[2]>> \in Joins((S \ {f}) \cup {<<a, b>>})
<1> DEFINE F == {P \in SUBSET S : <<a, b>> \in Joins(P)}
<1>1. S \in F /\ F \subseteq SUBSET S
  OBVIOUS
<1>2. PICK P \in F : \A Q \in F : Q \subseteq P => Q = P
  <2> HIDE DEF F
  <2> QED BY <1>1, SmallestSubset
<1>3. a \in Vertices /\ b \in Vertices
  BY JoinsIs
<1>4. PICK f \in P : Crosses(f, C)
  <2>1. <<a, b>> \in Joins(P)
    OBVIOUS
  <2> QED BY <2>1, JoinsIs
<1> DEFINE Q == P \ {f}
           R == (S \ {f}) \cup {<<a, b>>}
<1>5. <<a, b>> \notin Joins(Q)
  BY <1>2
<1>6. \A g \in Q : g[1] \in Vertices /\ g[2] \in Vertices
  OBVIOUS
<1>7. ASSUME NEW v \in {a, b}
      PROVE  v \in Component(Q, v) /\ Crosses(f, Component(Q, v))
  <2>1. v \in Vertices
    BY <1>3
  <2>2. v \in Component(Q, v) /\ \A g \in Q : ~Crosses(g, Component(Q, v))
    <3> HIDE DEF Q
    <3> QED BY <1>6, <2>1, ComponentClosed
  <2>3. ~(a \in Component(Q, v) /\ b \in Component(Q, v))
    <3>1. ASSUME <<a, v>> \in Joins(Q), <<b, v>> \in Joins(Q)
          PROVE  FALSE
      <4>1. <<v, b>> \in Joins(Q)
        BY <3>1, JoinsEquivalence
      <4> QED BY <1>5, <3>1, <4>1, JoinsEquivalence
    <3> QED BY <3>1 DEF Component
  <2>4. Component(Q, v) \in SUBSET Vertices
    BY DEF Component
  <2>5. <<a, b>> \in Joins(P)
    OBVIOUS
  <2>6. ~ \A g \in P : ~Crosses(g, Component(Q, v))
    <3> DEFINE K == Component(Q, v)
    <3>1. K \in SUBSET Vertices /\ ~(a \in K <=> b \in K)
      BY <2>2, <2>3, <2>4
    <3> HIDE DEF K
    <3>2. ~ \A g \in P : ~Crosses(g, K)
      BY <2>5, <3>1, JoinsIs
    <3> QED BY <3>2 DEF K
  <2> QED BY <2>2, <2>6
<1>8. \A u \in Vertices : ~(u \in Component(Q, a) /\ u \in Component(Q, b))
  <2> SUFFICES ASSUME NEW u, <<u, a>> \in Joins(Q), <<u, b>> \in Joins(Q)
               PROVE  FALSE
    BY DEF Component
  <2>1. <<a, u>> \in Joins(Q)
    BY JoinsEquivalence
  <2> QED BY <1>5, <2>1, JoinsEquivalence
<1> HIDE DEF Q, R
<1>9. f[1] \in Vertices /\ f[2] \in Vertices
  OBVIOUS
<1>10. \/ f[1] \in Component(Q, a) /\ f[2] \in Component(Q, b)
       \/ f[2] \in Component(Q, a) /\ f[1] \in Component(Q, b)
  BY <1>7, <1>8, <1>9 DEF Crosses
<1>11. Joins(Q) \subseteq Joins(R)
  BY JoinsMonotone DEF Q, R
<1>12. <<a, b>> \in Joins(R)
  <2> DEFINE ab == <<a, b>>
  <2>1. ab \in R /\ ab[1] = a /\ ab[2] = b
    BY DEF R
  <2> HIDE DEF ab
  <2> QED BY <1>3, <2>1, EndsJoined
<1>13. \A u, v : <<u, a>> \in Joins(Q) /\ <<v, b>> \in Joins(Q)
                   => <<u, v>> \in Joins(R) /\ <<v, u>> \in Joins(R)
  <2> SUFFICES ASSUME NEW u, NEW v, <<u, a>> \in Joins(Q), <<v, b>> \in Joins(Q)
               PROVE  <<u, v>> \in Joins(R) /\ <<v, u>> \in Joins(R)
    OBVIOUS
  <2>1. <<u, a>> \in Joins(R) /\ <<b, v>> \in Joins(R)
    BY <1>11, JoinsEquivalence
  <2>2. <<u, b>> \in Joins(R)
    BY <1>12, <2>1, JoinsEquivalence
  <2>3. <<u, v>> \in Joins(R)
    BY <2>1, <2>2, JoinsEquivalence
  <2> QED BY <2>3, JoinsEquivalence
<1>14. <<f[1], f[2]>> \in Joins(R)
  BY <1>10, <1>13 DEF Component
<1> QED BY <1>4, <1>14 DEF R

\* What the borders are for: a set of edges that joins what all edges join, each
\* of which is a lightest edge across its border, weighs least.  Of the lighter
\* sets, the one with most edges of T would have an edge that one of T can replace.
LEMMA CutOptimalIsMinimum ==
  ASSUME TypeOK, NEW T \in SUBSET get_edges, CutOptimal(T),
         Joins(T) = Joins(get_edges)
  PROVE  MinimumSpanning(T, get_edges)
<1>1. ASSUME NEW e \in T
      PROVE  Joins(T \ {e}) # Joins(get_edges)
  <2>1. PICK C \in SUBSET Vertices : {g \in T : Crosses(g, C)} = {e}
    BY DEF CutOptimal
  <2>2. Crosses(e, C) /\ \A g \in T \ {e} : ~Crosses(g, C)
    BY <2>1
  <2>3. <<e[1], e[2]>> \notin Joins(T \ {e})
    BY <2>2, JoinsIs DEF Crosses
  <2>4. <<e[1], e[2]>> \in Joins(get_edges)
    <3>1. e \in get_edges
      OBVIOUS
    <3> QED BY <3>1, EdgeFacts, EndsJoined
  <2> QED BY <2>3, <2>4
<1>2. ASSUME NEW X \in SUBSET get_edges
      PROVE  /\ IsFiniteSet(X) /\ \A e \in X : EdgeWeight(e) \in Int
             /\ WeightOf(X) \in Int
  <2>1. IsFiniteSet(X)
    BY EdgesFinite, FS_Subset
  <2>2. \A e \in X : EdgeWeight(e) \in Int
    BY EdgeFacts
  <2> QED BY <2>1, <2>2, WeightIsInt
<1> DEFINE Lighter(X) == /\ Cardinality(X) = Cardinality(T)
                         /\ Joins(X) = Joins(get_edges)
                         /\ WeightOf(X) < WeightOf(T)
           F == {Y \in SUBSET T :
                   \E X \in SUBSET get_edges : Lighter(X) /\ Y = T \ X}
<1>3. ASSUME NEW X \in SUBSET get_edges
      PROVE  ~Lighter(X)
  <2> SUFFICES ASSUME Lighter(X) PROVE FALSE
    BY <1>3
  <2>1. T \ X \in F /\ F \subseteq SUBSET T /\ IsFiniteSet(T)
    BY <1>2
  <2>2. PICK Y \in F : \A Z \in F : Z \subseteq Y => Z = Y
    <3> HIDE DEF F
    <3> QED BY <2>1, SmallestSubset
  <2>3. PICK S \in SUBSET get_edges : Lighter(S) /\ Y = T \ S
    OBVIOUS
  <2>4. PICK e \in T : e \notin S
    <3> SUFFICES ASSUME T \subseteq S PROVE FALSE
      OBVIOUS
    <3>1. S = T
      BY <1>2, <2>3, FS_Subset
    <3> QED BY <1>2, <2>3, <3>1
  <2>5. /\ e \in get_edges /\ e = <<e[1], e[2]>>
        /\ e[1] \in Vertices /\ e[2] \in Vertices
    BY EdgeFacts
  <2>6. PICK C \in SUBSET Vertices :
          {g \in T : Crosses(g, C)} = {e} /\ LightestAcross(e, C)
    BY DEF CutOptimal
  <2>7. \A g \in S : g[1] \in Vertices /\ g[2] \in Vertices
    BY EdgeFacts
  <2>8. PICK f \in S :
          /\ Crosses(f, C)
          /\ <<f[1], f[2]>> \in Joins((S \ {f}) \cup {e})
    <3> DEFINE a == e[1]
               b == e[2]
    <3>1. <<a, b>> \in Joins(S)
      BY <2>3, <2>5, EndsJoined
    <3>2. ~(a \in C <=> b \in C)
      <4>1. Crosses(e, C)
        BY <2>6
      <4> QED BY <4>1 DEF Crosses
    <3>3. IsFiniteSet(S)
      BY <1>2
    <3> HIDE DEF a, b
    <3>4. \E f \in S : /\ Crosses(f, C)
                       /\ <<f[1], f[2]>> \in Joins((S \ {f}) \cup {<<a, b>>})
      BY <2>7, <3>1, <3>2, <3>3, OnTheWay
    <3> QED BY <2>5, <3>4 DEF a, b
  <2> DEFINE R == (S \ {f}) \cup {e}
  <2>9. R \in SUBSET get_edges /\ f \notin T /\ f # e
    BY <2>4, <2>5, <2>6, <2>8
  <2>10. Cardinality(R) = Cardinality(T)
    <3>1. IsFiniteSet(S) /\ Cardinality(S) \in Nat
      BY <1>2, FS_CardinalityType
    <3>2. /\ IsFiniteSet(S \ {f})
          /\ Cardinality(S \ {f}) = Cardinality(S) - 1
      BY <3>1, FS_RemoveElement
    <3>3. Cardinality(R) = Cardinality(S \ {f}) + 1
      BY <2>4, <3>2, FS_AddElement
    <3> QED BY <2>3, <3>1, <3>2, <3>3
  <2>11. Joins(R) = Joins(get_edges)
    <3>1. \A g \in S : <<g[1], g[2]>> \in Joins(R)
      <4> SUFFICES ASSUME NEW g \in S, g # f
                   PROVE  <<g[1], g[2]>> \in Joins(R)
        BY <2>8
      <4>1. g \in R
        OBVIOUS
      <4> HIDE DEF R
      <4> QED BY <2>7, <4>1, EndsJoined
    <3> HIDE DEF R
    <3>2. Joins(S) \subseteq Joins(R)
      BY <3>1, JoinsMore
    <3>3. Joins(R) \subseteq Joins(get_edges)
      BY <2>9, JoinsMonotone
    <3> QED BY <2>3, <3>2, <3>3
  <2>12. WeightOf(R) <= WeightOf(S)
    <3>1. EdgeWeight(e) <= EdgeWeight(f)
      BY <2>6, <2>8 DEF LightestAcross
    <3>2. WeightOf(S) = EdgeWeight(f) + WeightOf(S \ {f})
      BY <1>2, WeightWithout
    <3>3. WeightOf(R) = EdgeWeight(e) + WeightOf(R \ {e})
      <4>1. IsFiniteSet(R) /\ \A g \in R : EdgeWeight(g) \in Int
        BY <1>2, <2>9
      <4>2. e \in R
        OBVIOUS
      <4> HIDE DEF R
      <4> QED BY <4>1, <4>2, WeightWithout
    <3>4. R \ {e} = S \ {f}
      BY <2>4
    <3>5. /\ EdgeWeight(e) \in Int /\ EdgeWeight(f) \in Int
          /\ WeightOf(S \ {f}) \in Int
      BY <1>2, <2>5
    <3>6. WeightOf(R) = EdgeWeight(e) + WeightOf(S \ {f})
      BY <3>3, <3>4
    <3> DEFINE rest == WeightOf(S \ {f})
    <3> HIDE DEF R, rest
    <3>7. \A k, m, n \in Int : k <= m => k + n <= m + n
      OBVIOUS
    <3> QED BY <3>1, <3>2, <3>5, <3>6, <3>7 DEF rest
  <2>13. WeightOf(R) < WeightOf(T)
    <3>1. WeightOf(S) < WeightOf(T)
      BY <2>3
    <3>2. WeightOf(R) \in Int /\ WeightOf(S) \in Int /\ WeightOf(T) \in Int
      BY <1>2, <2>9
    <3> HIDE DEF R
    <3> QED BY <2>12, <3>1, <3>2
  <2>14. T \ R \in F
    BY <2>9, <2>10, <2>11, <2>13
  <2>15. T \ R \subseteq Y /\ e \in Y /\ e \notin T \ R
    BY <2>3, <2>4, <2>9
  <2> QED BY <2>2, <2>14, <2>15
<1>4. ASSUME NEW S \in kSubset(Cardinality(T), get_edges),
             Joins(S) = Joins(get_edges)
      PROVE  WeightOf(T) <= WeightOf(S)
  <2>1. S \in SUBSET get_edges /\ Cardinality(S) = Cardinality(T)
    BY DEF kSubset
  <2>2. ~(WeightOf(S) < WeightOf(T))
    BY <1>3, <1>4, <2>1
  <2>3. WeightOf(S) \in Int /\ WeightOf(T) \in Int
    BY <1>2, <2>1
  <2> QED BY <2>2, <2>3
<1> QED BY <1>1, <1>4 DEF MinimumSpanning

-----------------------------------------------------------------------------
(* The union-find forest.                                                   *)

\* Rooted, of any parents.
RootedIn(p) ==
  \A S \in (SUBSET Vertices) \ {{}} : \E v \in S : p[v] = v \/ p[v] \notin S

\* r gives each vertex its root.
IsRoots(r, p) ==
  /\ r \in [Vertices -> Vertices]
  /\ \A v \in Vertices : r[v] = IF p[v] = v THEN v ELSE r[p[v]]

Parents == [Vertices -> Vertices]

\* Induction along the parents, by the set of the vertices for which a statement
\* fails.
LEMMA RootsAreRoots ==
  ASSUME NEW p \in Parents, RootedIn(p), NEW r, IsRoots(r, p)
  PROVE  \A v \in Vertices : p[r[v]] = r[v] /\ r[r[v]] = r[v]
<1> DEFINE B == {v \in Vertices : p[r[v]] # r[v]}
<1>1. B = {}
  <2> SUFFICES ASSUME B # {} PROVE FALSE
    OBVIOUS
  <2>1. B \in (SUBSET Vertices) \ {{}}
    OBVIOUS
  <2> HIDE DEF B
  <2>2. PICK v \in B : p[v] = v \/ p[v] \notin B
    BY <2>1 DEF RootedIn
  <2> USE DEF B
  <2>3. r[v] = IF p[v] = v THEN v ELSE r[p[v]]
    BY DEF IsRoots
  <2>4. p[v] \in Vertices
    BY DEF Parents
  <2> QED BY <2>2, <2>3, <2>4
<1> QED BY <1>1 DEF IsRoots

\* There is one way only to give each vertex its root.
LEMMA RootsUnique ==
  ASSUME NEW p \in Parents, RootedIn(p),
         NEW r, IsRoots(r, p), NEW s, IsRoots(s, p)
  PROVE  r = s
<1> DEFINE B == {v \in Vertices : r[v] # s[v]}
<1>1. B = {}
  <2> SUFFICES ASSUME B # {} PROVE FALSE
    OBVIOUS
  <2>1. B \in (SUBSET Vertices) \ {{}}
    OBVIOUS
  <2> HIDE DEF B
  <2>2. PICK v \in B : p[v] = v \/ p[v] \notin B
    BY <2>1 DEF RootedIn
  <2> USE DEF B
  <2>3. /\ r[v] = IF p[v] = v THEN v ELSE r[p[v]]
        /\ s[v] = IF p[v] = v THEN v ELSE s[p[v]]
    BY DEF IsRoots
  <2>4. p[v] \in Vertices
    BY DEF Parents
  <2> QED BY <2>2, <2>3, <2>4
<1>2. r \in [Vertices -> Vertices] /\ s \in [Vertices -> Vertices]
  BY DEF IsRoots
<1> QED BY <1>1, <1>2

\* Path compression keeps the roots, whichever vertices it is done for.
LEMMA CompressionKeepsRoots ==
  ASSUME NEW p \in Parents, RootedIn(p), NEW r, IsRoots(r, p),
         NEW c \in Parents, \A v \in Vertices : c[v] \in {p[v], r[v]}
  PROVE  RootedIn(c) /\ IsRoots(r, c)
<1>1. \A v \in Vertices :
        /\ p[v] \in Vertices /\ c[v] \in Vertices /\ r[v] \in Vertices
        /\ r[v] = IF p[v] = v THEN v ELSE r[p[v]]
        /\ p[r[v]] = r[v] /\ r[r[v]] = r[v]
  BY RootsAreRoots DEF Parents, IsRoots
<1>2. RootedIn(c)
  <2> SUFFICES ASSUME NEW S \in SUBSET Vertices, S # {},
                      \A v \in S : c[v] # v /\ c[v] \in S
               PROVE  FALSE
    BY DEF RootedIn
  <2>1. PICK v \in S : p[v] = v \/ p[v] \notin S
    BY DEF RootedIn
  <2>2. c[v] = r[v] /\ r[v] \in S
    BY <1>1, <2>1
  <2>3. c[r[v]] = r[v]
    BY <1>1, <2>2
  <2> QED BY <2>2, <2>3
<1>3. IsRoots(r, c)
  <2>1. ASSUME NEW v \in Vertices
        PROVE  r[v] = IF c[v] = v THEN v ELSE r[c[v]]
    BY <1>1
  <2> QED BY <2>1 DEF IsRoots
<1> QED BY <1>2, <1>3

\* Where a root goes below another one, so do the vertices below it.
LEMMA AttachedRoots ==
  ASSUME NEW p \in Parents, RootedIn(p), NEW r, IsRoots(r, p),
         NEW x \in Vertices, NEW y \in Vertices, p[x] = x, p[y] = y, x # y
  PROVE  LET q == [p EXCEPT ![x] = y]
             s == [v \in Vertices |-> IF r[v] = x THEN y ELSE r[v]]
         IN  q \in Parents /\ RootedIn(q) /\ IsRoots(s, q)
<1> DEFINE q == [p EXCEPT ![x] = y]
           s == [v \in Vertices |-> IF r[v] = x THEN y ELSE r[v]]
<1>1. \A v \in Vertices :
        /\ p[v] \in Vertices /\ r[v] \in Vertices
        /\ r[v] = IF p[v] = v THEN v ELSE r[p[v]]
        /\ q[v] = IF v = x THEN y ELSE p[v]
  BY DEF Parents, IsRoots
<1>2. q \in Parents /\ s \in [Vertices -> Vertices]
  BY <1>1 DEF Parents
<1>3. \A v \in Vertices : s[v] = IF r[v] = x THEN y ELSE r[v]
  OBVIOUS
<1> HIDE DEF q, s
<1>4. RootedIn(q)
  <2> SUFFICES ASSUME NEW S \in SUBSET Vertices, S # {},
                      \A v \in S : q[v] # v /\ q[v] \in S
               PROVE  FALSE
    BY DEF RootedIn
  <2>1. y \notin S /\ x \notin S
    BY <1>1
  <2>2. PICK v \in S : p[v] = v \/ p[v] \notin S
    BY DEF RootedIn
  <2> QED BY <1>1, <2>1, <2>2
<1>5. ASSUME NEW v \in Vertices
      PROVE  s[v] = IF q[v] = v THEN v ELSE s[q[v]]
  <2>1. q[v] \in Vertices
    BY <1>1
  <2>2. CASE v = x
    BY <1>1, <1>3, <2>2
  <2>3. CASE v # x
    BY <1>1, <1>3, <2>1, <2>3
  <2> QED BY <2>2, <2>3
<1> QED BY <1>2, <1>4, <1>5 DEF IsRoots, q, s

Forest == parent \in Parents /\ Rooted

Roots == [v \in Vertices |-> Root(v)]

\* Above is defined by recursion; there is such a function for all parents.
LEMMA AboveIs ==
  ASSUME parent \in Parents
  PROVE  \A v \in Vertices :
           Above[v] = {v} \cup IF parent[v] = v THEN {} ELSE Above[parent[v]]
<1> DEFINE Closed(S) == \A w \in S : parent[w] \in S
           G == [v \in Vertices |->
                   {u \in Vertices : \A S \in SUBSET Vertices :
                                       v \in S /\ Closed(S) => u \in S}]
<1>1. ASSUME NEW v \in Vertices
      PROVE  G[v] = {v} \cup IF parent[v] = v THEN {} ELSE G[parent[v]]
  <2> DEFINE p == parent[v]
  <2>1. p \in Vertices
    BY DEF Parents
  <2>2. v \in G[v]
    OBVIOUS
  <2>3. G[p] \subseteq G[v]
    BY <2>1
  <2>4. CASE p = v
    <3>1. {v} \in SUBSET Vertices /\ Closed({v})
      BY <2>4
    <3>2. G[v] \subseteq {v}
      BY <3>1
    <3> QED BY <2>2, <2>4, <3>2
  <2>5. CASE p # v
    <3>1. ASSUME NEW u \in G[v], u # v, u \notin G[p]
          PROVE  FALSE
      <4>1. PICK S \in SUBSET Vertices : p \in S /\ Closed(S) /\ u \notin S
        BY <2>1, <3>1
      <4>2. S \cup {v} \in SUBSET Vertices /\ Closed(S \cup {v})
        BY <4>1
      <4>3. u \in S \cup {v}
        BY <3>1, <4>2
      <4> QED BY <3>1, <4>1, <4>3
    <3> HIDE DEF G, p
    <3>2. G[v] \subseteq {v} \cup G[p]
      BY <3>1
    <3> QED BY <2>2, <2>3, <2>5, <3>2 DEF p
  <2> HIDE DEF G
  <2> QED BY <2>4, <2>5
<1> DEFINE Is(g) == g = [v \in Vertices |->
                           {v} \cup IF parent[v] = v THEN {} ELSE g[parent[v]]]
<1>2. Is(G)
  <2>1. G = [v \in Vertices |-> G[v]]
    OBVIOUS
  <2> HIDE DEF G
  <2> QED BY <1>1, <2>1
<1>3. Is(Above)
  <2>1. \E g : Is(g)
    BY <1>2
  <2>2. Is(CHOOSE g : Is(g))
    <3> HIDE DEF Is
    <3> QED BY <2>1
  <2>3. Above = CHOOSE g : Is(g)
    BY DEF Above
  <2> HIDE DEF Is
  <2> QED BY <2>2, <2>3
<1> QED BY <1>3

\* The vertices above one have its root, and no other one.
LEMMA RootFacts ==
  ASSUME Forest, NEW v \in Vertices
  PROVE  /\ Root(v) \in Vertices
         /\ Root(v) = IF parent[v] = v THEN v ELSE Root(parent[v])
<1> DEFINE Good(u) == /\ Above[u] \subseteq Vertices
                      /\ Root(u) \in Above[u]
                      /\ \A w \in Above[u] : parent[w] = w <=> w = Root(u)
                      /\ Root(u) = IF parent[u] = u THEN u ELSE Root(parent[u])
           B == {u \in Vertices : ~Good(u)}
<1>1. parent \in Parents /\ RootedIn(parent)
  BY DEF Forest, Rooted, RootedIn
<1>2. B = {}
  <2> SUFFICES ASSUME B # {} PROVE FALSE
    OBVIOUS
  <2>1. B \in (SUBSET Vertices) \ {{}}
    OBVIOUS
  <2>2. PICK u \in B : parent[u] = u \/ parent[u] \notin B
    <3> HIDE DEF B
    <3> QED BY <1>1, <2>1 DEF RootedIn
  <2> DEFINE p == parent[u]
  <2>3. /\ u \in Vertices /\ p \in Vertices
        /\ Above[u] = {u} \cup IF p = u THEN {} ELSE Above[p]
    BY <1>1, AboveIs DEF Parents
  <2>4. Root(u) = CHOOSE w \in Above[u] : parent[w] = w
    BY DEF Root
  <2>5. CASE p = u
    <3>1. Above[u] = {u} /\ Root(u) = u
      BY <2>3, <2>4, <2>5
    <3>2. Good(u)
      BY <2>3, <2>5, <3>1
    <3> QED BY <3>2
  <2>6. CASE p # u
    <3>1. Good(p)
      BY <2>2, <2>3, <2>6
    <3>2. /\ Above[u] = {u} \cup Above[p]
          /\ \A w \in Above[u] : parent[w] = w <=> w = Root(p)
          /\ Root(p) \in Above[u]
      BY <2>3, <2>6, <3>1
    <3>3. Root(u) = Root(p)
      BY <2>4, <3>2
    <3>4. Good(u)
      BY <2>3, <2>6, <3>1, <3>2, <3>3
    <3> QED BY <3>4
  <2> QED BY <2>5, <2>6
<1>3. Good(v)
  BY <1>2
<1> QED BY <1>3

RootsFollowParents == IsRoots(Roots, parent) /\ RootedIn(parent)

\* Root, which find_set returns, gives each vertex its root.
LEMMA RootsAre == Forest => RootsFollowParents
<1> SUFFICES ASSUME Forest PROVE RootsFollowParents
  OBVIOUS
<1>1. RootedIn(parent)
  BY DEF Forest, Rooted, RootedIn
<1>2. Roots \in [Vertices -> Vertices]
  BY RootFacts DEF Roots
<1>3. \A v \in Vertices : parent[v] \in Vertices
  BY DEF Forest, Parents
<1>4. \A v \in Vertices :
        Roots[v] = IF parent[v] = v THEN v ELSE Roots[parent[v]]
  BY <1>3, RootFacts DEF Roots
<1> QED BY <1>1, <1>2, <1>4 DEF RootsFollowParents, IsRoots

\* The same of the next state.
LEMMA RootsAreNext == Forest' => RootsFollowParents'
  BY RootsAre, PTL

\* UnionFindMatches of any roots r, sizes sz, parents p and edges T.
SameRoots(r, T) ==
  \A u, v \in Vertices : r[u] = r[v] <=> <<u, v>> \in Joins(T)

SizesMatch(sz, r, p) ==
  \A v \in Vertices : p[v] = v => sz[v] = Cardinality({u \in Vertices : r[u] = v})

MatchesParts == SameRoots(Roots, TreeEdges) /\ SizesMatch(size, Roots, parent)

UnionFindParts == UnionFindMatches <=> (stage = "kruskal" => MatchesParts)

\* The property in these terms.
LEMMA UnionFindIs == UnionFindParts
<1>1. \A v \in Vertices : Roots[v] = Root(v)
  BY DEF Roots
<1>2. \A v \in Vertices :
        {u \in Vertices : Roots[u] = v} = {u \in Vertices : Root(u) = v}
  BY <1>1
<1>3. SameRoots(Roots, TreeEdges)
        <=> \A v, u \in Vertices :
              Root(u) = Root(v) <=> <<u, v>> \in Joins(TreeEdges)
  BY <1>1 DEF SameRoots
<1>4. SizesMatch(size, Roots, parent)
        <=> \A v \in Vertices :
              parent[v] = v
                => size[v] = Cardinality({u \in Vertices : Root(u) = v})
  BY <1>2 DEF SizesMatch
<1> QED BY <1>3, <1>4 DEF UnionFindParts, UnionFindMatches, MatchesParts

\* The same of the next state.
LEMMA UnionFindIsNext == UnionFindParts'
  BY UnionFindIs, PTL

\* With no edges each vertex is alone.
LEMMA AloneAtFirst ==
  LET r == [v \in Vertices |-> v] IN
  /\ r \in Parents /\ IsRoots(r, r) /\ RootedIn(r)
  /\ SameRoots(r, {}) /\ SizesMatch([v \in Vertices |-> 1], r, r)
<1> DEFINE r == [v \in Vertices |-> v]
<1>1. r \in Parents /\ IsRoots(r, r)
  BY DEF Parents, IsRoots
<1>2. RootedIn(r)
  <2> SUFFICES ASSUME NEW S \in SUBSET Vertices, S # {}
               PROVE  \E v \in S : r[v] = v
    BY DEF RootedIn
  <2> QED OBVIOUS
<1>3. SameRoots(r, {})
  <2> SUFFICES ASSUME NEW u \in Vertices, NEW v \in Vertices
               PROVE  u = v <=> <<u, v>> \in Joins({})
    BY DEF SameRoots
  <2> DEFINE S == {u}
  <2>1. S \in SUBSET Vertices /\ u \in S
    OBVIOUS
  <2>2. <<u, v>> \in Joins({}) => v \in S
    <3> HIDE DEF S
    <3> QED BY <2>1, JoinsIs
  <2> QED BY <2>2, JoinsIs
<1>4. ASSUME NEW v \in Vertices
      PROVE  Cardinality({u \in Vertices : r[u] = v}) = 1
  <2>1. {u \in Vertices : r[u] = v} = {v}
    OBVIOUS
  <2> QED BY <2>1, FS_Singleton
<1>5. SizesMatch([v \in Vertices |-> 1], r, r)
  <2> HIDE DEF r
  <2> QED BY <1>4 DEF SizesMatch
<1> QED BY <1>1, <1>2, <1>3, <1>5

\* Of the roots when x goes below y.
Moved(r, x, y) == [v \in Vertices |-> IF r[v] = x THEN y ELSE r[v]]

\* The vertices that an edge joins get the same root, and so do all that are
\* joined with them.
LEMMA MovedRoots ==
  ASSUME NEW r \in [Vertices -> Vertices], NEW T, SameRoots(r, T),
         \A g \in T : g[1] \in Vertices /\ g[2] \in Vertices,
         NEW e, e[1] \in Vertices, e[2] \in Vertices,
         NEW x, NEW y, \/ x = r[e[1]] /\ y = r[e[2]]
                       \/ x = r[e[2]] /\ y = r[e[1]]
  PROVE  SameRoots(Moved(r, x, y), T \cup {e})
<1> DEFINE s == Moved(r, x, y)
           R == T \cup {e}
<1>1. \A v \in Vertices : s[v] = IF r[v] = x THEN y ELSE r[v]
  BY DEF Moved
<1> HIDE DEF s
<1>2. \A g \in R : g[1] \in Vertices /\ g[2] \in Vertices
  OBVIOUS
<1>3. <<e[1], e[2]>> \in Joins(R)
  BY EndsJoined
<1>4. Joins(T) \subseteq Joins(R)
  BY JoinsMonotone
<1> HIDE DEF R
<1>5. ASSUME NEW g \in R
      PROVE  s[g[1]] = s[g[2]]
  <2>1. CASE g \in T
    <3> DEFINE a == g[1]
               b == g[2]
    <3>1. a \in Vertices /\ b \in Vertices /\ <<a, b>> \in Joins(T)
      BY <2>1, EndsJoined
    <3> HIDE DEF a, b
    <3>2. s[a] = s[b]
      BY <1>1, <3>1 DEF SameRoots
    <3> QED BY <3>2 DEF a, b
  <2>2. CASE g = e
    BY <1>1, <2>2
  <2> QED BY <2>1, <2>2 DEF R
<1>6. ASSUME NEW u \in Vertices, NEW v \in Vertices, <<u, v>> \in Joins(R)
      PROVE  s[u] = s[v]
  <2> DEFINE S == {w \in Vertices : s[w] = s[v]}
  <2>1. \A g \in R : ~Crosses(g, S)
    BY <1>2, <1>5 DEF Crosses
  <2>2. S \in SUBSET Vertices /\ v \in S
    OBVIOUS
  <2>3. u \in S
    <3> HIDE DEF S
    <3> QED BY <1>6, <2>1, <2>2, JoinsIs
  <2> QED BY <2>3
<1>7. ASSUME NEW u \in Vertices, NEW v \in Vertices, s[u] = s[v]
      PROVE  <<u, v>> \in Joins(R)
  <2> DEFINE a == e[1]
             b == e[2]
  <2>0. a \in Vertices /\ b \in Vertices /\ <<a, b>> \in Joins(R)
        /\ <<b, a>> \in Joins(R)
    BY <1>3, JoinsEquivalence
  <2>1. \/ r[u] = r[v]
        \/ r[u] = r[a] /\ r[v] = r[b]
        \/ r[u] = r[b] /\ r[v] = r[a]
    BY <1>1, <1>7
  <2> HIDE DEF a, b
  <2>2. \A p, q \in Vertices : r[p] = r[q] => <<p, q>> \in Joins(R)
    BY <1>4 DEF SameRoots
  <2>3. ASSUME NEW p \in Vertices, NEW q \in Vertices, <<p, q>> \in Joins(R),
               r[u] = r[p], r[v] = r[q]
        PROVE  <<u, v>> \in Joins(R)
    <3>1. <<u, p>> \in Joins(R) /\ <<q, v>> \in Joins(R)
      BY <2>2, <2>3
    <3>2. <<u, q>> \in Joins(R)
      BY <2>3, <3>1, JoinsEquivalence
    <3> QED BY <3>1, <3>2, JoinsEquivalence
  <2> QED BY <2>0, <2>1, <2>2, <2>3
<1> QED BY <1>6, <1>7 DEF SameRoots, s, R

\* The vertices below y are then those that were below x or y.
LEMMA MovedSizes ==
  ASSUME NEW r \in [Vertices -> Vertices], NEW x, NEW y, x # y
  PROVE  LET s == Moved(r, x, y)
             Below(f, v) == {u \in Vertices : f[u] = v}
         IN  /\ Cardinality(Below(s, y))
                  = Cardinality(Below(r, y)) + Cardinality(Below(r, x))
             /\ \A v \in Vertices \ {x, y} : Below(s, v) = Below(r, v)
             /\ Cardinality(Below(r, y)) \in Nat
             /\ Cardinality(Below(r, x)) \in Nat
<1> DEFINE s == Moved(r, x, y)
           Below(f, v) == {u \in Vertices : f[u] = v}
<1>1. \A v \in Vertices : s[v] = IF r[v] = x THEN y ELSE r[v]
  BY DEF Moved
<1> HIDE DEF s
<1>2. Below(s, y) = Below(r, y) \cup Below(r, x)
  BY <1>1
<1>3. Below(r, y) \cap Below(r, x) = {}
  OBVIOUS
<1>4. \A v \in Vertices \ {x, y} : Below(s, v) = Below(r, v)
  BY <1>1
<1>5. IsFiniteSet(Below(r, y)) /\ IsFiniteSet(Below(r, x))
  BY EdgesFinite, FS_Subset
<1> HIDE DEF Below
<1>6. /\ Cardinality(Below(r, y)) \in Nat /\ Cardinality(Below(r, x)) \in Nat
      /\ Cardinality(Below(r, y) \cup Below(r, x))
           = Cardinality(Below(r, y)) + Cardinality(Below(r, x)) - Cardinality({})
      /\ Cardinality({}) = 0
  BY <1>3, <1>5, FS_Union, FS_CardinalityType, FS_EmptySet
<1>7. Cardinality(Below(s, y))
        = Cardinality(Below(r, y)) + Cardinality(Below(r, x))
  BY <1>2, <1>6
<1> QED BY <1>4, <1>6, <1>7 DEF Below, s

-----------------------------------------------------------------------------
(* The edges of a tree.                                                     *)

\* TreeEdges of any lists and vertices.
EdgesOf(lists, vs) ==
  {e \in vs \X Vertices :
     /\ e[1] < e[2]
     /\ lists[e[1]][e[2]] > 0 /\ adjacency_matrix[e[1]][e[2]] # no_edge}

\* Those of the subgraph.
LEMMA TreeEdgesIs ==
  ASSUME SubgraphTypeOK
  PROVE  TreeEdges = EdgesOf(adjacency_list, members)
<1>1. \A e \in members \X Vertices :
        e[2] \in Neighbors(e[1])
          <=> /\ adjacency_list[e[1]][e[2]] > 0
              /\ adjacency_matrix[e[1]][e[2]] # no_edge
  BY DEF Neighbors
<1> QED BY <1>1 DEF TreeEdges, EdgesOf

\* The same of the next state.
LEMMA TreeEdgesNext ==
  ASSUME UNCHANGED adjacency_matrix
  PROVE  TreeEdges' = EdgesOf(adjacency_list', members')
<1>1. \A e \in members' \X Vertices :
        e[2] \in Neighbors(e[1])'
          <=> /\ adjacency_list'[e[1]][e[2]] > 0
              /\ adjacency_matrix[e[1]][e[2]] # no_edge
  BY DEF Neighbors
<1> QED BY <1>1 DEF TreeEdges, EdgesOf

\* The edges of a tree are edges of the graph between its vertices.
LEMMA EdgesOfTree ==
  ASSUME NEW lists, NEW vs \in SUBSET Vertices, Consistent(lists, vs)
  PROVE  /\ EdgesOf(lists, vs) \subseteq get_edges
         /\ \A e \in EdgesOf(lists, vs) : e[1] \in vs /\ e[2] \in vs
<1>1. EdgesOf(lists, vs) \subseteq get_edges
  BY DEF EdgesOf, get_edges
<1>2. ASSUME NEW e \in EdgesOf(lists, vs)
      PROVE  e[1] \in vs /\ e[2] \in vs
  <2>1. e[1] \in vs /\ e[2] \in Vertices /\ lists[e[1]][e[2]] > 0
    BY DEF EdgesOf
  <2>2. lists[e[2]][e[1]] > 0
    BY <2>1 DEF Consistent
  <2> QED BY <2>1, <2>2 DEF Consistent
<1> QED BY <1>1, <1>2

\* Vertices without edges add none.
LEMMA EdgesOfMore ==
  ASSUME NEW lists, NEW vs \in SUBSET Vertices, NEW more \in SUBSET Vertices,
         vs \subseteq more, Consistent(lists, vs)
  PROVE  EdgesOf(lists, more) = EdgesOf(lists, vs)
<1>1. \A u, v \in Vertices : lists[u][v] > 0 => u \in vs
  BY DEF Consistent
<1> QED BY <1>1 DEF EdgesOf

\* add_edge adds the one edge of the graph between its arguments.
LEMMA EdgeAdded ==
  ASSUME IInv, NEW lists \in Lists, NEW vs \in SUBSET Vertices,
         Consistent(lists, vs), NEW e \in get_edges,
         NEW src \in vs, NEW dst \in vs, {e[1], e[2]} = {src, dst}
  PROVE  EdgesOf(Joined(lists, src, dst), vs) = EdgesOf(lists, vs) \cup {e}
<1> DEFINE joined == Joined(lists, src, dst)
<1>1. /\ joined \in Lists
      /\ \A u, v \in Vertices :
           joined[u][v] =
             IF /\ (u = src /\ v = dst) \/ (u = dst /\ v = src)
                /\ adjacency_matrix[u][v] # no_edge
                /\ lists[u][v] = 0
             THEN IF u = v THEN 2 ELSE 1
             ELSE lists[u][v]
  <2>1. src \in Vertices /\ dst \in Vertices
    OBVIOUS
  <2>2. \A u, v \in Vertices : lists[u][v] = lists[v][u]
    BY DEF Consistent
  <2> QED BY <2>1, <2>2, JoinedStep
<1> HIDE DEF joined
<1>2. /\ e[1] \in Vertices /\ e[2] \in Vertices /\ e = <<e[1], e[2]>>
      /\ e[1] < e[2] /\ adjacency_matrix[e[1]][e[2]] # no_edge
  BY DEF get_edges
<1>3. (src = e[1] /\ dst = e[2]) \/ (src = e[2] /\ dst = e[1])
  BY PairsEqual
<1>4. \A u, v \in Vertices : lists[u][v] \in Nat /\ joined[u][v] \in Nat
  BY <1>1 DEF Lists
<1>5. ASSUME NEW u \in vs, NEW v \in Vertices, u < v,
             adjacency_matrix[u][v] # no_edge
      PROVE  joined[u][v] > 0 <=> lists[u][v] > 0 \/ (u = e[1] /\ v = e[2])
  <2>1. u \in Vertices /\ u # v /\ ~(v < u)
    BY <1>5, GraphAssumption DEF Vertices
  <2>2. (u = src /\ v = dst) \/ (u = dst /\ v = src) <=> u = e[1] /\ v = e[2]
    BY <1>2, <1>3, <1>5, <2>1
  <2> QED BY <1>1, <1>4, <1>5, <2>1, <2>2
<1>6. e[1] \in vs
  BY <1>3
<1>7. ASSUME NEW g \in vs \X Vertices
      PROVE  g \in EdgesOf(joined, vs) <=> g \in EdgesOf(lists, vs) \/ g = e
  <2>1. g = <<g[1], g[2]>> /\ g[1] \in vs /\ g[2] \in Vertices
    OBVIOUS
  <2>2. g = e <=> g[1] = e[1] /\ g[2] = e[2]
    BY <1>2, <2>1
  <2>3. CASE g[1] < g[2] /\ adjacency_matrix[g[1]][g[2]] # no_edge
    BY <1>5, <2>1, <2>2, <2>3 DEF EdgesOf
  <2>4. CASE ~(g[1] < g[2] /\ adjacency_matrix[g[1]][g[2]] # no_edge)
    BY <1>2, <2>2, <2>4 DEF EdgesOf
  <2> QED BY <2>3, <2>4
<1>8. e \in vs \X Vertices
  BY <1>2, <1>6
<1> QED BY <1>7, <1>8 DEF EdgesOf, joined

-----------------------------------------------------------------------------
(* The steps of the algorithms.                                             *)

\* The borders only change with the graph.
LEMMA CutOptimalNext ==
  ASSUME UNCHANGED adjacency_matrix, CutOptimal(TreeEdges')
  PROVE  CutOptimal(TreeEdges)'
BY DEF CutOptimal, LightestAcross, EdgeWeight, get_edges

\* So do the edges.
LEMMA EdgesNext ==
  ASSUME UNCHANGED adjacency_matrix
  PROVE  get_edges' = get_edges
BY DEF get_edges

\* What a step of Kruskal's loop has to establish, for any function r that gives
\* each vertex its next root.
LEMMA KruskalParts ==
  ASSUME stage' = "kruskal", UNCHANGED adjacency_matrix, members' = Vertices,
         parent' \in Parents, RootedIn(parent'), NEW r, IsRoots(r, parent'),
         size' \in [Vertices -> Nat], edges' \subseteq get_edges,
         \A e \in get_edges \ edges' : r[e[1]] = r[e[2]],
         SameRoots(r, TreeEdges'), SizesMatch(size', r, parent'),
         CutOptimal(TreeEdges')
  PROVE  SpanningInv' /\ UnionFindMatches'
<1>1. Forest'
  BY DEF Forest, Rooted, RootedIn
<1>2. IsRoots(Roots', parent')
  <2>1. RootsFollowParents'
    BY <1>1, RootsAreNext
  <2> QED BY <2>1 DEF RootsFollowParents, IsRoots
<1>3. Roots' = r
  <2> DEFINE s == Roots'
  <2>1. IsRoots(s, parent')
    BY <1>2
  <2> HIDE DEF s
  <2>2. s = r
    BY <2>1, RootsUnique
  <2> QED BY <2>2 DEF s
<1>4. MatchesParts'
  <2>1. SameRoots(Roots, TreeEdges)'
    BY <1>3 DEF SameRoots, Joins
  <2>2. SizesMatch(size, Roots, parent)'
    BY <1>3 DEF SizesMatch
  <2> QED BY <2>1, <2>2 DEF MatchesParts
<1>5. UnionFindMatches'
  <2>1. UnionFindParts'
    BY UnionFindIsNext
  <2> QED BY <1>4, <2>1 DEF UnionFindParts
<1>6. UnionFindInv'
  <2>1. get_edges' = get_edges
    BY EdgesNext
  <2>2. \A e \in get_edges : e[1] \in Vertices /\ e[2] \in Vertices
    BY DEF get_edges
  <2>3. \A v \in Vertices : Roots'[v] = Root(v)'
    BY DEF Roots
  <2>4. \A e \in get_edges' \ edges' : Root(e[1])' = Root(e[2])'
    BY <1>3, <2>1, <2>2, <2>3
  <2> QED BY <1>1, <2>1, <2>4 DEF UnionFindInv, Forest, Parents
<1>7. CutOptimal(TreeEdges)'
  BY CutOptimalNext
<1> QED BY <1>5, <1>6, <1>7 DEF SpanningInv

\* The invariant in the terms of the lemmas.
LEMMA KruskalFacts ==
  ASSUME IInv, TreeInv, SpanningInv, UnionFindMatches, stage = "kruskal"
  PROVE  /\ parent \in Parents /\ RootedIn(parent) /\ IsRoots(Roots, parent)
         /\ size \in [Vertices -> Nat] /\ edges \subseteq get_edges
         /\ \A e \in get_edges \ edges : Roots[e[1]] = Roots[e[2]]
         /\ \A v \in Vertices : Roots[v] = Root(v)
         /\ SameRoots(Roots, TreeEdges) /\ SizesMatch(size, Roots, parent)
         /\ CutOptimal(TreeEdges) /\ members = Vertices
<1>1. UnionFindInv /\ CutOptimal(TreeEdges) /\ members = Vertices
  BY DEF SpanningInv
<1>2. Forest
  BY <1>1 DEF UnionFindInv, Forest, Parents
<1>3. \A v \in Vertices : Roots[v] = Root(v)
  BY DEF Roots
<1>4. \A e \in get_edges : e[1] \in Vertices /\ e[2] \in Vertices
  BY DEF get_edges
<1>5. \A e \in get_edges \ edges : Roots[e[1]] = Roots[e[2]]
  BY <1>1, <1>3, <1>4 DEF UnionFindInv
<1>6. RootedIn(parent) /\ IsRoots(Roots, parent)
  BY <1>2, RootsAre DEF RootsFollowParents
<1>7. MatchesParts
  BY UnionFindIs DEF UnionFindParts
<1> QED BY <1>1, <1>2, <1>3, <1>5, <1>6, <1>7
        DEF UnionFindInv, MatchesParts, Forest

\* Of the tree while an algorithm builds it and when it is returned.
LEMMA ConsistentTree ==
  ASSUME TreeInv, stage # "edited"
  PROVE  /\ adjacency_list \in Lists /\ members \in SUBSET Vertices
         /\ ~stale /\ Consistent(adjacency_list, members)
         /\ TreeEdges = EdgesOf(adjacency_list, members)
         /\ TreeEdges \subseteq get_edges
         /\ \A e \in TreeEdges : e[1] \in members /\ e[2] \in members
<1>1. /\ adjacency_list \in Lists /\ members \in SUBSET Vertices /\ SubgraphTypeOK
      /\ ~stale /\ Consistent(adjacency_list, members)
  BY ConsistentIs DEF TreeInv, SubgraphTypeOK, Lists
<1>2. TreeEdges = EdgesOf(adjacency_list, members)
  BY <1>1, TreeEdgesIs
<1> QED BY <1>1, <1>2, EdgesOfTree

\* The first state of Kruskal's loop.
LEMMA StartKruskalSpans ==
  ASSUME IInv, TreeInv, StartKruskal
  PROVE  SpanningInv' /\ UnionFindMatches'
<1>1. /\ stage = "graph" /\ stage' = "kruskal" /\ members' = Vertices
      /\ UNCHANGED <<adjacency_matrix, adjacency_list>>
      /\ edges' = get_edges
      /\ parent' = [v \in Vertices |-> v] /\ size' = [v \in Vertices |-> 1]
  BY DEF StartKruskal, graphVars, vars, Singletons
<1>2. TreeEdges' = {}
  <2>1. \A u, v \in Vertices : adjacency_list[u][v] = 0
    BY <1>1 DEF TreeInv, Empty
  <2>2. TreeEdges' = EdgesOf(adjacency_list, Vertices)
    BY <1>1, TreeEdgesNext
  <2> QED BY <2>1, <2>2 DEF EdgesOf
<1> DEFINE r == [v \in Vertices |-> v]
           ones == [v \in Vertices |-> 1]
<1>3. /\ r \in Parents /\ IsRoots(r, r) /\ RootedIn(r)
      /\ SameRoots(r, {}) /\ SizesMatch(ones, r, r)
  BY AloneAtFirst
<1>4. CutOptimal({})
  BY DEF CutOptimal
<1>5. ones \in [Vertices -> Nat]
  OBVIOUS
<1>6. parent' = r /\ size' = ones
  BY <1>1
<1> HIDE DEF r, ones
<1> QED BY <1>1, <1>2, <1>3, <1>4, <1>5, <1>6, KruskalParts

\* One iteration of it.
LEMMA KruskalLoopSpans ==
  ASSUME IInv, TreeInv, SpanningInv, UnionFindMatches, KruskalLoop
  PROVE  SpanningInv' /\ UnionFindMatches'
<1>1. PICK e \in edges :
        /\ Lightest(e)
        /\ edges' = edges \ {e}
        /\ IF Root(e[1]) = Root(e[2])
           THEN /\ parent' = Compressed(e[1], e[2])
                /\ UNCHANGED <<size, listVars>>
           ELSE /\ add_edge(e[1], e[2])
                /\ Union(Compressed(e[1], e[2]), Root(e[1]), Root(e[2]))
  BY DEF KruskalLoop
<1>2. stage = "kruskal" /\ stage' = "kruskal" /\ UNCHANGED adjacency_matrix
  BY DEF KruskalLoop, graphVars, vars
<1> DEFINE r == Roots
           a == e[1]
           b == e[2]
           c == Compressed(a, b)
<1>3. /\ parent \in Parents /\ RootedIn(parent) /\ IsRoots(r, parent)
      /\ size \in [Vertices -> Nat] /\ edges \subseteq get_edges
      /\ \A g \in get_edges \ edges : r[g[1]] = r[g[2]]
      /\ \A v \in Vertices : r[v] = Root(v)
      /\ SameRoots(r, TreeEdges) /\ SizesMatch(size, r, parent)
      /\ CutOptimal(TreeEdges) /\ members = Vertices
  BY <1>2, KruskalFacts
<1>4. /\ adjacency_list \in Lists /\ Consistent(adjacency_list, members)
      /\ TreeEdges = EdgesOf(adjacency_list, members)
      /\ TreeEdges \subseteq get_edges
  BY <1>2, ConsistentTree
<1>5. TypeOK
  BY DEF IInv
<1>6. e \in get_edges /\ a \in Vertices /\ b \in Vertices
  BY <1>3 DEF get_edges
<1>7. r \in [Vertices -> Vertices] /\ r[a] = Root(a) /\ r[b] = Root(b)
  BY <1>3, <1>6 DEF IsRoots
<1>8. c \in Parents /\ \A v \in Vertices : c[v] \in {parent[v], r[v]}
  <2>1. /\ \A v \in Vertices : Root(v) \in Vertices /\ parent[v] \in Vertices
        /\ \A v \in Vertices : Root(v) = r[v]
    BY <1>3, <1>7 DEF Parents
  <2> HIDE DEF r, a, b
  <2> QED BY <2>1 DEF Compressed, Parents
<1>9. RootedIn(c) /\ IsRoots(r, c)
  <2> HIDE DEF r, c
  <2> QED BY <1>3, <1>8, CompressionKeepsRoots
<1>10. \A v \in Vertices : c[v] = v => r[v] = v /\ parent[v] = v
  <2>1. \A v \in Vertices : c[v] = v => r[v] = v
    BY <1>9 DEF IsRoots
  <2> HIDE DEF r, c
  <2> QED BY <1>3, <2>1, RootsAreRoots
<1> HIDE DEF r, c
<1>11. CASE r[a] = r[b]
  <2>1. /\ parent' = c /\ size' = size /\ members' = members
        /\ adjacency_list' = adjacency_list
    BY <1>1, <1>7, <1>11 DEF listVars, c
  <2>2. TreeEdges' = TreeEdges
    BY <1>2, <1>4, <2>1, TreeEdgesNext
  <2>3. \A g \in get_edges \ edges' : r[g[1]] = r[g[2]]
    BY <1>1, <1>3, <1>11
  <2>4. SizesMatch(size', r, parent')
    BY <1>3, <1>10, <2>1 DEF SizesMatch
  <2>5. edges' \subseteq get_edges
    BY <1>1, <1>3
  <2> QED BY <1>2, <1>3, <1>8, <1>9, <2>1, <2>2, <2>3, <2>4, <2>5, KruskalParts
<1>12. CASE r[a] # r[b]
  <2>1. /\ adjacency_list' = Joined(adjacency_list, a, b) /\ members' = members
        /\ Union(c, r[a], r[b])
    BY <1>1, <1>7, <1>12 DEF add_edge, c
  <2>2. TreeEdges' = TreeEdges \cup {e}
    <3>1. TreeEdges' = EdgesOf(adjacency_list', members)
      BY <1>2, <2>1, TreeEdgesNext
    <3>2. members \in SUBSET Vertices /\ a \in members /\ b \in members
      BY <1>3, <1>6
    <3>3. EdgesOf(Joined(adjacency_list, a, b), members)
            = EdgesOf(adjacency_list, members) \cup {e}
      BY <1>4, <1>6, <3>2, EdgeAdded
    <3> QED BY <1>4, <2>1, <3>1, <3>3
  <2>3. CutOptimal(TreeEdges')
    <3> DEFINE C == {v \in Vertices : r[v] = r[a]}
    <3>1. C \in SUBSET Vertices /\ \A v \in Vertices : v \in C <=> r[v] = r[a]
      OBVIOUS
    <3> HIDE DEF C
    <3>2. Crosses(e, C)
      BY <1>6, <1>12, <3>1 DEF Crosses
    <3>3. \A g \in TreeEdges : ~Crosses(g, C)
      <4> SUFFICES ASSUME NEW g \in TreeEdges PROVE g[1] \in C <=> g[2] \in C
        BY DEF Crosses
      <4>1. g \in get_edges
        BY <1>4
      <4>2. g[1] \in Vertices /\ g[2] \in Vertices
        BY <4>1 DEF get_edges
      <4>3. <<g[1], g[2]>> \in Joins(TreeEdges)
        BY <4>2, EndsJoined
      <4>4. r[g[1]] = r[g[2]]
        BY <1>3, <4>2, <4>3 DEF SameRoots
      <4> QED BY <3>1, <4>2, <4>4
    <3>4. LightestAcross(e, C)
      <4> SUFFICES ASSUME NEW g \in get_edges, Crosses(g, C)
                   PROVE  EdgeWeight(e) <= EdgeWeight(g)
        BY DEF LightestAcross
      <4>1. r[g[1]] # r[g[2]]
        BY <3>1 DEF Crosses, get_edges
      <4>2. g \in edges
        BY <1>3, <4>1
      <4> QED BY <1>1, <4>2 DEF Lightest
    <3> QED BY <1>3, <1>4, <1>5, <1>6, <2>2, <3>1, <3>2, <3>3, <3>4, CutExtended
  <2>4. ASSUME NEW x, NEW y, \/ x = r[a] /\ y = r[b]
                             \/ x = r[b] /\ y = r[a],
               parent' = [c EXCEPT ![x] = y],
               size' = [size EXCEPT ![y] = @ + size[x]]
        PROVE  SpanningInv' /\ UnionFindMatches'
    <3> DEFINE s == Moved(r, x, y)
               Below(f, v) == {u \in Vertices : f[u] = v}
    <3>1. x \in Vertices /\ y \in Vertices /\ x # y
      BY <1>6, <1>7, <1>12, <2>4
    <3>2. c[x] = x /\ c[y] = y /\ r[x] = x /\ r[y] = y
      BY <1>6, <1>8, <1>9, <2>4, RootsAreRoots
    <3>3. parent' \in Parents /\ RootedIn(parent') /\ IsRoots(s, parent')
      BY <1>8, <1>9, <2>4, <3>1, <3>2, AttachedRoots DEF Moved
    <3>4. SameRoots(s, TreeEdges')
      <4>1. \A g \in TreeEdges : g[1] \in Vertices /\ g[2] \in Vertices
        BY <1>4 DEF get_edges
      <4> HIDE DEF s
      <4> QED BY <1>3, <1>6, <1>7, <2>2, <2>4, <4>1, MovedRoots DEF s
    <3>5. \A v \in Vertices : s[v] = IF r[v] = x THEN y ELSE r[v]
      BY DEF Moved
    <3>6. \A g \in get_edges \ edges' : s[g[1]] = s[g[2]]
      <4> SUFFICES ASSUME NEW g \in get_edges \ edges' PROVE s[g[1]] = s[g[2]]
        OBVIOUS
      <4>1. g = e \/ g \in get_edges \ edges
        BY <1>1
      <4>2. g[1] \in Vertices /\ g[2] \in Vertices
        BY DEF get_edges
      <4> HIDE DEF s
      <4>3. CASE g = e
        BY <1>6, <2>4, <3>5, <4>3
      <4>4. CASE g \in get_edges \ edges
        BY <1>3, <3>5, <4>2, <4>4
      <4> QED BY <4>1, <4>3, <4>4
    <3>7. /\ size' \in [Vertices -> Nat]
          /\ \A v \in Vertices :
               size'[v] = IF v = y THEN size[y] + size[x] ELSE size[v]
      BY <1>3, <2>4, <3>1
    <3>8. SizesMatch(size', s, parent')
      <4> SUFFICES ASSUME NEW v \in Vertices, parent'[v] = v
                   PROVE  size'[v] = Cardinality(Below(s, v))
        BY DEF SizesMatch
      <4>1. v # x /\ c[v] = v
        BY <1>8, <2>4, <3>1 DEF Parents
      <4>2. \A u \in {v, x, y} : size[u] = Cardinality(Below(r, u))
        <5>1. \A u \in {v, x, y} : u \in Vertices /\ parent[u] = u
          BY <1>10, <3>1, <3>2, <4>1
        <5> QED BY <1>3, <5>1 DEF SizesMatch
      <4>3. /\ Cardinality(Below(s, y))
                 = Cardinality(Below(r, y)) + Cardinality(Below(r, x))
            /\ \A u \in Vertices \ {x, y} : Below(s, u) = Below(r, u)
        BY <1>7, <3>1, MovedSizes
      <4> HIDE DEF s, Below
      <4> QED BY <3>7, <4>1, <4>2, <4>3
    <3>9. edges' \subseteq get_edges
      BY <1>1, <1>3
    <3> HIDE DEF s
    <3> QED BY <1>2, <1>3, <2>1, <2>3, <3>3, <3>4, <3>6, <3>7, <3>8, <3>9,
               KruskalParts
  <2> QED BY <2>1, <2>4 DEF Union
<1> QED BY <1>11, <1>12

\* When no edge is left, all edges of the graph join vertices that the tree joins.
LEMMA KruskalReturnsSpans ==
  ASSUME IInv, TreeInv, SpanningInv, UnionFindMatches, KruskalReturns
  PROVE  SpanningInv' /\ UnionFindMatches'
<1>1. /\ stage = "kruskal" /\ edges = {} /\ stage' = "tree"
      /\ UNCHANGED <<adjacency_matrix, members, adjacency_list>>
  BY DEF KruskalReturns, graphVars, vars, listVars
<1>2. /\ \A e \in get_edges : Roots[e[1]] = Roots[e[2]]
      /\ SameRoots(Roots, TreeEdges)
      /\ CutOptimal(TreeEdges) /\ members = Vertices
  <2> DEFINE r == Roots
  <2>1. /\ \A g \in get_edges \ edges : r[g[1]] = r[g[2]]
        /\ SameRoots(r, TreeEdges)
        /\ CutOptimal(TreeEdges) /\ members = Vertices
    BY <1>1, KruskalFacts
  <2> QED BY <1>1, <2>1
<1>3. /\ TreeEdges = EdgesOf(adjacency_list, members)
      /\ TreeEdges \subseteq get_edges
  BY <1>1, ConsistentTree
<1>4. TreeEdges' = TreeEdges /\ get_edges' = get_edges
  BY <1>1, <1>3, TreeEdgesNext, EdgesNext
<1>5. Joins(TreeEdges) = Joins(get_edges)
  <2>1. \A e \in get_edges : <<e[1], e[2]>> \in Joins(TreeEdges)
    <3>1. \A e \in get_edges : e[1] \in Vertices /\ e[2] \in Vertices
      BY DEF get_edges
    <3> QED BY <1>2, <3>1 DEF SameRoots
  <2> QED BY <1>3, <2>1, JoinsMore, JoinsMonotone
<1>6. CutOptimal(TreeEdges)'
  BY <1>1, <1>2, <1>4, CutOptimalNext
<1>7. (Joins(TreeEdges) = Joins(get_edges))'
  BY <1>4, <1>5 DEF Joins
<1> QED BY <1>1, <1>2, <1>6, <1>7 DEF SpanningInv, UnionFindMatches

\* The first vertex of Prim's tree has no edges.
LEMMA StartPrimSpans ==
  ASSUME IInv, TreeInv, StartPrim
  PROVE  SpanningInv'
<1>1. PICK v \in Vertices : add_vertex(v)
  BY DEF StartPrim
<1>2. /\ stage = "graph" /\ stage' = "prim" /\ UNCHANGED adjacency_matrix
      /\ members = {}
      /\ \A u, w \in Vertices : adjacency_list[u][w] = 0
  BY DEF StartPrim, graphVars, vars, TreeInv, Empty
<1>3. members' = {v} /\ \A u, w \in Vertices : adjacency_list'[u][w] = 0
  <2>1. adjacency_list \in Lists
    BY DEF TreeInv, SubgraphTypeOK, Lists
  <2> QED BY <1>1, <1>2, <2>1 DEF add_vertex, Empty, Lists
<1>4. TreeEdges' = {}
  <2>1. TreeEdges' = EdgesOf(adjacency_list', {v})
    BY <1>2, <1>3, TreeEdgesNext
  <2> QED BY <1>3, <2>1 DEF EdgesOf
<1>5. CutOptimal(TreeEdges)'
  <2>1. CutOptimal({})
    BY DEF CutOptimal
  <2> QED BY <1>2, <1>4, <2>1, CutOptimalNext
<1>6. (members \X members \subseteq Joins(TreeEdges))'
  <2>1. <<v, v>> \in Joins({})
    BY JoinsEquivalence
  <2>2. Joins(TreeEdges)' = Joins({})
    BY <1>4 DEF Joins
  <2> QED BY <1>3, <2>1, <2>2
<1> QED BY <1>2, <1>3, <1>5, <1>6 DEF SpanningInv

\* The next one gets a lightest edge across the border of the tree.
LEMMA PrimLoopSpans ==
  ASSUME IInv, TreeInv, SpanningInv, PrimLoop
  PROVE  SpanningInv'
<1>1. PICK v \in DOMAIN costs :
        /\ IsMin(v, costs)
        /\ costs[v].parent \in members
        /\ members' = members \cup {v}
        /\ adjacency_list' = Joined([adjacency_list EXCEPT ![v] = Empty],
                                    v, costs[v].parent)
  BY DEF PrimLoop, has_vertex
<1> DEFINE u == costs[v].parent
<1>2. stage = "prim" /\ stage' = "prim" /\ UNCHANGED adjacency_matrix
  BY DEF PrimLoop, graphVars, vars
<1>3. /\ adjacency_list \in Lists /\ members \in SUBSET Vertices
      /\ Consistent(adjacency_list, members)
      /\ TreeEdges = EdgesOf(adjacency_list, members)
      /\ TreeEdges \subseteq get_edges
      /\ \A e \in TreeEdges : e[1] \in members /\ e[2] \in members
  BY <1>2, ConsistentTree
<1>4. CutCosts(costs, members)
  BY <1>2, CostsOfCutIs DEF TreeInv
<1>5. /\ CutOptimal(TreeEdges) /\ members \X members \subseteq Joins(TreeEdges)
      /\ members # {}
  BY <1>2 DEF SpanningInv
<1>6. TypeOK
  BY DEF IInv
<1>7. v \in Vertices /\ v \notin members /\ DOMAIN costs = Vertices \ members
  BY <1>4 DEF CutCosts
<1>8. /\ u \in members /\ u \in Vertices /\ u \in get_neighbors(v)
      /\ costs[v].cost = adjacency_matrix[v][u]
  <2>1. members \cap get_neighbors(v) # {}
    <3>1. NoVertex \notin members
      <4>1. Vertices \subseteq Nat
        BY GraphAssumption DEF Vertices
      <4> QED BY <1>3, <4>1, PrimAssumption
    <3> QED BY <1>1, <1>4, <3>1 DEF CutCosts, Unreached
  <2> QED BY <1>1, <1>3, <1>4, <2>1 DEF CutCosts
<1>9. PICK e \in get_edges : {e[1], e[2]} = {v, u}
  <2>1. /\ u # v /\ adjacency_matrix[v][u] # no_edge
        /\ adjacency_matrix[u][v] # no_edge
    BY <1>7, <1>8 DEF get_neighbors, IInv, Symmetric
  <2>2. u < v \/ v < u
    BY <1>7, <1>8, <2>1, GraphAssumption DEF Vertices
  <2>3. <<u, v>> \in get_edges \/ <<v, u>> \in get_edges
    BY <1>7, <1>8, <2>1, <2>2 DEF get_edges
  <2>4. CASE <<u, v>> \in get_edges
    <3> DEFINE e == <<u, v>>
    <3>1. {e[1], e[2]} = {v, u}
      OBVIOUS
    <3> QED BY <2>4, <3>1
  <2>5. CASE <<v, u>> \in get_edges
    <3> DEFINE e == <<v, u>>
    <3>1. {e[1], e[2]} = {v, u}
      OBVIOUS
    <3> QED BY <2>5, <3>1
  <2> QED BY <2>3, <2>4, <2>5
<1> HIDE DEF u
<1>10. /\ e[1] \in Vertices /\ e[2] \in Vertices
       /\ (e[1] = v /\ e[2] = u) \/ (e[1] = u /\ e[2] = v)
  BY <1>9, PairsEqual DEF get_edges
<1>11. TreeEdges' = TreeEdges \cup {e}
  <2>1. [adjacency_list EXCEPT ![v] = Empty] = adjacency_list
    BY <1>3, <1>7, NotListed
  <2>2. members' \in SUBSET Vertices /\ v \in members' /\ u \in members'
    BY <1>1, <1>3, <1>7, <1>8
  <2>3. Consistent(adjacency_list, members')
    BY <1>1, <1>3, MoreVertices
  <2>4. adjacency_list' = Joined(adjacency_list, v, u)
    BY <1>1, <2>1 DEF u
  <2>5. EdgesOf(adjacency_list', members')
          = EdgesOf(adjacency_list, members') \cup {e}
    BY <1>3, <1>9, <2>2, <2>3, <2>4, EdgeAdded
  <2>6. EdgesOf(adjacency_list, members') = EdgesOf(adjacency_list, members)
    BY <1>1, <1>3, <2>2, EdgesOfMore
  <2> QED BY <1>2, <1>3, <2>5, <2>6, TreeEdgesNext
<1>12. CutOptimal(TreeEdges')
  <2>1. \A g \in TreeEdges : ~Crosses(g, members)
    BY <1>3 DEF Crosses
  <2>2. Crosses(e, members)
    BY <1>7, <1>8, <1>10 DEF Crosses
  <2>3. EdgeWeight(e) = costs[v].cost
    <3>1. adjacency_matrix[u][v] = adjacency_matrix[v][u]
      BY <1>7, <1>8 DEF IInv, Symmetric
    <3> QED BY <1>8, <1>10, <3>1 DEF EdgeWeight
  <2>4. LightestAcross(e, members)
    <3> SUFFICES ASSUME NEW g \in get_edges, Crosses(g, members)
                 PROVE  EdgeWeight(e) <= EdgeWeight(g)
      BY DEF LightestAcross
    <3>1. PICK p \in Vertices, q \in members :
            /\ p \notin members
            /\ p \in get_neighbors(q) /\ q \in get_neighbors(p)
            /\ EdgeWeight(g) = adjacency_matrix[p][q]
      <4>1. /\ g[1] \in Vertices /\ g[2] \in Vertices /\ g[1] # g[2]
            /\ adjacency_matrix[g[1]][g[2]] # no_edge
            /\ adjacency_matrix[g[2]][g[1]] = adjacency_matrix[g[1]][g[2]]
        BY GraphAssumption DEF get_edges, IInv, Symmetric, Vertices
      <4>2. g[2] \in get_neighbors(g[1]) /\ g[1] \in get_neighbors(g[2])
        BY <4>1 DEF get_neighbors
      <4>3. \/ g[1] \in members /\ g[2] \notin members
            \/ g[2] \in members /\ g[1] \notin members
        BY DEF Crosses
      <4>4. CASE g[1] \in members /\ g[2] \notin members
        BY <4>1, <4>2, <4>4 DEF EdgeWeight
      <4>5. CASE g[2] \in members /\ g[1] \notin members
        BY <4>1, <4>2, <4>5 DEF EdgeWeight
      <4> QED BY <4>3, <4>4, <4>5
    <3>2. /\ costs[p].cost <= adjacency_matrix[p][q]
          /\ costs[p].parent \in members \cap get_neighbors(p)
          /\ costs[p].cost = adjacency_matrix[p][costs[p].parent]
      BY <1>4, <1>7, <3>1 DEF CutCosts
    <3>3. costs[v].cost <= costs[p].cost
      <4>1. costs[v].cost < costs[p].cost \/ costs[v].cost = costs[p].cost
        BY <1>1, <1>7, <3>1 DEF IsMin
      <4>2. costs[v].cost \in Int /\ costs[p].cost \in Int
        <5>1. costs[v].cost \in Int
          BY <1>7, <1>8, NeighborFacts
        <5>2. costs[p].parent \in Vertices
          BY <1>3, <3>2
        <5> QED BY <3>1, <3>2, <5>1, <5>2, NeighborFacts
      <4> QED BY <4>1, <4>2
    <3>4. /\ costs[v].cost \in Int /\ costs[p].cost \in Int
          /\ adjacency_matrix[p][q] \in Int
      <4>1. costs[v].cost \in Int
        BY <1>7, <1>8, NeighborFacts
      <4>2. costs[p].parent \in Vertices /\ q \in Vertices
        BY <1>3, <3>2
      <4> QED BY <3>1, <3>2, <4>1, <4>2, NeighborFacts
    <3> QED BY <2>3, <3>1, <3>2, <3>3, <3>4
  <2> QED BY <1>3, <1>5, <1>6, <1>11, <2>1, <2>2, <2>4, CutExtended
<1>13. members' \X members' \subseteq Joins(TreeEdges')
  <2> DEFINE T == TreeEdges'
  <2>1. e \in T /\ Joins(TreeEdges) \subseteq Joins(T)
    BY <1>11, JoinsMonotone
  <2> HIDE DEF T
  <2>2. <<v, u>> \in Joins(T) /\ <<u, v>> \in Joins(T)
    <3>1. <<e[1], e[2]>> \in Joins(T)
      BY <1>10, <2>1, EndsJoined
    <3> QED BY <1>10, <3>1, JoinsEquivalence
  <2>3. \A w \in members : <<w, u>> \in Joins(T) /\ <<u, w>> \in Joins(T)
    BY <1>5, <1>8, <2>1
  <2>4. <<u, u>> \in Joins(T)
    BY <1>8, <2>3
  <2>5. \A w \in members' : <<w, u>> \in Joins(T) /\ <<u, w>> \in Joins(T)
    BY <1>1, <2>2, <2>3
  <2>6. \A w, x \in members' : <<w, x>> \in Joins(T)
    BY <2>5, JoinsEquivalence
  <2> QED BY <2>6 DEF T
<1>14. CutOptimal(TreeEdges)'
  BY <1>2, <1>12, CutOptimalNext
<1>15. (members \X members \subseteq Joins(TreeEdges))'
  BY <1>13 DEF Joins
<1> QED BY <1>1, <1>2, <1>14, <1>15 DEF SpanningInv

\* When no vertex is left, the tree joins all.
LEMMA PrimReturnsSpans ==
  ASSUME IInv, TreeInv, SpanningInv, PrimReturns
  PROVE  SpanningInv'
<1>1. /\ stage = "prim" /\ stage' = "tree" /\ DOMAIN costs = {}
      /\ UNCHANGED <<adjacency_matrix, members, adjacency_list>>
  BY DEF PrimReturns, graphVars, vars, listVars
<1>2. /\ TreeEdges = EdgesOf(adjacency_list, members)
      /\ TreeEdges \subseteq get_edges /\ members \in SUBSET Vertices
  BY <1>1, ConsistentTree
<1>3. members = Vertices
  <2>1. CutCosts(costs, members)
    BY <1>1, CostsOfCutIs DEF TreeInv
  <2> QED BY <1>1, <1>2, <2>1 DEF CutCosts
<1>4. CutOptimal(TreeEdges) /\ Vertices \X Vertices \subseteq Joins(TreeEdges)
  BY <1>1, <1>3 DEF SpanningInv
<1>5. TreeEdges' = TreeEdges /\ get_edges' = get_edges
  BY <1>1, <1>2, TreeEdgesNext, EdgesNext
<1>6. Joins(TreeEdges) = Joins(get_edges)
  <2>1. Joins(TreeEdges) \subseteq Joins(get_edges)
    BY <1>2, JoinsMonotone
  <2>2. Joins(get_edges) \subseteq Vertices \X Vertices
    BY DEF Joins
  <2> QED BY <1>4, <2>1, <2>2
<1>7. CutOptimal(TreeEdges)'
  BY <1>1, <1>4, <1>5, CutOptimalNext
<1>8. (Joins(TreeEdges) = Joins(get_edges))'
  BY <1>5, <1>6 DEF Joins
<1> QED BY <1>1, <1>3, <1>7, <1>8 DEF SpanningInv

\* An exception leaves what there was.
LEMMA PrimThrowsSpans ==
  ASSUME SpanningInv, PrimThrows
  PROVE  SpanningInv'
BY DEF PrimThrows, listVars, SpanningInv

\* Nothing else moves.
LEMMA SpanningStutters ==
  ASSUME IInv, TreeInv, SpanningInv, UnionFindMatches, UNCHANGED mstVars
  PROVE  SpanningInv' /\ UnionFindMatches'
<1>1. /\ UNCHANGED <<adjacency_matrix, stage, members, adjacency_list>>
      /\ UNCHANGED <<parent, size, edges>>
  BY DEF mstVars, graphVars, vars, listVars, kruskalVars
<1>2. TreeEdges' = TreeEdges /\ get_edges' = get_edges
  BY <1>1 DEF TreeEdges, Neighbors, get_edges
<1>3. CASE stage = "kruskal"
  <2> DEFINE r == Roots
  <2>1. /\ parent \in Parents /\ RootedIn(parent) /\ IsRoots(r, parent)
        /\ size \in [Vertices -> Nat] /\ edges \subseteq get_edges
        /\ \A e \in get_edges \ edges : r[e[1]] = r[e[2]]
        /\ SameRoots(r, TreeEdges) /\ SizesMatch(size, r, parent)
        /\ CutOptimal(TreeEdges) /\ members = Vertices
    BY <1>3, KruskalFacts
  <2> HIDE DEF r
  <2> QED BY <1>1, <1>2, <1>3, <2>1, KruskalParts
<1>4. CASE stage # "kruskal"
  <2>1. UnionFindMatches'
    BY <1>1, <1>4 DEF UnionFindMatches
  <2>2. CutOptimal(TreeEdges) => CutOptimal(TreeEdges)'
    BY <1>1, <1>2, CutOptimalNext
  <2>3. /\ Joins(TreeEdges)' = Joins(TreeEdges)
        /\ Joins(get_edges)' = Joins(get_edges)
    BY <1>2 DEF Joins
  <2> QED BY <1>1, <1>4, <2>1, <2>2, <2>3 DEF SpanningInv
<1> QED BY <1>3, <1>4

\* Every step keeps the invariant.
LEMMA SpanningStep ==
  ASSUME IInv, TreeInv, SpanningInv, UnionFindMatches, [MstNext]_mstVars
  PROVE  SpanningInv' /\ UnionFindMatches'
<1>1. ASSUME stage' \in {"graph", "edited"}
      PROVE  SpanningInv' /\ UnionFindMatches'
  BY <1>1 DEF SpanningInv, UnionFindMatches
<1>2. CASE GraphStep \/ Edit
  <2>1. stage' \in {"graph", "edited"}
    BY <1>2 DEF GraphStep, Edit
  <2> QED BY <1>1, <2>1
<1>3. CASE KruskalStep
  BY <1>3, StartKruskalSpans, KruskalLoopSpans, KruskalReturnsSpans
  DEF KruskalStep
<1>4. CASE PrimStep
  <2>1. SpanningInv'
    BY <1>4, StartPrimSpans, PrimLoopSpans, PrimThrowsSpans, PrimReturnsSpans
    DEF PrimStep
  <2>2. stage' # "kruskal"
    BY <1>4 DEF PrimStep, StartPrim, PrimLoop, PrimThrows, PrimReturns
  <2> QED BY <2>1, <2>2 DEF UnionFindMatches
<1>5. CASE UNCHANGED mstVars
  BY <1>5, SpanningStutters
<1> QED BY <1>2, <1>3, <1>4, <1>5 DEF MstNext

\* Neither algorithm joins a vertex to itself.
LEMMA LoopsStep ==
  ASSUME IInv, TreeInv, SpanningInv, NoLoops, [MstNext]_mstVars
  PROVE  NoLoops'
<1>1. SUFFICES ASSUME stage' \in {"kruskal", "prim", "tree"}
               PROVE  \A w \in Vertices : adjacency_list'[w][w] = 0
  BY DEF NoLoops
<1>2. ~(GraphStep \/ Edit \/ PrimThrows)
  BY <1>1 DEF GraphStep, Edit, PrimThrows
<1>3. CASE stage = "graph"
  <2>1. adjacency_list = [v \in Vertices |-> Empty]
    BY <1>3 DEF TreeInv
  <2>2. StartKruskal \/ StartPrim
    BY <1>1, <1>2, <1>3 DEF MstNext, KruskalStep, PrimStep, KruskalLoop,
       KruskalReturns, PrimLoop, PrimReturns, mstVars
  <2>3. \/ adjacency_list' = adjacency_list
        \/ \E v \in Vertices : adjacency_list' = [adjacency_list EXCEPT ![v] = Empty]
    BY <2>2 DEF StartKruskal, StartPrim, add_vertex
  <2> QED BY <2>1, <2>3 DEF Empty
<1>4. ASSUME stage \in {"kruskal", "prim"},
             NEW lists, lists = adjacency_list, NEW a \in Vertices, NEW b \in Vertices,
             a # b, adjacency_list' = Joined(lists, a, b)
      PROVE  \A w \in Vertices : adjacency_list'[w][w] = 0
  <2>1. lists \in Lists /\ Consistent(lists, members)
    BY <1>4, ConsistentTree
  <2>2. \A u, v \in Vertices : lists[u][v] = lists[v][u]
    BY <2>1 DEF Consistent
  <2>3. \A w \in Vertices : adjacency_list'[w][w] = lists[w][w]
    BY <1>4, <2>1, <2>2, JoinedStep
  <2> QED BY <1>4, <2>3 DEF NoLoops
<1>5. CASE KruskalLoop
  <2>1. stage = "kruskal"
    BY <1>5 DEF KruskalLoop
  <2>2. PICK e \in edges : UNCHANGED listVars \/ add_edge(e[1], e[2])
    BY <1>5 DEF KruskalLoop
  <2>3. e[1] \in Vertices /\ e[2] \in Vertices /\ e[1] # e[2]
    <3>1. e \in get_edges
      BY <2>1 DEF SpanningInv, UnionFindInv
    <3> QED BY <3>1, GraphAssumption DEF get_edges, Vertices
  <2>4. CASE UNCHANGED listVars
    BY <2>1, <2>4 DEF listVars, NoLoops
  <2> QED BY <1>4, <2>1, <2>2, <2>3, <2>4 DEF add_edge
<1>6. CASE PrimLoop
  <2>1. stage = "prim"
    BY <1>6 DEF PrimLoop
  <2>2. PICK v \in DOMAIN costs :
          /\ costs[v].parent \in members
          /\ adjacency_list' = Joined([adjacency_list EXCEPT ![v] = Empty],
                                      v, costs[v].parent)
    BY <1>6 DEF PrimLoop, has_vertex
  <2>3. /\ adjacency_list \in Lists /\ members \in SUBSET Vertices
        /\ Consistent(adjacency_list, members)
    BY <2>1, ConsistentTree
  <2>4. v \in Vertices /\ v \notin members
    BY <2>1, CostsOfCutIs DEF TreeInv, CutCosts
  <2>5. [adjacency_list EXCEPT ![v] = Empty] = adjacency_list
    BY <2>3, <2>4, NotListed
  <2> QED BY <1>4, <2>1, <2>2, <2>3, <2>4, <2>5
<1>7. CASE \/ KruskalReturns \/ PrimReturns
           \/ UNCHANGED mstVars /\ stage # "graph"
  <2>1. adjacency_list' = adjacency_list /\ stage \in {"kruskal", "prim", "tree"}
    BY <1>1, <1>7 DEF KruskalReturns, PrimReturns, mstVars, listVars
  <2> QED BY <2>1 DEF NoLoops
<1> QED BY <1>2, <1>3, <1>5, <1>6, <1>7
        DEF MstNext, KruskalStep, PrimStep, StartKruskal, StartPrim

\* None is inductive without the others.
LEMMA TogetherInvariant == MstSpec => [](MstInv /\ UnionFindMatches)
<1>1. MstInit => SpanningInv /\ NoLoops /\ UnionFindMatches
  BY DEF MstInit, SubgraphInit, SpanningInv, NoLoops, UnionFindMatches
<1>2. IInv /\ TreeInv /\ SpanningInv /\ NoLoops /\ UnionFindMatches
        /\ [MstNext]_mstVars
        => (SpanningInv /\ NoLoops /\ UnionFindMatches)'
  BY SpanningStep, LoopsStep
<1>3. MstSpec => [](SpanningInv /\ NoLoops /\ UnionFindMatches)
  BY <1>1, <1>2, GraphInvHolds, TreeInvHolds, PTL DEF MstSpec
<1> QED BY <1>3, GraphInvHolds, TreeInvHolds, PTL DEF MstInv

-----------------------------------------------------------------------------
(* What the algorithms achieve.                                             *)

\* The inductive invariant: at every step each edge of the tree that Kruskal or
\* Prim builds is a lightest one across a border of its own, the parents of the
\* union-find lead to roots, and the edges that the loop has passed join vertices
\* that have the same root.
THEOREM InvariantHolds == MstSpec => []MstInv
  BY TogetherInvariant, PTL

\* However the paths have been compressed and whichever root went below the other,
\* find_set gives two vertices the same root exactly if edges of the tree join
\* them, and the size of a root counts the vertices below it.
THEOREM UnionFindHolds == MstSpec => []UnionFindMatches
  BY TogetherInvariant, PTL

\* Kruskal and Prim return a minimum spanning tree of every graph that has one,
\* on every order of the edges of the same weight; of another graph Kruskal
\* returns a minimum spanning forest, and Prim throws on no connected graph.
THEOREM MstReturned == MstSpec => []ReturnsMst
<1>1. MstInv => ReturnsMst
  <2> SUFFICES ASSUME IInv, TreeInv, SpanningInv PROVE ReturnsMst
    BY DEF MstInv
  <2>1. CASE stage = "tree"
    <3>1. TreeEdges \subseteq get_edges
      BY <2>1, ConsistentTree
    <3>2. /\ CutOptimal(TreeEdges) /\ Joins(TreeEdges) = Joins(get_edges)
          /\ members = Vertices
      BY <2>1 DEF SpanningInv
    <3>3. TypeOK
      BY DEF IInv
    <3>4. MinimumSpanning(TreeEdges, get_edges)
      BY <3>1, <3>2, <3>3, CutOptimalIsMinimum
    <3> QED BY <2>1, <3>2, <3>4 DEF ReturnsMst
  <2>2. CASE stage = "threw"
    <3>1. /\ members # {} /\ members # Vertices /\ members \subseteq Vertices
          /\ \A v \in members : get_neighbors(v) \subseteq members
      BY <2>2 DEF SpanningInv, TreeInv, ThrowsOnCut, SubgraphTypeOK
    <3>2. PICK v \in members, u \in Vertices : u \notin members
      BY <3>1
    <3>3. \A e \in get_edges : ~Crosses(e, members)
      <4> SUFFICES ASSUME NEW e \in get_edges
                   PROVE  e[1] \in members <=> e[2] \in members
        BY DEF Crosses
      <4>1. /\ e[1] \in Vertices /\ e[2] \in Vertices /\ e[1] # e[2]
            /\ adjacency_matrix[e[1]][e[2]] # no_edge
            /\ adjacency_matrix[e[2]][e[1]] = adjacency_matrix[e[1]][e[2]]
        BY GraphAssumption DEF get_edges, IInv, Symmetric, Vertices
      <4>2. e[2] \in get_neighbors(e[1]) /\ e[1] \in get_neighbors(e[2])
        BY <4>1 DEF get_neighbors
      <4> QED BY <3>1, <4>2
    <3>4. <<v, u>> \notin Joins(get_edges)
      BY <3>1, <3>2, <3>3, JoinsIs
    <3>5. <<v, u>> \in Vertices \X Vertices
      BY <3>1, <3>2
    <3> QED BY <2>2, <3>4, <3>5 DEF ReturnsMst, AllJoined
  <2> QED BY <2>1, <2>2 DEF ReturnsMst
<1> QED BY <1>1, InvariantHolds, PTL

-----------------------------------------------------------------------------
(* Traversals.                                                              *)

\* A set of vertices that a traversal might return, with visited and left as it
\* starts, and the smallest one.
Covers(X, visited, left) ==
  /\ visited \cup left \subseteq X
  /\ \A v \in X \ visited : get_neighbors(v) \subseteq X

Found(visited, left) ==
  {w \in Vertices : \A X \in SUBSET Vertices : Covers(X, visited, left) => w \in X}

\* The first vertex of a set, in the order of the matrix.
LEMMA MinVertex ==
  ASSUME NEW S \in SUBSET Vertices, S # {}
  PROVE  Min(S) \in S
<1>1. S \subseteq Nat
  BY GraphAssumption DEF Vertices
<1> QED BY <1>1, MinOfNats

\* Only vertices are neighbours.
LEMMA NeighborsVertices == \A v : get_neighbors(v) \subseteq Vertices
BY DEF get_neighbors

\* The smallest such set is one of them.
LEMMA FoundCovers ==
  ASSUME NEW visited \in SUBSET Vertices, NEW left \in SUBSET Vertices
  PROVE  /\ Found(visited, left) \in SUBSET Vertices
         /\ Covers(Found(visited, left), visited, left)
<1>1. \A w \in visited \cup left : w \in Found(visited, left)
  BY DEF Found, Covers
<1>2. ASSUME NEW v \in Found(visited, left) \ visited, NEW w \in get_neighbors(v)
      PROVE  w \in Found(visited, left)
  <2>1. w \in Vertices
    BY <1>2, NeighborsVertices
  <2>2. ASSUME NEW X \in SUBSET Vertices, Covers(X, visited, left)
        PROVE  w \in X
    <3>1. v \in X \ visited
      BY <2>2 DEF Found
    <3> QED BY <1>2, <2>2, <3>1 DEF Covers
  <2> QED BY <2>1, <2>2 DEF Found
<1> QED BY <1>1, <1>2 DEF Covers, Found

\* After the visit of u, if it is needed.
AfterVisit(visited, u) ==
  IF u \in visited THEN visited ELSE Found(visited \cup {u}, get_neighbors(u))

\* The smallest one satisfies the equation of DFS.
LEMMA FoundStep ==
  ASSUME NEW visited \in SUBSET Vertices, NEW left \in SUBSET Vertices,
         NEW u \in left
  PROVE  /\ AfterVisit(visited, u) \in SUBSET Vertices
         /\ visited \subseteq AfterVisit(visited, u)
         /\ Found(visited, left) = Found(AfterVisit(visited, u), left \ {u})
<1> DEFINE next == AfterVisit(visited, u)
<1> HIDE DEF next
<1>1. get_neighbors(u) \in SUBSET Vertices /\ visited \cup {u} \in SUBSET Vertices
  BY NeighborsVertices
<1>2. CASE u \in visited
  <2>1. \A X : Covers(X, visited, left) <=> Covers(X, visited, left \ {u})
    BY <1>2 DEF Covers
  <2>2. next = visited
    BY <1>2 DEF next, AfterVisit
  <2> QED BY <2>1, <2>2 DEF Found, next
<1>3. CASE u \notin visited
  <2>1. next = Found(visited \cup {u}, get_neighbors(u))
    BY <1>3 DEF next, AfterVisit
  <2>2. next \in SUBSET Vertices /\ Covers(next, visited \cup {u}, get_neighbors(u))
    BY <1>1, <2>1, FoundCovers
  <2>3. visited \cup {u} \subseteq next /\ get_neighbors(u) \subseteq next
    BY <2>2 DEF Covers
  <2>4. ASSUME NEW X \in SUBSET Vertices, Covers(X, next, left \ {u})
        PROVE  Covers(X, visited, left)
    <3>1. next \subseteq X /\ left \ {u} \subseteq X
      BY <2>4 DEF Covers
    <3>2. ASSUME NEW v \in X \ visited
          PROVE  get_neighbors(v) \subseteq X
      <4>1. CASE v \notin next
        BY <2>4, <4>1 DEF Covers
      <4>2. CASE v \in next
        <5>1. get_neighbors(v) \subseteq next
          BY <2>2, <2>3, <3>2, <4>2 DEF Covers
        <5> QED BY <3>1, <5>1
      <4> QED BY <4>1, <4>2
    <3> QED BY <2>3, <3>1, <3>2 DEF Covers
  <2>5. ASSUME NEW X \in SUBSET Vertices, Covers(X, visited, left)
        PROVE  Covers(X, next, left \ {u})
    <3>1. Covers(X, visited \cup {u}, get_neighbors(u))
      BY <1>3, <2>5 DEF Covers
    <3>2. next \subseteq X
      BY <2>1, <2>5, <3>1 DEF Found
    <3> QED BY <2>3, <2>5, <3>2 DEF Covers
  <2> QED BY <2>2, <2>3, <2>4, <2>5 DEF Found, next
<1> QED BY <1>2, <1>3

\* DFS is the function that its definition says it is.
DFSEquation(f) ==
  f = [visited \in SUBSET Vertices |->
         [left \in SUBSET Vertices |->
            IF left = {} THEN visited
            ELSE LET u == Min(left) IN
                 f[IF u \in visited THEN visited
                   ELSE f[visited \cup {u}][get_neighbors(u)]][left \ {u}]]]

\* A function that satisfies the equation exists, so DFS does.
LEMMA DFSIs == DFSEquation(DFS)
<1> DEFINE G == [visited \in SUBSET Vertices |->
                   [left \in SUBSET Vertices |-> Found(visited, left)]]
<1>1. ASSUME NEW visited \in SUBSET Vertices, NEW left \in SUBSET Vertices
      PROVE  G[visited][left] =
               IF left = {} THEN visited
               ELSE LET u == Min(left) IN
                    G[IF u \in visited THEN visited
                      ELSE G[visited \cup {u}][get_neighbors(u)]][left \ {u}]
  <2>1. CASE left = {}
    <3>1. visited \in SUBSET Vertices /\ Covers(visited, visited, left)
      BY <2>1 DEF Covers
    <3>2. Found(visited, left) \subseteq visited
      BY <3>1 DEF Found
    <3>3. visited \subseteq Found(visited, left)
      BY FoundCovers DEF Covers
    <3> QED BY <2>1, <3>2, <3>3
  <2>2. CASE left # {}
    <3> DEFINE u == Min(left)
               next == AfterVisit(visited, u)
    <3>1. u \in left
      BY <2>2, MinVertex
    <3>2. get_neighbors(u) \in SUBSET Vertices /\ visited \cup {u} \in SUBSET Vertices
      BY <3>1, NeighborsVertices
    <3>3. G[visited \cup {u}][get_neighbors(u)]
            = Found(visited \cup {u}, get_neighbors(u))
      BY <3>2
    <3>4. next \in SUBSET Vertices /\ Found(visited, left) = Found(next, left \ {u})
      <4> HIDE DEF u
      <4> QED BY <3>1, FoundStep
    <3>5. left \ {u} \in SUBSET Vertices
      OBVIOUS
    <3>6. G[visited][left] = G[next][left \ {u}]
      <4> HIDE DEF next, u
      <4> QED BY <3>4, <3>5
    <3>7. next = IF u \in visited THEN visited
                 ELSE G[visited \cup {u}][get_neighbors(u)]
      <4> HIDE DEF G
      <4> QED BY <3>3 DEF AfterVisit
    <3> HIDE DEF G, next
    <3> QED BY <2>2, <3>6, <3>7
  <2> QED BY <2>1, <2>2
<1>2. DFSEquation(G)
  <2>1. G = [visited \in SUBSET Vertices |-> [left \in SUBSET Vertices |-> G[visited][left]]]
    OBVIOUS
  <2> DEFINE E(x, y) == IF y = {} THEN x
                        ELSE G[IF Min(y) \in x THEN x
                               ELSE G[x \cup {Min(y)}][get_neighbors(Min(y))]][y \ {Min(y)}]
  <2>2. \A x, y \in SUBSET Vertices : G[x][y] = E(x, y)
    BY <1>1
  <2>3. G = [x \in SUBSET Vertices |-> [y \in SUBSET Vertices |-> E(x, y)]]
    <3> HIDE DEF G, E
    <3> QED BY <2>1, <2>2
  <2> HIDE DEF G
  <2> QED BY <2>3 DEF DFSEquation
<1>3. DFS = CHOOSE f : DFSEquation(f)
  BY DEF DFS, DFSEquation
<1> QED BY <1>2, <1>3

\* The value of DFS, of arguments that are sets of vertices.
LEMMA DFSValue ==
  ASSUME NEW x \in SUBSET Vertices, NEW y \in SUBSET Vertices
  PROVE  DFS[x][y] =
           IF y = {} THEN x
           ELSE DFS[IF Min(y) \in x THEN x
                    ELSE DFS[x \cup {Min(y)}][get_neighbors(Min(y))]][y \ {Min(y)}]
<1> DEFINE E(a, b) == IF b = {} THEN a
                      ELSE DFS[IF Min(b) \in a THEN a
                               ELSE DFS[a \cup {Min(b)}][get_neighbors(Min(b))]][b \ {Min(b)}]
<1>1. DFS = [a \in SUBSET Vertices |-> [b \in SUBSET Vertices |-> E(a, b)]]
  BY DFSIs DEF DFSEquation
<1> HIDE DEF E
<1>2. DFS[x][y] = E(x, y)
  BY <1>1
<1> QED BY <1>2 DEF E

\* It has no other solution, so that DFS finds what it should.  Of the calls that
\* went wrong, one has the most visited vertices, and of these one the fewest left.
LEMMA DFSFinds ==
  ASSUME NEW visited \in SUBSET Vertices, NEW left \in SUBSET Vertices
  PROVE  DFS[visited][left] = Found(visited, left)
<1> DEFINE Wrong(v, l) == DFS[v][l] # Found(v, l)
           F == {Y \in SUBSET Vertices : \E l \in SUBSET Vertices : Wrong(Vertices \ Y, l)}
<1> SUFFICES ASSUME Wrong(visited, left) PROVE FALSE
  OBVIOUS
<1>1. Vertices \ visited \in F /\ F \subseteq SUBSET Vertices
  <2>1. Vertices \ (Vertices \ visited) = visited
    OBVIOUS
  <2> QED BY <2>1
<1>2. PICK Y \in F : \A Z \in F : Z \subseteq Y => Z = Y
  <2> HIDE DEF F
  <2> QED BY <1>1, EdgesFinite, SmallestSubset
<1> DEFINE v == Vertices \ Y
           H == {l \in SUBSET Vertices : Wrong(v, l)}
<1>3. PICK l \in H : \A k \in H : k \subseteq l => k = l
  <2>1. PICK k \in SUBSET Vertices : Wrong(v, k)
    OBVIOUS
  <2>2. k \in H /\ H \subseteq SUBSET Vertices
    BY <2>1
  <2> HIDE DEF H
  <2> QED BY <2>2, EdgesFinite, SmallestSubset
<1>4. ASSUME NEW w \in SUBSET Vertices, v \subseteq w, NEW k \in SUBSET Vertices,
             w = v => k \subseteq l /\ k # l
      PROVE  DFS[w][k] = Found(w, k)
  <2> SUFFICES ASSUME Wrong(w, k) PROVE FALSE
    OBVIOUS
  <2>1. Vertices \ (Vertices \ w) = w
    OBVIOUS
  <2>2. Vertices \ w \in F
    BY <2>1
  <2>3. Vertices \ w = Y
    BY <1>2, <1>4, <2>2
  <2>4. w = v
    BY <2>1, <2>3
  <2>5. k \in H
    BY <2>4
  <2> QED BY <1>3, <1>4, <2>4, <2>5
<1>5. v \in SUBSET Vertices /\ l \in SUBSET Vertices
  OBVIOUS
<1> DEFINE u == Min(l)
           next == AfterVisit(v, u)
<1>6. DFS[v][l] = IF l = {} THEN v
                  ELSE DFS[IF u \in v THEN v
                           ELSE DFS[v \cup {u}][get_neighbors(u)]][l \ {u}]
  <2> HIDE DEF v, F, H, Wrong
  <2> QED BY <1>5, DFSValue
<1>7. CASE l = {}
  <2>1. Covers(v, v, l)
    BY <1>7 DEF Covers
  <2>2. Found(v, l) = v
    <3> HIDE DEF v
    <3>1. Found(v, l) \subseteq v
      BY <1>5, <2>1 DEF Found
    <3>2. v \subseteq Found(v, l)
      BY <1>5, FoundCovers DEF Covers
    <3> QED BY <3>1, <3>2
  <2> QED BY <1>3, <1>6, <1>7, <2>2
<1>8. CASE l # {}
  <2>1. u \in l
    BY <1>5, <1>8, MinVertex
  <2> HIDE DEF u
  <2>2. next \in SUBSET Vertices /\ v \subseteq next
        /\ Found(v, l) = Found(next, l \ {u})
    <3> HIDE DEF v
    <3> QED BY <1>5, <2>1, FoundStep
  <2>3. ASSUME u \notin v
        PROVE  DFS[v \cup {u}][get_neighbors(u)] = Found(v \cup {u}, get_neighbors(u))
    <3>1. v \cup {u} \in SUBSET Vertices /\ get_neighbors(u) \in SUBSET Vertices
      BY <1>5, <2>1, NeighborsVertices
    <3>2. v \subseteq v \cup {u} /\ v \cup {u} # v
      BY <2>3
    <3> HIDE DEF v
    <3> QED BY <1>4, <3>1, <3>2
  <2>4. next = IF u \in v THEN v ELSE DFS[v \cup {u}][get_neighbors(u)]
    BY <2>3 DEF AfterVisit
  <2>5. DFS[next][l \ {u}] = Found(next, l \ {u})
    <3>1. l \ {u} \in SUBSET Vertices /\ l \ {u} \subseteq l /\ l \ {u} # l
      BY <1>5, <2>1
    <3> HIDE DEF next, v
    <3> QED BY <1>4, <2>2, <3>1
  <2> HIDE DEF next, v
  <2>6. DFS[v][l] = Found(v, l)
    BY <1>6, <1>8, <2>2, <2>4, <2>5
  <2> QED BY <1>3, <2>6 DEF v
<1> QED BY <1>7, <1>8

\* Neighbours are the ends of edges.
LEMMA GetNeighborsAre ==
  IInv => \A a, b \in Vertices :
            b \in get_neighbors(a) <=> <<a, b>> \in get_edges \/ <<b, a>> \in get_edges
BY EdgesAgreeIs DEF EdgesAgreeWithNeighbors

\* What DFS finds from a vertex is what the edges join to it.
LEMMA ConnectedRight ==
  ASSUME IInv
  PROVE  is_connected = AllJoined(get_edges)
<1> DEFINE all == DFS[{0}][get_neighbors(0)]
           J == Joins(get_edges)
<1>1. CASE N <= 1
  <2>1. \A u, v \in Vertices : u = v
    BY <1>1, GraphAssumption DEF Vertices
  <2>2. \A u \in Vertices : <<u, u>> \in J
    BY JoinsEquivalence
  <2>3. J = Vertices \X Vertices
    BY <2>1, <2>2 DEF Joins
  <2> QED BY <1>1, <2>3 DEF is_connected, AllJoined
<1>2. CASE ~(N <= 1)
  <2>1. 0 \in Vertices
    BY <1>2, GraphAssumption DEF Vertices
  <2>2. {0} \in SUBSET Vertices /\ get_neighbors(0) \in SUBSET Vertices
    BY <2>1, NeighborsVertices
  <2>3. all = Found({0}, get_neighbors(0))
    BY <2>2, DFSFinds
  <2>4. all \in SUBSET Vertices /\ Covers(all, {0}, get_neighbors(0))
    BY <2>2, <2>3, FoundCovers
  <2> HIDE DEF all
  <2>5. 0 \in all /\ \A v \in all : get_neighbors(v) \subseteq all
    BY <2>4 DEF Covers
  <2>6. \A e \in get_edges : e \in Vertices \X Vertices /\ e = <<e[1], e[2]>>
    BY DEF get_edges
  <2>7. \A e \in get_edges : ~Crosses(e, all)
    <3> SUFFICES ASSUME NEW e \in get_edges PROVE ~Crosses(e, all)
      OBVIOUS
    <3>1. e[1] \in Vertices /\ e[2] \in Vertices /\ <<e[1], e[2]>> \in get_edges
      BY <2>6
    <3>2. e[2] \in get_neighbors(e[1]) /\ e[1] \in get_neighbors(e[2])
      BY <3>1, GetNeighborsAre
    <3> QED BY <2>5, <3>2 DEF Crosses
  <2>8. ASSUME J = Vertices \X Vertices, NEW v \in Vertices
        PROVE  v \in all
    <3>1. <<0, v>> \in J
      BY <2>1, <2>8
    <3>2. 0 \in all <=> v \in all
      BY <2>4, <2>7, <3>1, JoinsIs
    <3> QED BY <2>5, <3>2
  <2>9. ASSUME all = Vertices, NEW u \in Vertices, NEW v \in Vertices
        PROVE  <<u, v>> \in J
    <3>1. \A w \in Vertices : <<0, w>> \in J
      <4> DEFINE K == Component(get_edges, 0)
      <4>1. K \in SUBSET Vertices /\ 0 \in K
        BY <2>1, JoinsEquivalence DEF Component
      <4>2. ASSUME NEW w \in K, NEW x \in get_neighbors(w)
            PROVE  x \in K
        <5>1. PICK e \in get_edges : e = <<w, x>> \/ e = <<x, w>>
          BY <4>1, <4>2, GetNeighborsAre, NeighborsVertices
        <5>2. ~Crosses(e, K)
          BY <2>1, <2>6, ComponentClosed
        <5> QED BY <4>2, <5>1, <5>2 DEF Crosses
      <4> HIDE DEF K
      <4>3. Covers(K, {0}, get_neighbors(0))
        BY <4>1, <4>2 DEF Covers
      <4>4. Vertices \subseteq K
        BY <2>3, <2>9, <4>1, <4>3 DEF Found
      <4> QED BY <4>4, JoinsEquivalence DEF K, Component
    <3>2. <<u, 0>> \in J
      BY <3>1, JoinsEquivalence
    <3> QED BY <3>1, <3>2, JoinsEquivalence
  <2>10. J \subseteq Vertices \X Vertices
    BY DEF Joins
  <2>11. all = Vertices <=> J = Vertices \X Vertices
    <3> HIDE DEF J
    <3> QED BY <2>4, <2>8, <2>9, <2>10
  <2> QED BY <1>2, <2>11 DEF is_connected, AllJoined, all
<1> QED BY <1>1, <1>2

-----------------------------------------------------------------------------
(* Trees.                                                                   *)

\* Edges between vertices, which join all of them, and each of which is the only
\* one across some border.
Tree(T) ==
  /\ \A e \in T : e[1] \in Vertices /\ e[2] \in Vertices /\ e = <<e[1], e[2]>>
                  /\ e[1] < e[2]
  /\ AllJoined(T)
  /\ \A e \in T : \E S \in SUBSET Vertices : {f \in T : Crosses(f, S)} = {e}

\* The edges that separate two vertices, and the side of an edge away from v.
Separating(T, u, v) == {e \in T : <<u, v>> \notin Joins(T \ {e})}

Away(T, e, v) == {x \in Vertices : e \in Separating(T, v, x)}

\* A border that no edge crosses has all vertices on one side.
LEMMA NoBorder ==
  ASSUME NEW T, Tree(T), NEW S \in SUBSET Vertices, \A e \in T : ~Crosses(e, S),
         NEW u \in Vertices, u \notin S
  PROVE  S = {}
<1>1. \A v \in Vertices : <<u, v>> \in Joins(T)
  BY DEF Tree, AllJoined
<1>2. \A v \in Vertices : u \in S <=> v \in S
  BY <1>1, JoinsIs
<1> QED BY <1>2

\* An edge has two sides.
LEMMA AwayIs ==
  ASSUME NEW T, Tree(T), NEW e \in T, NEW v \in Vertices
  PROVE  /\ Away(T, e, v) \in SUBSET Vertices /\ v \notin Away(T, e, v)
         /\ Crosses(e, Away(T, e, v))
         /\ \A f \in T : f # e => ~Crosses(f, Away(T, e, v))
         /\ \A x, y \in Vertices :
              e \in Separating(T, x, y)
                <=> ~(x \in Away(T, e, v) <=> y \in Away(T, e, v))
<1> DEFINE R == T \ {e}
           A == Away(T, e, v)
           Side(x) == Component(R, x)
<1>1. \A f \in T : f[1] \in Vertices /\ f[2] \in Vertices
  BY DEF Tree
<1>2. PICK C \in SUBSET Vertices : {f \in T : Crosses(f, C)} = {e}
  BY DEF Tree
<1>3. <<e[1], e[2]>> \notin Joins(R)
  <2>1. \A f \in R : ~Crosses(f, C)
    BY <1>2
  <2>2. ~(e[1] \in C <=> e[2] \in C)
    BY <1>2 DEF Crosses
  <2> HIDE DEF R
  <2> QED BY <2>1, <2>2, JoinsIs
<1>4. /\ \A x \in Vertices : <<x, x>> \in Joins(R)
      /\ \A x, y : <<x, y>> \in Joins(R) <=> <<y, x>> \in Joins(R)
      /\ \A x, y, z : <<x, y>> \in Joins(R) /\ <<y, z>> \in Joins(R)
                        => <<x, z>> \in Joins(R)
  <2> HIDE DEF R
  <2> QED BY JoinsEquivalence
<1>5. ASSUME NEW x \in Vertices
      PROVE  /\ Side(x) \in SUBSET Vertices /\ x \in Side(x)
             /\ Crosses(e, Side(x)) /\ \A f \in R : ~Crosses(f, Side(x))
  <2>1. /\ Side(x) \in SUBSET Vertices /\ x \in Side(x)
        /\ \A f \in R : ~Crosses(f, Side(x))
    <3>1. \A f \in R : f[1] \in Vertices /\ f[2] \in Vertices
      BY <1>1
    <3> HIDE DEF R
    <3> QED BY <3>1, ComponentClosed DEF Component
  <2>2. Crosses(e, Side(x))
    <3> SUFFICES ASSUME ~Crosses(e, Side(x)) PROVE FALSE
      OBVIOUS
    <3> DEFINE O == Vertices \ Side(x)
    <3>1. \A f \in T : ~Crosses(f, Side(x))
      BY <2>1
    <3> HIDE DEF Side
    <3>2. \A f \in T : ~Crosses(f, O)
      BY <1>1, <3>1 DEF Crosses
    <3>3. O \in SUBSET Vertices /\ x \notin O
      BY <2>1
    <3> HIDE DEF O
    <3>4. O = {}
      BY <3>2, <3>3, NoBorder
    <3>5. e[1] \in Side(x) /\ e[2] \in Side(x)
      BY <1>1, <3>4 DEF O
    <3>6. <<e[1], x>> \in Joins(R) /\ <<e[2], x>> \in Joins(R)
      BY <3>5 DEF Side, Component
    <3> QED BY <1>3, <1>4, <3>6
  <2> QED BY <2>1, <2>2
<1>6. \A x, y \in Vertices : e \in Separating(T, x, y) <=> x \notin Side(y)
  BY DEF Separating, Component
<1>7. A = Vertices \ Side(v)
  <2>1. \A x \in Vertices : e \in Separating(T, v, x) <=> x \notin Side(v)
    BY <1>4, <1>6 DEF Separating, Component
  <2> QED BY <2>1 DEF Away
<1>8. A \in SUBSET Vertices /\ v \notin A
  BY <1>5, <1>7
<1>9. Crosses(e, A) /\ \A f \in T : f # e => ~Crosses(f, A)
  <2> HIDE DEF Side
  <2>1. \A f \in T : Crosses(f, A) <=> Crosses(f, Side(v))
    BY <1>1, <1>7 DEF Crosses
  <2> QED BY <1>5, <2>1
<1>10. ASSUME NEW x \in Vertices, NEW y \in Vertices
       PROVE  x \in Side(y) <=> (x \in Side(v) <=> y \in Side(v))
  <2>1. x \in Side(y) <=> <<x, y>> \in Joins(R)
    BY DEF Component
  <2>2. /\ x \in Side(v) <=> <<x, v>> \in Joins(R)
        /\ y \in Side(v) <=> <<y, v>> \in Joins(R)
    BY DEF Component
  <2>3. CASE x \in Side(v) \/ y \in Side(v)
    BY <1>4, <2>1, <2>2, <2>3
  <2>4. CASE x \notin Side(v) /\ y \notin Side(v)
    <3> SUFFICES ASSUME x \notin Side(y) PROVE FALSE
      BY <2>4
    <3> DEFINE a == Side(v)
               b == Side(y)
    <3>1. a \cap b = {}
      <4> SUFFICES ASSUME NEW z \in a \cap b PROVE FALSE
        OBVIOUS
      <4>1. <<z, v>> \in Joins(R) /\ <<z, y>> \in Joins(R)
        BY DEF Component
      <4> QED BY <1>4, <2>2, <2>4, <4>1
    <3>2. /\ a \in SUBSET Vertices /\ v \in a /\ b \in SUBSET Vertices
          /\ Crosses(e, a) /\ \A f \in R : ~Crosses(f, a)
          /\ Crosses(e, b) /\ \A f \in R : ~Crosses(f, b)
      BY <1>5
    <3>3. x \notin a \cup b
      BY <2>4
    <3> HIDE DEF a, b
    <3>4. \A f \in T : ~Crosses(f, a \cup b)
      <4>1. ~Crosses(e, a \cup b)
        BY <3>1, <3>2 DEF Crosses
      <4>2. \A f \in R : ~Crosses(f, a \cup b)
        BY <3>2 DEF Crosses
      <4> QED BY <4>1, <4>2
    <3>5. a \cup b = {}
      <4> HIDE DEF R, Side
      <4>1. a \cup b \in SUBSET Vertices
        BY <3>2
      <4> QED BY <3>3, <3>4, <4>1, NoBorder
    <3> QED BY <3>2, <3>5
  <2> QED BY <2>3, <2>4
<1>11. \A x, y \in Vertices :
         e \in Separating(T, x, y) <=> ~(x \in A <=> y \in A)
  <2> HIDE DEF Side
  <2> QED BY <1>6, <1>7, <1>10
<1> HIDE DEF A
<1> QED BY <1>8, <1>9, <1>11 DEF A

-----------------------------------------------------------------------------
(* Branches.                                                                *)

\* The edge between two neighbours, and the vertices behind u for one that comes
\* from v.
Edge(v, u) == IF v < u THEN <<v, u>> ELSE <<u, v>>

Behind(v, u) == Away(TreeEdges, Edge(v, u), v)

\* What a returned tree looks like: TreeEdges is a tree, and the lists are those
\* of its edges.
TreeState ==
  /\ IInv /\ members = Vertices
  /\ Tree(TreeEdges)
  /\ TreeEdges \subseteq get_edges
  /\ \A v, u \in Vertices :
       u \in Neighbors(v) => /\ v \in Neighbors(u) /\ u # v
                             /\ Edge(v, u) \in TreeEdges
  /\ \A e \in TreeEdges : e[2] \in Neighbors(e[1]) /\ e[1] \in Neighbors(e[2])

\* Only vertices are neighbours in the tree.
LEMMA NeighborsAreVertices == \A v : Neighbors(v) \subseteq Vertices
BY DEF Neighbors

\* Of a branch only its first vertex has a neighbour elsewhere.
LEMMA BehindIs ==
  ASSUME TreeState, NEW v \in Vertices, NEW u \in Neighbors(v)
  PROVE  /\ Edge(v, u) \in TreeEdges /\ Edge(v, u) = Edge(u, v)
         /\ Behind(v, u) \in SUBSET Vertices
         /\ v \notin Behind(v, u) /\ u \in Behind(v, u)
         /\ \A f \in TreeEdges : f # Edge(v, u) => ~Crosses(f, Behind(v, u))
         /\ \A x, y \in Vertices :
              Edge(v, u) \in Separating(TreeEdges, x, y)
                <=> ~(x \in Behind(v, u) <=> y \in Behind(v, u))
<1>1. u \in Vertices /\ Edge(v, u) \in TreeEdges /\ u # v
  BY NeighborsAreVertices DEF TreeState
<1>2. Edge(v, u) = Edge(u, v)
  BY <1>1, GraphAssumption DEF Edge, Vertices
<1>3. Tree(TreeEdges)
  BY DEF TreeState
<1>4. /\ Behind(v, u) \in SUBSET Vertices /\ v \notin Behind(v, u)
      /\ Crosses(Edge(v, u), Behind(v, u))
      /\ \A f \in TreeEdges : f # Edge(v, u) => ~Crosses(f, Behind(v, u))
      /\ \A x, y \in Vertices :
           Edge(v, u) \in Separating(TreeEdges, x, y)
             <=> ~(x \in Behind(v, u) <=> y \in Behind(v, u))
  BY <1>1, <1>3, AwayIs DEF Behind
<1>5. {Edge(v, u)[1], Edge(v, u)[2]} = {v, u}
  BY DEF Edge
<1>6. u \in Behind(v, u)
  BY <1>4, <1>5 DEF Crosses
<1> QED BY <1>1, <1>2, <1>4, <1>6

\* The other side.
LEMMA BehindOther ==
  ASSUME TreeState, NEW v \in Vertices, NEW u \in Neighbors(v)
  PROVE  Behind(u, v) = Vertices \ Behind(v, u)
<1>1. u \in Vertices /\ Edge(v, u) = Edge(u, v) /\ u \in Behind(v, u)
  BY BehindIs, NeighborsAreVertices
<1>2. \A x \in Vertices :
        Edge(v, u) \in Separating(TreeEdges, u, x)
          <=> ~(u \in Behind(v, u) <=> x \in Behind(v, u))
  BY <1>1, BehindIs
<1>3. Behind(u, v) = {x \in Vertices : Edge(v, u) \in Separating(TreeEdges, u, x)}
  BY <1>1 DEF Behind, Away
<1> QED BY <1>1, <1>2, <1>3

\* An edge is crossed by a border only if it leads into the branch or is elsewhere.
LEMMA EdgesBetween ==
  ASSUME TreeState, NEW f \in TreeEdges
  PROVE  \E a, b \in Vertices :
           /\ f = <<a, b>> /\ a \in Neighbors(b) /\ b \in Neighbors(a)
           /\ f = Edge(a, b) /\ f = Edge(b, a)
<1>1. /\ f[1] \in Vertices /\ f[2] \in Vertices /\ f = <<f[1], f[2]>> /\ f[1] < f[2]
      /\ f[2] \in Neighbors(f[1]) /\ f[1] \in Neighbors(f[2])
  BY DEF TreeState, Tree
<1>2. f = Edge(f[1], f[2]) /\ f = Edge(f[2], f[1])
  BY <1>1, GraphAssumption DEF Edge, Vertices
<1> QED BY <1>1, <1>2

\* An edge crosses a border that has one of its ends on each side.
LEMMA EdgeEnds ==
  ASSUME NEW v, NEW u, NEW S
  PROVE  Crosses(Edge(v, u), S) <=> ~(v \in S <=> u \in S)
BY DEF Crosses, Edge

\* The branches of a vertex are disjoint, and all others are in them.
LEMMA BranchesDisjoint ==
  ASSUME TreeState, NEW v \in Vertices, NEW u \in Neighbors(v),
         NEW w \in Neighbors(v), u # w
  PROVE  Behind(v, u) \cap Behind(v, w) = {}
<1> DEFINE X == Behind(v, u) \cap Behind(v, w)
<1>1. u \in Vertices /\ w \in Vertices /\ u # v /\ w # v /\ Tree(TreeEdges)
  BY NeighborsAreVertices DEF TreeState
<1>2. Edge(v, u) # Edge(v, w)
  BY <1>1, GraphAssumption DEF Edge, Vertices
<1>3. /\ Behind(v, u) \in SUBSET Vertices /\ v \notin Behind(v, u)
      /\ Edge(v, u) \in TreeEdges
      /\ \A f \in TreeEdges : f # Edge(v, u) => ~Crosses(f, Behind(v, u))
  BY BehindIs
<1>4. /\ Behind(v, w) \in SUBSET Vertices /\ v \notin Behind(v, w)
      /\ Edge(v, w) \in TreeEdges
      /\ \A f \in TreeEdges : f # Edge(v, w) => ~Crosses(f, Behind(v, w))
  BY BehindIs
<1>5. u \notin Behind(v, w) /\ w \notin Behind(v, u)
  BY <1>2, <1>3, <1>4, EdgeEnds
<1>6. ASSUME NEW f \in TreeEdges
      PROVE  ~Crosses(f, X)
  <2>1. CASE f = Edge(v, u) \/ f = Edge(v, w)
    <3>1. v \notin X /\ u \notin X /\ w \notin X
      BY <1>3, <1>5
    <3> HIDE DEF X
    <3> QED BY <2>1, <3>1, EdgeEnds
  <2>2. CASE f # Edge(v, u) /\ f # Edge(v, w)
    BY <1>3, <1>4, <2>2 DEF Crosses
  <2> QED BY <2>1, <2>2
<1>7. X \in SUBSET Vertices /\ v \notin X
  BY <1>3
<1> HIDE DEF X
<1>8. X = {}
  BY <1>1, <1>6, <1>7, NoBorder
<1> QED BY <1>8 DEF X

\* Each other vertex is in one of the branches.
LEMMA BranchesAll ==
  ASSUME TreeState, NEW v \in Vertices, NEW x \in Vertices, x # v
  PROVE  \E u \in Neighbors(v) : x \in Behind(v, u)
<1> DEFINE X == {y \in Vertices \ {v} : \A u \in Neighbors(v) : y \notin Behind(v, u)}
<1>1. Tree(TreeEdges)
  BY DEF TreeState
<1>2. \A u \in Neighbors(v) :
        /\ u \in Behind(v, u)
        /\ \A f \in TreeEdges : f # Edge(v, u) => ~Crosses(f, Behind(v, u))
  BY BehindIs
<1>3. ASSUME NEW f \in TreeEdges
      PROVE  ~Crosses(f, X)
  <2>1. PICK a, b \in Vertices : /\ f = <<a, b>> /\ a \in Neighbors(b) /\ b \in Neighbors(a)
                                 /\ f = Edge(a, b) /\ f = Edge(b, a)
    BY EdgesBetween
  <2>2. CASE a = v \/ b = v
    <3>1. a \notin X /\ b \notin X
      BY <1>2, <2>1, <2>2
    <3> HIDE DEF X
    <3> QED BY <2>1, <3>1, EdgeEnds
  <2>3. CASE a # v /\ b # v
    <3>1. \A u \in Neighbors(v) : f # Edge(v, u)
      BY <2>1, <2>3 DEF Edge
    <3>2. \A u \in Neighbors(v) : a \in Behind(v, u) <=> b \in Behind(v, u)
      BY <1>2, <2>1, <3>1, EdgeEnds
    <3>3. a \in X <=> b \in X
      BY <2>3, <3>2
    <3> HIDE DEF X
    <3> QED BY <2>1, <3>3, EdgeEnds
  <2> QED BY <2>2, <2>3
<1>4. X \in SUBSET Vertices /\ v \notin X
  OBVIOUS
<1>5. X = {}
  <2> HIDE DEF X
  <2> QED BY <1>1, <1>3, <1>4, NoBorder
<1> QED BY <1>5

\* The vertices that a call for v meets in these branches.
Reach(v, C) == {v} \cup {x \in Vertices : \E u \in C : x \in Behind(v, u)}

\* A call that visits all neighbours meets all vertices.
LEMMA ReachAll ==
  ASSUME TreeState, NEW v \in Vertices
  PROVE  Reach(v, Neighbors(v)) = Vertices
BY BranchesAll DEF Reach

\* A branch is what the call for its first vertex meets.
LEMMA BehindIsReach ==
  ASSUME TreeState, NEW v \in Vertices, NEW u \in Neighbors(v)
  PROVE  Behind(v, u) = Reach(u, Neighbors(u) \ {v})
<1>1. u \in Vertices /\ v \in Neighbors(u) /\ u # v
  BY NeighborsAreVertices DEF TreeState
<1>2. Behind(u, v) = Vertices \ Behind(v, u)
  BY BehindOther
<1>3. Behind(v, u) \in SUBSET Vertices /\ u \in Behind(v, u)
  BY BehindIs
<1>4. ASSUME NEW x \in Behind(v, u), x # u
      PROVE  \E w \in Neighbors(u) \ {v} : x \in Behind(u, w)
  <2>1. x \in Vertices /\ x \notin Behind(u, v)
    BY <1>2, <1>3
  <2>2. PICK w \in Neighbors(u) : x \in Behind(u, w)
    BY <1>1, <1>4, <2>1, BranchesAll
  <2> QED BY <2>1, <2>2
<1>5. ASSUME NEW w \in Neighbors(u) \ {v}, NEW x \in Vertices, x \in Behind(u, w)
      PROVE  x \in Behind(v, u)
  <2>1. Behind(u, w) \cap Behind(u, v) = {}
    BY <1>1, BranchesDisjoint
  <2> QED BY <1>2, <1>5, <2>1
<1> QED BY <1>3, <1>4, <1>5 DEF Reach

\* An iteration adds the branch of its neighbour.
LEMMA ReachStep ==
  ASSUME TreeState, NEW v \in Vertices, NEW C \in SUBSET Neighbors(v), NEW u \in C
  PROVE  /\ Reach(v, C) = Reach(v, C \ {u}) \cup Behind(v, u)
         /\ Reach(v, C \ {u}) \cap Behind(v, u) = {}
         /\ Reach(v, C) \in SUBSET Vertices
         /\ v \in Reach(v, C \ {u}) /\ u \in Behind(v, u)
<1>1. Behind(v, u) \in SUBSET Vertices /\ v \notin Behind(v, u) /\ u \in Behind(v, u)
  BY BehindIs
<1>2. \A w \in C \ {u} : Behind(v, w) \cap Behind(v, u) = {}
  BY BranchesDisjoint
<1> QED BY <1>1, <1>2 DEF Reach

-----------------------------------------------------------------------------
(* Traversals of a tree.                                                    *)

\* Two functions agree on a call before its loop, and after an iteration if they
\* agree before it and on the call that it makes.
AgreeStepwise(f, g) ==
  /\ \A v \in Vertices : f[v][{}] = g[v][{}]
  /\ \A v \in Vertices : \A C \in (SUBSET Neighbors(v)) \ {{}} : \E u \in C :
       (/\ f[v][C \ {u}] = g[v][C \ {u}]
        /\ f[u][Neighbors(u) \ {v}] = g[u][Neighbors(u) \ {v}])
       => f[v][C] = g[v][C]

\* Such functions agree: of the calls on which they do not, one meets the fewest
\* vertices.
LEMMA Traversal ==
  ASSUME TreeState, NEW f, NEW g, AgreeStepwise(f, g),
         NEW v \in Vertices, NEW C \in SUBSET Neighbors(v)
  PROVE  f[v][C] = g[v][C]
<1> DEFINE Wrong(a, A) == A \in SUBSET Neighbors(a) /\ f[a][A] # g[a][A]
           F == {X \in SUBSET Vertices : \E a \in Vertices : \E A \in SUBSET Neighbors(a) :
                   Wrong(a, A) /\ X = Reach(a, A)}
<1> USE DEF AgreeStepwise
<1> SUFFICES ASSUME Wrong(v, C) PROVE FALSE
  OBVIOUS
<1>1. \A a \in Vertices : \A A : Reach(a, A) \in SUBSET Vertices
  BY DEF Reach
<1>2. Reach(v, C) \in F /\ F \subseteq SUBSET Vertices
  BY <1>1
<1>3. PICK X \in F : \A Y \in F : Y \subseteq X => Y = X
  <2> HIDE DEF F
  <2> QED BY <1>2, EdgesFinite, SmallestSubset
<1>4. PICK a \in Vertices : \E A \in SUBSET Neighbors(a) : Wrong(a, A) /\ X = Reach(a, A)
  BY <1>3
<1>5. PICK A \in SUBSET Neighbors(a) : Wrong(a, A) /\ X = Reach(a, A)
  BY <1>4
<1>6. A # {}
  BY <1>5
<1>7. PICK u \in A :
        f[a][A \ {u}] = g[a][A \ {u}]
          /\ f[u][Neighbors(u) \ {a}] = g[u][Neighbors(u) \ {a}]
        => f[a][A] = g[a][A]
  <2>1. A \in (SUBSET Neighbors(a)) \ {{}}
    BY <1>6
  <2> HIDE DEF Wrong, F
  <2> QED BY <2>1
<1>8. /\ X = Reach(a, A \ {u}) \cup Behind(a, u)
      /\ Reach(a, A \ {u}) \cap Behind(a, u) = {}
      /\ a \in Reach(a, A \ {u}) /\ u \in Behind(a, u)
  <2> HIDE DEF Wrong, F
  <2> QED BY <1>5, ReachStep
<1>9. u \in Neighbors(a) /\ u \in Vertices
  BY NeighborsAreVertices
<1>10. Reach(a, A \ {u}) \notin F /\ Behind(a, u) \notin F
  <2>1. /\ Reach(a, A \ {u}) \subseteq X /\ Reach(a, A \ {u}) # X
        /\ Behind(a, u) \subseteq X /\ Behind(a, u) # X
    BY ONLY <1>8
  <2> HIDE DEF F, Wrong
  <2> QED BY ONLY <1>3, <2>1
<1>11. ~Wrong(a, A \ {u})
  <2>1. A \ {u} \in SUBSET Neighbors(a)
    OBVIOUS
  <2> HIDE DEF Wrong
  <2> QED BY <1>1, <1>10, <2>1
<1>12. ~Wrong(u, Neighbors(u) \ {a})
  <2>1. Neighbors(u) \ {a} \in SUBSET Neighbors(u)
    OBVIOUS
  <2>2. Behind(a, u) = Reach(u, Neighbors(u) \ {a})
    BY <1>9, BehindIsReach
  <2>3. Behind(a, u) \in SUBSET Vertices
    BY ONLY <1>1, <1>9, <2>2
  <2>4. Wrong(u, Neighbors(u) \ {a}) => Behind(a, u) \in F
    <3> HIDE DEF Wrong
    <3> QED BY <1>9, <2>1, <2>2, <2>3
  <2> HIDE DEF Wrong, F
  <2> QED BY <1>10, <2>4
<1> QED BY <1>5, <1>7, <1>11, <1>12

-----------------------------------------------------------------------------
(* Distances.                                                               *)

\* The weights of a tree, which the matrix has in both directions.
LEMMA TreeWeights ==
  ASSUME TreeState
  PROVE  /\ IsFiniteSet(TreeEdges)
         /\ \A e \in TreeEdges : EdgeWeight(e) \in Weights /\ EdgeWeight(e) \in Int
         /\ \A v, u \in Vertices :
              u \in Neighbors(v) => adjacency_matrix[v][u] = EdgeWeight(Edge(v, u))
<1>1. IsFiniteSet(TreeEdges)
  BY EdgesFinite, FS_Subset DEF TreeState
<1>2. ASSUME NEW e \in TreeEdges
      PROVE  EdgeWeight(e) \in Weights
  <2>1. e \in get_edges
    BY DEF TreeState
  <2>2. e[1] \in Vertices /\ e[2] \in Vertices /\ adjacency_matrix[e[1]][e[2]] # no_edge
    BY <2>1 DEF get_edges
  <2> QED BY <2>2 DEF TreeState, IInv, TypeOK, Stored, EdgeWeight
<1>3. ASSUME NEW v \in Vertices, NEW u \in Vertices
      PROVE  adjacency_matrix[v][u] = EdgeWeight(Edge(v, u))
  <2>1. adjacency_matrix[v][u] = adjacency_matrix[u][v]
    BY DEF TreeState, IInv, Symmetric
  <2> QED BY <2>1 DEF EdgeWeight, Edge
<1> QED BY <1>1, <1>2, <1>3, PrimAssumption

\* The distance is the weight of what separates.
LEMMA DistanceIs ==
  \A x, y : Distance(x, y) = WeightOf(Separating(TreeEdges, x, y))
BY DEF Distance, Separating

\* What separates is on the way from both ends; nothing separates a vertex from
\* itself.
LEMMA SeparatingFacts ==
  ASSUME TreeState, NEW x \in Vertices, NEW y \in Vertices
  PROVE  /\ Separating(TreeEdges, x, y) = Separating(TreeEdges, y, x)
         /\ Separating(TreeEdges, x, x) = {}
         /\ Separating(TreeEdges, x, y) \subseteq TreeEdges
<1>1. \A e : /\ <<x, x>> \in Joins(TreeEdges \ {e})
             /\ <<x, y>> \in Joins(TreeEdges \ {e}) <=> <<y, x>> \in Joins(TreeEdges \ {e})
  BY JoinsEquivalence
<1> QED BY <1>1 DEF Separating

\* The way into a branch begins with the edge to it.
LEMMA WayIntoBranch ==
  ASSUME TreeState, NEW v \in Vertices, NEW u \in Neighbors(v), NEW x \in Behind(v, u)
  PROVE  /\ Edge(v, u) \in Separating(TreeEdges, v, x)
         /\ Edge(v, u) \notin Separating(TreeEdges, u, x)
         /\ Separating(TreeEdges, v, x) = {Edge(v, u)} \cup Separating(TreeEdges, u, x)
<1>1. /\ u \in Vertices /\ x \in Vertices /\ Edge(v, u) \in TreeEdges
      /\ v \notin Behind(v, u) /\ u \in Behind(v, u)
      /\ \A a, b \in Vertices :
           Edge(v, u) \in Separating(TreeEdges, a, b)
             <=> ~(a \in Behind(v, u) <=> b \in Behind(v, u))
  BY BehindIs, NeighborsAreVertices
<1>2. /\ Edge(v, u) \in Separating(TreeEdges, v, x)
      /\ Edge(v, u) \notin Separating(TreeEdges, u, x)
  BY <1>1
<1>3. ASSUME NEW f \in TreeEdges, f # Edge(v, u)
      PROVE  f \in Separating(TreeEdges, v, x) <=> f \in Separating(TreeEdges, u, x)
  <2> DEFINE A == Away(TreeEdges, f, v)
  <2>1. Tree(TreeEdges)
    BY DEF TreeState
  <2>2. /\ v \notin A
        /\ \A g \in TreeEdges : g # f => ~Crosses(g, A)
        /\ \A a, b \in Vertices :
             f \in Separating(TreeEdges, a, b) <=> ~(a \in A <=> b \in A)
    BY <2>1, AwayIs
  <2> HIDE DEF A
  <2>3. u \notin A
    BY <1>1, <1>3, <2>2, EdgeEnds
  <2> QED BY <1>1, <2>2, <2>3
<1>4. Separating(TreeEdges, v, x) \subseteq TreeEdges
      /\ Separating(TreeEdges, u, x) \subseteq TreeEdges
  BY DEF Separating
<1> QED BY <1>1, <1>2, <1>3, <1>4

\* The way from a branch to a vertex that is not in it goes through its root.
LEMMA WayOutOfBranch ==
  ASSUME TreeState, NEW v \in Vertices, NEW u \in Neighbors(v), NEW x \in Behind(v, u),
         NEW y \in Vertices, y \notin Behind(v, u)
  PROVE  /\ Separating(TreeEdges, v, x) \cap Separating(TreeEdges, v, y) = {}
         /\ Separating(TreeEdges, x, y)
              = Separating(TreeEdges, v, x) \cup Separating(TreeEdges, v, y)
<1> DEFINE B == Behind(v, u)
           e == Edge(v, u)
<1>1. /\ u \in Vertices /\ x \in Vertices /\ e \in TreeEdges
      /\ B \in SUBSET Vertices /\ v \notin B /\ u \in B
      /\ \A f \in TreeEdges : f # e => ~Crosses(f, B)
      /\ \A a, b \in Vertices :
           e \in Separating(TreeEdges, a, b) <=> ~(a \in B <=> b \in B)
  BY BehindIs, NeighborsAreVertices
<1>2. Tree(TreeEdges) /\ x \in B /\ y \notin B
  BY DEF TreeState
<1> HIDE DEF B
<1>3. ASSUME NEW f \in TreeEdges
      PROVE  /\ ~(f \in Separating(TreeEdges, v, x) /\ f \in Separating(TreeEdges, v, y))
             /\ f \in Separating(TreeEdges, x, y)
                  <=> \/ f \in Separating(TreeEdges, v, x)
                      \/ f \in Separating(TreeEdges, v, y)
  <2>1. CASE f = e
    BY <1>1, <1>2, <2>1
  <2>2. CASE f # e
    <3> DEFINE A == Away(TreeEdges, f, v)
    <3>1. /\ A \in SUBSET Vertices /\ v \notin A
          /\ \A g \in TreeEdges : g # f => ~Crosses(g, A)
          /\ \A a, b \in Vertices :
               f \in Separating(TreeEdges, a, b) <=> ~(a \in A <=> b \in A)
      BY <1>2, AwayIs
    <3> HIDE DEF A
    <3>2. u \notin A
      BY <1>1, <2>2, <3>1, EdgeEnds
    <3>3. x \notin A \/ y \notin A
      <4>1. CASE f[1] \in B
        <5>1. f[2] \in B
          BY <1>1, <2>2, <4>1 DEF Crosses
        <5>2. ~Crosses(f, A \ B)
          BY <4>1, <5>1 DEF Crosses
        <5>3. ~Crosses(e, A \ B)
          BY <3>1, <3>2, EdgeEnds
        <5>4. \A g \in TreeEdges : g # f /\ g # e => ~Crosses(g, A \ B)
          BY <1>1, <3>1 DEF Crosses
        <5>5. A \ B \in SUBSET Vertices /\ v \notin A \ B
          BY <3>1
        <5>6. A \ B = {}
          BY <1>2, <5>2, <5>3, <5>4, <5>5, NoBorder
        <5> QED BY <1>2, <5>6
      <4>2. CASE f[1] \notin B
        <5>1. f[2] \notin B
          BY <1>1, <2>2, <4>2 DEF Crosses
        <5>2. ~Crosses(f, A \cap B)
          BY <4>2, <5>1 DEF Crosses
        <5>3. ~Crosses(e, A \cap B)
          BY <3>1, <3>2, EdgeEnds
        <5>4. \A g \in TreeEdges : g # f /\ g # e => ~Crosses(g, A \cap B)
          BY <1>1, <3>1 DEF Crosses
        <5>5. A \cap B \in SUBSET Vertices /\ v \notin A \cap B
          BY <3>1
        <5>6. A \cap B = {}
          BY <1>2, <5>2, <5>3, <5>4, <5>5, NoBorder
        <5> QED BY <1>2, <5>6
      <4> QED BY <4>1, <4>2
    <3> QED BY <1>1, <3>1, <3>3
  <2> QED BY <2>1, <2>2
<1>4. \A a, b : Separating(TreeEdges, a, b) \subseteq TreeEdges
  BY DEF Separating
<1> QED BY <1>3, <1>4

\* The weight of disjoint sets of edges.
LEMMA WeightOfUnion ==
  ASSUME NEW A, NEW B, IsFiniteSet(A), IsFiniteSet(B), A \cap B = {},
         \A e \in A \cup B : EdgeWeight(e) \in Int
  PROVE  WeightOf(A \cup B) = WeightOf(A) + WeightOf(B)
<1> DEFINE S == A \cup B
           w == [e \in S |-> EdgeWeight(e)]
           a == [e \in S |-> IF e \in A THEN EdgeWeight(e) ELSE 0]
           b == [e \in S |-> IF e \in B THEN EdgeWeight(e) ELSE 0]
<1>1. IsFiniteSet(S)
  BY FS_Union
<1>2. \A e \in S : /\ w[e] = EdgeWeight(e) /\ w[e] \in Int
                   /\ a[e] \in Int /\ b[e] \in Int /\ w[e] = a[e] + b[e]
                   /\ e \in A => a[e] = w[e]
                   /\ e \in B => b[e] = w[e]
  OBVIOUS
<1>3. \A e \in S : (e \notin A => a[e] = 0) /\ (e \notin B => b[e] = 0)
  OBVIOUS
<1>4. A \subseteq S /\ B \subseteq S /\ S \cap A = A /\ S \cap B = B
  OBVIOUS
<1> HIDE DEF S, w, a, b
<1>5. Sum(w, S) = Sum(a, S) + Sum(b, S)
  BY <1>1, <1>2, SumAdd
<1>6. Sum(a, S) = Sum(w, A) /\ Sum(b, S) = Sum(w, B)
  <2>1. Sum(a, S) = Sum(w, A)
    <3>1. /\ \A e \in S : w[e] \in Int /\ (e \in A => a[e] = w[e])
          /\ \A e \in S : e \notin A => a[e] = 0
      BY <1>2, <1>3
    <3> QED BY <1>1, <1>4, <3>1, SumFilter
  <2>2. Sum(b, S) = Sum(w, B)
    <3>1. /\ \A e \in S : w[e] \in Int /\ (e \in B => b[e] = w[e])
          /\ \A e \in S : e \notin B => b[e] = 0
      BY <1>2, <1>3
    <3> QED BY <1>1, <1>4, <3>1, SumFilter
  <2> QED BY <2>1, <2>2
<1>7. WeightOf(S) = Sum(w, S) /\ WeightOf(A) = Sum(w, A) /\ WeightOf(B) = Sum(w, B)
  BY <1>1, <1>2, <1>4, WeightIsSum
<1> QED BY <1>4, <1>5, <1>6, <1>7 DEF S

-----------------------------------------------------------------------------

\* Distances are symmetric numbers.
LEMMA DistanceFacts ==
  ASSUME TreeState, NEW x \in Vertices, NEW y \in Vertices
  PROVE  /\ Distance(x, y) \in Int /\ Distance(x, y) = Distance(y, x)
         /\ Distance(x, x) = 0
<1>1. /\ Separating(TreeEdges, x, y) = Separating(TreeEdges, y, x)
      /\ Separating(TreeEdges, x, x) = {}
      /\ Separating(TreeEdges, x, y) \subseteq TreeEdges
  BY SeparatingFacts
<1>2. IsFiniteSet(TreeEdges) /\ \A e \in TreeEdges : EdgeWeight(e) \in Int
  BY TreeWeights
<1>3. IsFiniteSet(Separating(TreeEdges, x, y))
  BY <1>1, <1>2, FS_Subset
<1>4. WeightOf(Separating(TreeEdges, x, y)) \in Int
  BY <1>1, <1>2, <1>3, WeightIsInt
<1>5. WeightOf({}) = 0
  <2> DEFINE w == [e \in {} |-> 0]
  <2>1. PICK none : none = {}
    OBVIOUS
  <2>2. IsFiniteSet(none) /\ \A e \in none : w[e] = EdgeWeight(e)
    BY <2>1, FS_EmptySet
  <2> HIDE DEF w
  <2>3. WeightOf(none) = Sum(w, none)
    BY <2>2, WeightIsSum
  <2>4. Sum(w, none) = 0
    BY <2>1, <2>2, SumStep
  <2> QED BY <2>1, <2>3, <2>4
<1> QED BY <1>1, <1>4, <1>5, DistanceIs

\* The distance into a branch, and that between two branches.
LEMMA DistanceIntoBranch ==
  ASSUME TreeState, NEW v \in Vertices, NEW u \in Neighbors(v), NEW x \in Behind(v, u)
  PROVE  Distance(v, x) = adjacency_matrix[v][u] + Distance(u, x)
<1>1. u \in Vertices /\ Behind(v, u) \in SUBSET Vertices /\ Edge(v, u) \in TreeEdges
  BY BehindIs, NeighborsAreVertices
<1> DEFINE S == Separating(TreeEdges, v, x)
           e == Edge(v, u)
<1>2. e \in S /\ S \ {e} = Separating(TreeEdges, u, x)
  BY WayIntoBranch
<1>3. IsFiniteSet(S) /\ \A f \in S : EdgeWeight(f) \in Int
  BY TreeWeights, FS_Subset DEF Separating
<1> HIDE DEF S, e
<1>4. WeightOf(S) = EdgeWeight(e) + WeightOf(S \ {e})
  BY <1>2, <1>3, WeightWithout
<1>5. adjacency_matrix[v][u] = EdgeWeight(e)
  BY <1>1, TreeWeights DEF e
<1> QED BY <1>2, <1>4, <1>5, DistanceIs DEF S

\* The way from a branch to the outside goes through v.
LEMMA DistanceAcross ==
  ASSUME TreeState, NEW v \in Vertices, NEW u \in Neighbors(v), NEW x \in Behind(v, u),
         NEW y \in Vertices, y \notin Behind(v, u)
  PROVE  Distance(x, y) = Distance(v, x) + Distance(v, y)
<1> DEFINE A == Separating(TreeEdges, v, x)
           B == Separating(TreeEdges, v, y)
<1>1. A \cap B = {} /\ Separating(TreeEdges, x, y) = A \cup B
  BY WayOutOfBranch
<1>2. /\ A \subseteq TreeEdges /\ B \subseteq TreeEdges
  BY DEF Separating
<1>3. IsFiniteSet(A) /\ IsFiniteSet(B) /\ \A e \in A \cup B : EdgeWeight(e) \in Int
  BY <1>2, TreeWeights, FS_Subset
<1> HIDE DEF A, B
<1>4. WeightOf(A \cup B) = WeightOf(A) + WeightOf(B)
  BY <1>1, <1>3, WeightOfUnion
<1> QED BY <1>1, <1>4, DistanceIs DEF A, B

\* If no weight is negative, a set of edges weighs no less than one of them.
LEMMA WeightAtLeast ==
  ASSUME NEW S, IsFiniteSet(S), \A e \in S : EdgeWeight(e) \in Nat
  PROVE  WeightOf(S) \in Nat /\ \A e \in S : EdgeWeight(e) <= WeightOf(S)
<1> DEFINE w == [e \in S |-> EdgeWeight(e)]
           F == {X \in SUBSET S : Sum(w, X) \notin Nat}
<1>1. \A X \in SUBSET S : Sum(w, X) \in Nat
  <2> SUFFICES ASSUME NEW Y \in F PROVE FALSE
    OBVIOUS
  <2>1. F \subseteq SUBSET S
    OBVIOUS
  <2>2. PICK X \in F : \A Z \in F : Z \subseteq X => Z = X
    <3> HIDE DEF F
    <3> QED BY <2>1, SmallestSubset
  <2>3. IsFiniteSet(X)
    BY FS_Subset
  <2>4. Sum(w, X) = IF X = {} THEN 0
                    ELSE w[First(X)] + Sum(w, X \ {First(X)})
    <3> HIDE DEF w, F
    <3> QED BY <2>3, SumStep
  <2>5. X # {} /\ First(X) \in X
    BY <2>4 DEF First
  <2>6. X \ {First(X)} \notin F
    BY <2>2, <2>5
  <2>7. Sum(w, X \ {First(X)}) \in Nat /\ w[First(X)] \in Nat
    BY <2>5, <2>6
  <2> QED BY <2>4, <2>5, <2>7
<1>2. \A e \in S : w[e] = EdgeWeight(e) /\ w[e] \in Int
  OBVIOUS
<1> HIDE DEF w
<1>3. WeightOf(S) = Sum(w, S)
  BY <1>2, WeightIsSum
<1>4. ASSUME NEW e \in S
      PROVE  w[e] <= Sum(w, S)
  <2>1. Sum(w, S) = w[e] + Sum(w, S \ {e})
    BY <1>2, SumWithout
  <2>2. Sum(w, S \ {e}) \in Nat
    BY <1>1
  <2> QED BY <1>2, <2>1, <2>2
<1> QED BY <1>1, <1>2, <1>3, <1>4

\* Hence no distance is negative.
LEMMA DistanceIsNat ==
  ASSUME TreeState, Weights \subseteq Nat, NEW x \in Vertices, NEW y \in Vertices
  PROVE  /\ Distance(x, y) \in Nat
         /\ \A e \in Separating(TreeEdges, x, y) : EdgeWeight(e) <= Distance(x, y)
<1> DEFINE S == Separating(TreeEdges, x, y)
<1>1. IsFiniteSet(S) /\ \A e \in S : EdgeWeight(e) \in Nat
  BY TreeWeights, FS_Subset DEF Separating
<1> HIDE DEF S
<1> QED BY <1>1, WeightAtLeast, DistanceIs DEF S

\* Weights of neighbours.
LEMMA NeighborWeight ==
  ASSUME TreeState, NEW v \in Vertices, NEW u \in Neighbors(v)
  PROVE  /\ adjacency_matrix[v][u] \in Int
         /\ Weights \subseteq Nat => adjacency_matrix[v][u] \in Nat
<1>1. u \in Vertices /\ Edge(v, u) \in TreeEdges
  BY BehindIs, NeighborsAreVertices
<1> QED BY <1>1, TreeWeights

-----------------------------------------------------------------------------
(* The longest distance.                                                    *)

\* What the variables of a call for v that has visited C should be: the distance
\* to the farthest vertex, that to the second one in another branch, the longest
\* one in a branch; and what is returned of it, the longest one of all.
IsFarthest(m, v, C) ==
  /\ \E x \in Reach(v, C) : m = Distance(v, x)
  /\ \A x \in Reach(v, C) : Distance(v, x) <= m

IsSecond(m, v, C) ==
  /\ \/ m = 0
     \/ \E u \in C : \E x \in Behind(v, u), y \in Reach(v, C) \ Behind(v, u) :
          m = Smaller(Distance(v, x), Distance(v, y))
  /\ 0 <= m
  /\ \A u \in C : \A x \in Behind(v, u), y \in Reach(v, C) \ Behind(v, u) :
       Smaller(Distance(v, x), Distance(v, y)) <= m

IsInner(m, v, C) ==
  /\ m = 0 \/ \E u \in C : \E x, y \in Behind(v, u) : m = Distance(x, y)
  /\ 0 <= m
  /\ \A u \in C : \A x, y \in Behind(v, u) : Distance(x, y) <= m

IsSpan(m, v, C) ==
  /\ \E x, y \in Reach(v, C) : m = Distance(x, y)
  /\ \A x, y \in Reach(v, C) : Distance(x, y) <= m

AreVariables(r, v, C) ==
  /\ IsFarthest(r.farthest, v, C)
  /\ IsSecond(r.second_farthest, v, C)
  /\ IsInner(r.child_longest, v, C)

\* What Reach is made of.
LEMMA ReachFacts ==
  ASSUME TreeState, NEW v \in Vertices, NEW C \in SUBSET Neighbors(v)
  PROVE  /\ v \in Reach(v, C) /\ Reach(v, C) \in SUBSET Vertices
         /\ \A u \in C : /\ Behind(v, u) \subseteq Reach(v, C)
                         /\ Behind(v, u) \in SUBSET Vertices
                         /\ u \in Behind(v, u) /\ v \notin Behind(v, u)
         /\ \A x \in Reach(v, C) : x = v \/ \E u \in C : x \in Behind(v, u)
BY BehindIs DEF Reach

\* They are numbers.
LEMMA VariablesAreNat ==
  ASSUME TreeState, Weights \subseteq Nat, NEW v \in Vertices,
         NEW C \in SUBSET Neighbors(v), NEW m
  PROVE  /\ IsFarthest(m, v, C) => m \in Nat
         /\ IsSecond(m, v, C) => m \in Nat
         /\ IsInner(m, v, C) => m \in Nat
         /\ IsSpan(m, v, C) => m \in Nat
<1>1. \A x, y \in Vertices : Distance(x, y) \in Nat
  BY DistanceIsNat
<1>2. /\ Reach(v, C) \in SUBSET Vertices
      /\ \A u \in C : Behind(v, u) \in SUBSET Vertices
  BY ReachFacts
<1>3. IsFarthest(m, v, C) => m \in Nat
  BY <1>1, <1>2 DEF IsFarthest
<1>4. IsSecond(m, v, C) => m \in Nat
  BY <1>1, <1>2 DEF IsSecond, Smaller
<1>5. IsInner(m, v, C) => m \in Nat
  BY <1>1, <1>2 DEF IsInner
<1>6. IsSpan(m, v, C) => m \in Nat
  BY <1>1, <1>2 DEF IsSpan
<1> QED BY <1>3, <1>4, <1>5, <1>6

\* At most one number is each of them.
LEMMA VariablesUnique ==
  ASSUME TreeState, Weights \subseteq Nat, NEW v \in Vertices,
         NEW C \in SUBSET Neighbors(v), NEW m, NEW n
  PROVE  /\ IsFarthest(m, v, C) /\ IsFarthest(n, v, C) => m = n
         /\ IsSecond(m, v, C) /\ IsSecond(n, v, C) => m = n
         /\ IsInner(m, v, C) /\ IsInner(n, v, C) => m = n
<1>1. ASSUME IsFarthest(m, v, C), IsFarthest(n, v, C)
      PROVE  m = n
  <2>1. m \in Nat /\ n \in Nat
    BY <1>1, VariablesAreNat
  <2>2. m <= n /\ n <= m
    BY <1>1 DEF IsFarthest
  <2> QED BY <2>1, <2>2
<1>2. ASSUME IsSecond(m, v, C), IsSecond(n, v, C)
      PROVE  m = n
  <2>1. m \in Nat /\ n \in Nat
    BY <1>2, VariablesAreNat
  <2>2. m <= n /\ n <= m
    BY <1>2 DEF IsSecond
  <2> QED BY <2>1, <2>2
<1>3. ASSUME IsInner(m, v, C), IsInner(n, v, C)
      PROVE  m = n
  <2>1. m \in Nat /\ n \in Nat
    BY <1>3, VariablesAreNat
  <2>2. m <= n /\ n <= m
    BY <1>3 DEF IsInner
  <2> QED BY <2>1, <2>2
<1> QED BY <1>1, <1>2, <1>3

\* Before the loop.
LEMMA VariablesAtFirst ==
  ASSUME TreeState, NEW v \in Vertices
  PROVE  AreVariables([farthest |-> 0, second_farthest |-> 0, child_longest |-> 0],
                      v, {})
<1>1. Reach(v, {}) = {v} /\ Distance(v, v) = 0
  BY DistanceFacts DEF Reach
<1> QED BY <1>1 DEF AreVariables, IsFarthest, IsSecond, IsInner

\* The longest path is in a branch, or the two farthest vertices are its ends.
LEMMA LongestIsSpan ==
  ASSUME TreeState, Weights \subseteq Nat, NEW v \in Vertices,
         NEW C \in SUBSET Neighbors(v), NEW r, AreVariables(r, v, C)
  PROVE  IsSpan(Longest(r), v, C)
<1> DEFINE f == r.farthest
           s == r.second_farthest
           c == r.child_longest
<1>1. IsFarthest(f, v, C) /\ IsSecond(s, v, C) /\ IsInner(c, v, C)
  BY DEF AreVariables
<1> HIDE DEF f, s, c
<1>2. f \in Nat /\ s \in Nat /\ c \in Nat
  BY <1>1, VariablesAreNat
<1>3. /\ v \in Reach(v, C) /\ Reach(v, C) \in SUBSET Vertices
      /\ \A u \in C : /\ Behind(v, u) \subseteq Reach(v, C)
                      /\ Behind(v, u) \in SUBSET Vertices
      /\ \A x \in Reach(v, C) : x = v \/ \E u \in C : x \in Behind(v, u)
  BY ReachFacts
<1>4. \A x, y \in Vertices : /\ Distance(x, y) \in Nat
                             /\ Distance(x, y) = Distance(y, x)
  BY DistanceIsNat, DistanceFacts
<1>5. \A u \in C : \A x \in Behind(v, u), y \in Reach(v, C) \ Behind(v, u) :
        Distance(x, y) = Distance(v, x) + Distance(v, y)
  BY <1>3, DistanceAcross
<1>6. ASSUME NEW x \in Reach(v, C), NEW y \in Reach(v, C)
      PROVE  Distance(x, y) <= f + s \/ Distance(x, y) <= c
  <2>1. CASE x = v
    <3>1. Distance(x, y) <= f /\ Distance(x, y) \in Nat
      BY <1>1, <1>3, <1>4, <2>1 DEF IsFarthest
    <3> QED BY <1>2, <3>1
  <2>2. CASE x # v
    <3>1. PICK u \in C : x \in Behind(v, u)
      BY <1>3, <2>2
    <3>2. CASE y \in Behind(v, u)
      BY <1>1, <3>1, <3>2 DEF IsInner
    <3>3. CASE y \notin Behind(v, u)
      <4> DEFINE a == Distance(v, x)
                 b == Distance(v, y)
      <4>1. a \in Nat /\ b \in Nat
        BY <1>3, <1>4
      <4>2. Distance(x, y) = a + b
        BY <1>5, <3>1, <3>3
      <4>3. a <= f /\ b <= f /\ Smaller(a, b) <= s
        BY <1>1, <3>1, <3>3 DEF IsFarthest, IsSecond
      <4> HIDE DEF a, b
      <4> QED BY <1>2, <4>1, <4>2, <4>3 DEF Smaller
    <3> QED BY <3>2, <3>3
  <2> QED BY <2>1, <2>2
<1>7. CASE f + s < c
  <2>1. PICK u \in C : \E x, y \in Behind(v, u) : c = Distance(x, y)
    BY <1>1, <1>2, <1>7 DEF IsInner
  <2>2. \E x, y \in Reach(v, C) : c = Distance(x, y)
    BY <1>3, <2>1
  <2>3. \A x, y \in Reach(v, C) : Distance(x, y) <= c
    <3> SUFFICES ASSUME NEW x \in Reach(v, C), NEW y \in Reach(v, C)
                 PROVE  Distance(x, y) <= c
      OBVIOUS
    <3>1. Distance(x, y) \in Nat /\ (Distance(x, y) <= f + s \/ Distance(x, y) <= c)
      BY <1>3, <1>4, <1>6
    <3> QED BY <1>2, <1>7, <3>1
  <2>4. Longest(r) = c
    BY <1>7 DEF Longest, Larger, f, s, c
  <2> QED BY <2>2, <2>3, <2>4 DEF IsSpan
<1>8. CASE c <= f + s
  <2>1. ASSUME NEW x \in Reach(v, C), NEW y \in Reach(v, C)
        PROVE  Distance(x, y) \in Nat /\ Distance(x, y) <= f + s
    <3>1. Distance(x, y) \in Nat /\ (Distance(x, y) <= f + s \/ Distance(x, y) <= c)
      BY <1>3, <1>4, <1>6
    <3> QED BY <1>2, <1>8, <3>1
  <2>2. PICK z \in Reach(v, C) : f = Distance(v, z)
    BY <1>1 DEF IsFarthest
  <2>3. \E x, y \in Reach(v, C) : f + s = Distance(x, y)
    <3>1. CASE s = 0
      BY <1>2, <1>3, <2>2, <3>1
    <3>2. CASE s # 0
      <4>1. PICK u \in C : \E x \in Behind(v, u), y \in Reach(v, C) \ Behind(v, u) :
                s = Smaller(Distance(v, x), Distance(v, y))
        BY <1>1, <3>2 DEF IsSecond
      <4>2. PICK x \in Behind(v, u), y \in Reach(v, C) \ Behind(v, u) :
                s = Smaller(Distance(v, x), Distance(v, y))
        BY <4>1
      <4>3. Distance(v, x) \in Nat /\ Distance(v, y) \in Nat
        BY <1>3, <1>4
      <4>4. s <= Distance(v, x) /\ s <= Distance(v, y)
        BY <4>2, <4>3 DEF Smaller
      <4>5. CASE z \in Behind(v, u)
        <5>1. Distance(z, y) = f + Distance(v, y)
          BY <1>5, <2>2, <4>5
        <5>2. Distance(z, y) <= f + s
          BY <2>1
        <5>3. Distance(z, y) = f + s
          BY <1>2, <4>3, <4>4, <5>1, <5>2
        <5> QED BY <5>3
      <4>6. CASE z \notin Behind(v, u)
        <5>1. Distance(x, z) = Distance(v, x) + f
          BY <1>5, <2>2, <4>6
        <5>2. x \in Reach(v, C)
          BY <1>3
        <5>3. Distance(x, z) <= f + s
          BY <2>1, <5>2
        <5>4. Distance(x, z) = f + s
          BY <1>2, <4>3, <4>4, <5>1, <5>3
        <5> QED BY <5>2, <5>4
      <4> QED BY <4>5, <4>6
    <3> QED BY <3>1, <3>2
  <2>4. Longest(r) = f + s
    <3>1. ~(f + s < c)
      BY <1>2, <1>8
    <3> QED BY <3>1 DEF Longest, Larger, f, s, c
  <2> QED BY <2>1, <2>3, <2>4 DEF IsSpan
<1> QED BY <1>2, <1>7, <1>8

-----------------------------------------------------------------------------

\* An iteration of the loop.
LEMMA VariablesStep ==
  ASSUME TreeState, Weights \subseteq Nat, NEW v \in Vertices,
         NEW C \in SUBSET Neighbors(v), NEW u \in C, NEW r, NEW below,
         AreVariables(r, v, C \ {u}),
         AreVariables(below, u, Neighbors(u) \ {v})
  PROVE  AreVariables(Visited(r, below, adjacency_matrix[v][u]), v, C)
<1> DEFINE w == adjacency_matrix[v][u]
           R == C \ {u}
           f == r.farthest
           s == r.second_farthest
           c == r.child_longest
           far == below.farthest + w
           span == Longest(below)
           B == Behind(v, u)
<1>1. u \in Neighbors(v) /\ u \in Vertices /\ R \in SUBSET Neighbors(v)
      /\ Neighbors(u) \ {v} \in SUBSET Neighbors(u)
  BY NeighborsAreVertices
<1>2. B = Reach(u, Neighbors(u) \ {v})
  BY <1>1, BehindIsReach
<1>3. IsFarthest(f, v, R) /\ IsSecond(s, v, R) /\ IsInner(c, v, R)
  BY DEF AreVariables
<1>4. IsFarthest(below.farthest, u, Neighbors(u) \ {v})
      /\ IsSpan(span, u, Neighbors(u) \ {v})
  BY <1>1, LongestIsSpan DEF AreVariables
<1>5. f \in Nat /\ s \in Nat /\ c \in Nat /\ w \in Nat
      /\ below.farthest \in Nat /\ span \in Nat
  <2> HIDE DEF f, s, c, R, span
  <2>1. f \in Nat /\ s \in Nat /\ c \in Nat
    BY <1>1, <1>3, VariablesAreNat
  <2>2. below.farthest \in Nat /\ span \in Nat
    BY <1>1, <1>4, VariablesAreNat
  <2>3. w \in Nat
    BY <1>1, NeighborWeight
  <2> QED BY <2>1, <2>2, <2>3
<1>6. far \in Nat
  <2> HIDE DEF w
  <2> QED BY <1>5
<1>7. /\ Reach(v, C) = Reach(v, R) \cup B /\ Reach(v, R) \cap B = {}
      /\ Reach(v, C) \in SUBSET Vertices
  BY ReachStep
<1>8. /\ \A t \in C : Behind(v, t) \subseteq Reach(v, C)
      /\ \A t \in R : Behind(v, t) \subseteq Reach(v, R)
      /\ v \in Reach(v, R)
  BY <1>1, ReachFacts
<1>9. /\ \E x \in B : far = Distance(v, x)
      /\ \A x \in B : Distance(v, x) <= far
  <2>1. \A x \in B : Distance(v, x) = w + Distance(u, x) /\ Distance(u, x) \in Nat
    BY <1>1, <1>7, DistanceIntoBranch, DistanceIsNat
  <2>2. PICK x \in B : below.farthest = Distance(u, x)
    BY <1>2, <1>4 DEF IsFarthest
  <2>3. \A y \in B : Distance(u, y) <= below.farthest
    BY <1>2, <1>4 DEF IsFarthest
  <2> HIDE DEF w, B
  <2> QED BY <1>5, <2>1, <2>2, <2>3
<1>10. \A x \in Reach(v, C) : Distance(v, x) \in Nat
  BY <1>7, DistanceIsNat
<1> DEFINE d(x) == Distance(v, x)
<1> HIDE DEF w, R, f, s, c, far, span, B, d
<1>11. IsFarthest(Larger(f, far), v, C)
  <2>1. /\ \E x \in Reach(v, R) : f = Distance(v, x)
        /\ \A x \in Reach(v, R) : Distance(v, x) <= f
    BY <1>3 DEF IsFarthest
  <2>2. Larger(f, far) \in {f, far} /\ f <= Larger(f, far) /\ far <= Larger(f, far)
        /\ Larger(f, far) \in Nat
    BY <1>5, <1>6 DEF Larger
  <2>3. \E x \in Reach(v, C) : Larger(f, far) = Distance(v, x)
    BY <1>7, <1>9, <2>1, <2>2
  <2>4. \A x \in Reach(v, C) : Distance(v, x) <= Larger(f, far)
    <3> SUFFICES ASSUME NEW x \in Reach(v, C) PROVE Distance(v, x) <= Larger(f, far)
      OBVIOUS
    <3>1. Distance(v, x) <= f \/ Distance(v, x) <= far
      BY <1>7, <1>9, <2>1
    <3>2. Distance(v, x) \in Nat
      BY <1>10
    <3> QED BY <1>5, <1>6, <2>2, <3>1, <3>2
  <2> QED BY <2>3, <2>4 DEF IsFarthest
<1>12. IsInner(Larger(c, span), v, C)
  <2>1. /\ \E x, y \in B : span = Distance(x, y)
        /\ \A x, y \in B : Distance(x, y) <= span
    BY <1>2, <1>4 DEF IsSpan
  <2>2. /\ c = 0 \/ \E t \in R : \E x, y \in Behind(v, t) : c = Distance(x, y)
        /\ \A t \in R : \A x, y \in Behind(v, t) : Distance(x, y) <= c
    BY <1>3 DEF IsInner
  <2>3. Larger(c, span) \in {c, span} /\ c <= Larger(c, span) /\ span <= Larger(c, span)
        /\ Larger(c, span) \in Nat
    BY <1>5 DEF Larger
  <2>4. Larger(c, span) = 0
          \/ \E t \in C : \E x, y \in Behind(v, t) : Larger(c, span) = Distance(x, y)
    BY <2>1, <2>2, <2>3 DEF R, B
  <2>5. ASSUME NEW t \in C, NEW x \in Behind(v, t), NEW y \in Behind(v, t)
        PROVE  Distance(x, y) <= Larger(c, span)
    <3>1. x \in Vertices /\ y \in Vertices
      BY <1>7, <1>8
    <3>2. Distance(x, y) \in Nat
      BY <3>1, DistanceIsNat
    <3>3. Distance(x, y) <= c \/ Distance(x, y) <= span
      BY <2>1, <2>2 DEF R, B
    <3> QED BY <1>5, <2>3, <3>2, <3>3
  <2> QED BY <2>3, <2>4, <2>5 DEF IsInner
<1>13. ASSUME NEW t \in C, NEW x \in Behind(v, t), NEW y \in Reach(v, C) \ Behind(v, t)
       PROVE  \/ x \in B /\ y \in Reach(v, R)
              \/ y \in B /\ x \in Reach(v, R)
              \/ t \in R /\ y \in Reach(v, R) \ Behind(v, t)
  BY <1>7, <1>8 DEF R, B
<1>14. CASE far > f
  <2>1. \A x \in Reach(v, R) : Distance(v, x) <= f
    BY <1>3 DEF IsFarthest
  <2>2. ASSUME NEW t \in C, NEW x \in Behind(v, t), NEW y \in Reach(v, C) \ Behind(v, t)
        PROVE  Smaller(Distance(v, x), Distance(v, y)) <= f
    <3>1. Distance(v, x) \in Nat /\ Distance(v, y) \in Nat
      BY <1>8, <1>10
    <3>2. x \in Reach(v, R) \/ y \in Reach(v, R)
      BY <1>13
    <3>3. Distance(v, x) <= f \/ Distance(v, y) <= f
      BY <2>1, <3>2
    <3> QED BY <1>5, <3>1, <3>3 DEF Smaller
  <2>3. \E t \in C : \E x \in Behind(v, t), y \in Reach(v, C) \ Behind(v, t) :
          f = Smaller(Distance(v, x), Distance(v, y))
    <3>1. PICK y \in Reach(v, R) : f = Distance(v, y)
      BY <1>3 DEF IsFarthest
    <3>2. PICK x \in B : far = Distance(v, x)
      BY <1>9
    <3>3. f = Smaller(Distance(v, x), Distance(v, y))
      BY <1>5, <1>6, <1>14, <3>1, <3>2 DEF Smaller
    <3>4. y \in Reach(v, C) \ B
      BY <1>7
    <3> QED BY <3>3, <3>4 DEF B
  <2>4. IsSecond(f, v, C)
    BY <1>5, <2>2, <2>3 DEF IsSecond
  <2> QED BY <1>11, <1>12, <1>14, <2>4
           DEF AreVariables, Visited, f, s, c, far, span, w
<1>15. CASE ~(far > f)
  <2>1. Larger(s, far) \in {s, far} /\ s <= Larger(s, far) /\ far <= Larger(s, far)
        /\ Larger(s, far) \in Nat
    BY <1>5, <1>6 DEF Larger
  <2>2. /\ \/ s = 0
           \/ \E t \in R : \E x \in Behind(v, t), y \in Reach(v, R) \ Behind(v, t) :
                s = Smaller(Distance(v, x), Distance(v, y))
        /\ \A t \in R : \A x \in Behind(v, t), y \in Reach(v, R) \ Behind(v, t) :
             Smaller(Distance(v, x), Distance(v, y)) <= s
    BY <1>3 DEF IsSecond
  <2>3. ASSUME NEW t \in C, NEW x \in Behind(v, t), NEW y \in Reach(v, C) \ Behind(v, t)
        PROVE  Smaller(Distance(v, x), Distance(v, y)) <= Larger(s, far)
    <3> DEFINE a == Distance(v, x)
               b == Distance(v, y)
    <3>1. a \in Nat /\ b \in Nat
      BY <1>8, <1>10
    <3>2. a <= far \/ b <= far \/ Smaller(a, b) <= s
      BY <1>9, <1>13, <2>2
    <3> HIDE DEF a, b
    <3>3. Smaller(a, b) <= far \/ Smaller(a, b) <= s
      BY <1>6, <3>1, <3>2 DEF Smaller
    <3>4. Smaller(a, b) \in Nat
      BY <3>1 DEF Smaller
    <3>5. Smaller(a, b) <= Larger(s, far)
      BY <1>5, <1>6, <2>1, <3>3, <3>4
    <3> QED BY <3>5 DEF a, b
  <2>4. CASE Larger(s, far) = s
    <3>1. s = 0 \/ \E t \in C : \E x \in Behind(v, t), y \in Reach(v, C) \ Behind(v, t) :
             s = Smaller(Distance(v, x), Distance(v, y))
      BY <1>7, <2>2 DEF R
    <3>2. IsSecond(Larger(s, far), v, C)
      BY <2>1, <2>3, <2>4, <3>1 DEF IsSecond
    <3> QED BY <1>11, <1>12, <1>15, <3>2
             DEF AreVariables, Visited, f, s, c, far, span, w
  <2>5. CASE Larger(s, far) = far
    <3>1. PICK y \in Reach(v, R) : f = Distance(v, y)
      BY <1>3 DEF IsFarthest
    <3>2. PICK x \in B : far = Distance(v, x)
      BY <1>9
    <3>3. far = Smaller(Distance(v, x), Distance(v, y))
      BY <1>5, <1>6, <1>15, <3>1, <3>2 DEF Smaller
    <3>4. y \in Reach(v, C) \ B
      BY <1>7
    <3>5. \E t \in C : \E p \in Behind(v, t), q \in Reach(v, C) \ Behind(v, t) :
             far = Smaller(Distance(v, p), Distance(v, q))
      BY <3>3, <3>4 DEF B
    <3>6. IsSecond(Larger(s, far), v, C)
      BY <2>1, <2>3, <2>5, <3>5 DEF IsSecond
    <3> QED BY <1>11, <1>12, <1>15, <3>6
             DEF AreVariables, Visited, f, s, c, far, span, w
  <2> QED BY <2>1, <2>4, <2>5
<1> QED BY <1>14, <1>15

\* The numbers that are asked for exist.
Lengths == {Distance(p[1], p[2]) : p \in Vertices \X Vertices}

\* There are finitely many distances.
LEMMA LengthsAre ==
  ASSUME TreeState, Weights \subseteq Nat
  PROVE  /\ IsFiniteSet(Lengths) /\ Lengths \subseteq Nat
         /\ \A x, y \in Vertices : Distance(x, y) \in Lengths
<1> DEFINE d == [p \in Vertices \X Vertices |-> Distance(p[1], p[2])]
<1>1. Lengths = {d[p] : p \in Vertices \X Vertices}
  BY DEF Lengths
<1>2. IsFiniteSet(Vertices \X Vertices)
  BY EdgesFinite, FS_Product
<1>3. \A x, y \in Vertices : Distance(x, y) \in Nat /\ d[<<x, y>>] = Distance(x, y)
  BY DistanceIsNat
<1>4. Lengths \subseteq Nat
  <2> SUFFICES ASSUME NEW p \in Vertices \X Vertices PROVE Distance(p[1], p[2]) \in Nat
    BY DEF Lengths
  <2> QED BY <1>3
<1>5. \A x, y \in Vertices : Distance(x, y) \in Lengths
  BY <1>1, <1>3
<1> HIDE DEF d
<1>6. IsFiniteSet(Lengths)
  BY <1>1, <1>2, ImageFinite
<1> QED BY <1>4, <1>5, <1>6

\* So there is a greatest one.
LEMMA VariablesExist ==
  ASSUME TreeState, Weights \subseteq Nat, NEW v \in Vertices,
         NEW C \in SUBSET Neighbors(v)
  PROVE  /\ \E m : IsFarthest(m, v, C)
         /\ \E m : IsSecond(m, v, C)
         /\ \E m : IsInner(m, v, C)
<1>1. /\ IsFiniteSet(Lengths) /\ Lengths \subseteq Nat
      /\ \A x, y \in Vertices : Distance(x, y) \in Lengths
  BY LengthsAre
<1>2. /\ v \in Reach(v, C) /\ Reach(v, C) \in SUBSET Vertices
      /\ \A u \in C : Behind(v, u) \in SUBSET Vertices
  BY ReachFacts
<1>3. 0 \in Lengths
  <2>1. Distance(v, v) = 0
    BY DistanceFacts
  <2> QED BY <1>1, <2>1
<1>4. ASSUME NEW S \in SUBSET Lengths, S # {}
      PROVE  \E m \in S : \A y \in S : y <= m
  <2>1. IsFiniteSet(S)
    BY <1>1, FS_Subset
  <2>2. S \subseteq Int
    BY <1>1
  <2> QED BY <1>4, <2>1, <2>2, FiniteMax
<1>5. \E m : IsFarthest(m, v, C)
  <2> DEFINE S == {l \in Lengths : \E x \in Reach(v, C) : l = Distance(v, x)}
  <2>1. \A x \in Reach(v, C) : Distance(v, x) \in S
    BY <1>1, <1>2
  <2>2. S \in SUBSET Lengths /\ S # {}
    BY <1>2, <2>1
  <2>3. PICK m \in S : \A y \in S : y <= m
    <3> HIDE DEF S
    <3> QED BY <1>4, <2>2
  <2>4. IsFarthest(m, v, C)
    BY <2>1, <2>3 DEF IsFarthest
  <2> QED BY <2>4
<1>6. \E m : IsInner(m, v, C)
  <2> DEFINE S == {l \in Lengths :
                     l = 0 \/ \E u \in C : \E x, y \in Behind(v, u) : l = Distance(x, y)}
  <2>1. 0 \in S /\ \A u \in C : \A x, y \in Behind(v, u) : Distance(x, y) \in S
    BY <1>1, <1>2, <1>3
  <2>2. S \in SUBSET Lengths /\ S # {}
    BY <2>1
  <2>3. PICK m \in S : \A y \in S : y <= m
    <3> HIDE DEF S
    <3> QED BY <1>4, <2>2
  <2>4. IsInner(m, v, C)
    BY <2>1, <2>3 DEF IsInner
  <2> QED BY <2>4
<1>7. \E m : IsSecond(m, v, C)
  <2> DEFINE S == {l \in Lengths :
                     l = 0 \/ \E u \in C :
                       \E x \in Behind(v, u), y \in Reach(v, C) \ Behind(v, u) :
                         l = Smaller(Distance(v, x), Distance(v, y))}
  <2>1. 0 \in S /\ \A u \in C :
          \A x \in Behind(v, u), y \in Reach(v, C) \ Behind(v, u) :
            Smaller(Distance(v, x), Distance(v, y)) \in S
    <3>1. \A u \in C : \A x \in Behind(v, u), y \in Reach(v, C) \ Behind(v, u) :
            Smaller(Distance(v, x), Distance(v, y)) \in Lengths
      BY <1>1, <1>2 DEF Smaller
    <3> QED BY <1>3, <3>1
  <2>2. S \in SUBSET Lengths /\ S # {}
    BY <2>1
  <2>3. PICK m \in S : \A y \in S : y <= m
    <3> HIDE DEF S
    <3> QED BY <1>4, <2>2
  <2>4. IsSecond(m, v, C)
    BY <2>1, <2>3 DEF IsSecond
  <2> QED BY <2>4
<1> QED BY <1>5, <1>6, <1>7

-----------------------------------------------------------------------------

\* longest_and_farthest is the function that its definition says it is, and finds
\* these numbers.
NoneVisited == [farthest |-> 0, second_farthest |-> 0, child_longest |-> 0]

AfterVisits(f, v, C) ==
  IF C = {} THEN NoneVisited
  ELSE LET u == CHOOSE u \in C : TRUE IN
       Visited(f[v][C \ {u}], f[u][Neighbors(u) \ {v}], adjacency_matrix[v][u])

LongestEquation(f) ==
  f = [v \in Vertices |-> [C \in SUBSET Neighbors(v) |-> AfterVisits(f, v, C)]]

Variables(v, C) ==
  [farthest |-> CHOOSE m : IsFarthest(m, v, C),
   second_farthest |-> CHOOSE m : IsSecond(m, v, C),
   child_longest |-> CHOOSE m : IsInner(m, v, C)]

\* There is exactly one record of these numbers.
LEMMA VariablesRight ==
  ASSUME TreeState, Weights \subseteq Nat, NEW v \in Vertices,
         NEW C \in SUBSET Neighbors(v)
  PROVE  /\ AreVariables(Variables(v, C), v, C)
         /\ \A a, b, c :
              AreVariables([farthest |-> a, second_farthest |-> b, child_longest |-> c], v, C)
              => [farthest |-> a, second_farthest |-> b, child_longest |-> c] = Variables(v, C)
<1>1. AreVariables(Variables(v, C), v, C)
  <2>1. /\ IsFarthest(CHOOSE m : IsFarthest(m, v, C), v, C)
        /\ IsSecond(CHOOSE m : IsSecond(m, v, C), v, C)
        /\ IsInner(CHOOSE m : IsInner(m, v, C), v, C)
    BY VariablesExist
  <2> QED BY <2>1 DEF AreVariables, Variables
<1>2. ASSUME NEW a, NEW b, NEW c,
             AreVariables([farthest |-> a, second_farthest |-> b, child_longest |-> c], v, C)
      PROVE  [farthest |-> a, second_farthest |-> b, child_longest |-> c] = Variables(v, C)
  <2> DEFINE x == CHOOSE m : IsFarthest(m, v, C)
             y == CHOOSE m : IsSecond(m, v, C)
             z == CHOOSE m : IsInner(m, v, C)
  <2>1. IsFarthest(x, v, C) /\ IsSecond(y, v, C) /\ IsInner(z, v, C)
    BY <1>1 DEF AreVariables, Variables
  <2>2. IsFarthest(a, v, C) /\ IsSecond(b, v, C) /\ IsInner(c, v, C)
    BY <1>2 DEF AreVariables
  <2> HIDE DEF x, y, z
  <2>3. a = x /\ b = y /\ c = z
    BY <2>1, <2>2, VariablesUnique
  <2> QED BY <2>3 DEF Variables, x, y, z
<1> QED BY <1>1, <1>2

\* The step, of the numbers themselves.
LEMMA VariablesAfterVisit ==
  ASSUME TreeState, Weights \subseteq Nat, NEW v \in Vertices,
         NEW C \in SUBSET Neighbors(v), NEW u \in C
  PROVE  Visited(Variables(v, C \ {u}), Variables(u, Neighbors(u) \ {v}),
                 adjacency_matrix[v][u])
           = Variables(v, C)
<1>1. u \in Vertices /\ C \ {u} \in SUBSET Neighbors(v)
      /\ Neighbors(u) \ {v} \in SUBSET Neighbors(u)
  BY NeighborsAreVertices
<1> DEFINE r == Variables(v, C \ {u})
           below == Variables(u, Neighbors(u) \ {v})
           w == adjacency_matrix[v][u]
<1>2. AreVariables(r, v, C \ {u}) /\ AreVariables(below, u, Neighbors(u) \ {v})
  BY <1>1, VariablesRight
<1>3. AreVariables(Visited(r, below, w), v, C)
  <2> HIDE DEF r, below
  <2> QED BY <1>2, VariablesStep
<1>4. \E a, b, c : Visited(r, below, w)
                     = [farthest |-> a, second_farthest |-> b, child_longest |-> c]
  BY DEF Visited
<1> HIDE DEF r, below, w
<1>5. PICK a, b, c : Visited(r, below, w)
                       = [farthest |-> a, second_farthest |-> b, child_longest |-> c]
  BY <1>4
<1>6. Visited(r, below, w) = Variables(v, C)
  BY <1>3, <1>5, VariablesRight
<1> QED BY <1>6 DEF r, below, w

\* A function that gives them satisfies the equation.
LEMMA VariablesEquation ==
  ASSUME TreeState, Weights \subseteq Nat,
         NEW f, \A v \in Vertices : \A C \in SUBSET Neighbors(v) : f[v][C] = Variables(v, C),
         NEW v \in Vertices, NEW C \in SUBSET Neighbors(v)
  PROVE  AfterVisits(f, v, C) = Variables(v, C)
<1>1. CASE C = {}
  <2>1. AreVariables(NoneVisited, v, C)
    BY <1>1, VariablesAtFirst DEF NoneVisited
  <2>2. NoneVisited = Variables(v, C)
    BY <2>1, VariablesRight DEF NoneVisited
  <2> QED BY <1>1, <2>2 DEF AfterVisits
<1>2. CASE C # {}
  <2> DEFINE u == CHOOSE u \in C : TRUE
  <2>1. u \in C
    BY <1>2
  <2>2. AfterVisits(f, v, C)
          = Visited(f[v][C \ {u}], f[u][Neighbors(u) \ {v}], adjacency_matrix[v][u])
    BY <1>2 DEF AfterVisits
  <2> HIDE DEF u
  <2>3. u \in Vertices /\ C \ {u} \in SUBSET Neighbors(v)
        /\ Neighbors(u) \ {v} \in SUBSET Neighbors(u)
    BY <2>1, NeighborsAreVertices
  <2>4. f[v][C \ {u}] = Variables(v, C \ {u})
        /\ f[u][Neighbors(u) \ {v}] = Variables(u, Neighbors(u) \ {v})
    BY <2>3
  <2> QED BY <2>1, <2>2, <2>4, VariablesAfterVisit
<1> QED BY <1>1, <1>2

\* There is such a function, so longest_and_farthest is one.
LEMMA LongestIs ==
  ASSUME TreeState, Weights \subseteq Nat
  PROVE  LongestEquation(longest_and_farthest)
<1> DEFINE G == [v \in Vertices |-> [C \in SUBSET Neighbors(v) |-> Variables(v, C)]]
<1>1. \A v \in Vertices : \A C \in SUBSET Neighbors(v) : G[v][C] = Variables(v, C)
  OBVIOUS
<1>2. \A v \in Vertices : \A C \in SUBSET Neighbors(v) : AfterVisits(G, v, C) = Variables(v, C)
  <2> HIDE DEF G
  <2> QED BY <1>1, VariablesEquation
<1>3. G = [v \in Vertices |-> [C \in SUBSET Neighbors(v) |-> AfterVisits(G, v, C)]]
  <2> DEFINE H == [v \in Vertices |-> [C \in SUBSET Neighbors(v) |-> AfterVisits(G, v, C)]]
  <2>1. \A v \in Vertices : [C \in SUBSET Neighbors(v) |-> AfterVisits(G, v, C)]
                            = [C \in SUBSET Neighbors(v) |-> Variables(v, C)]
    <3> HIDE DEF G
    <3> QED BY <1>2
  <2>2. G = H
    <3> DEFINE a(v) == [C \in SUBSET Neighbors(v) |-> AfterVisits(G, v, C)]
               b(v) == [C \in SUBSET Neighbors(v) |-> Variables(v, C)]
    <3>1. \A v \in Vertices : a(v) = b(v)
      BY <2>1
    <3>2. G = [v \in Vertices |-> b(v)]
      OBVIOUS
    <3>3. H = [v \in Vertices |-> a(v)]
      OBVIOUS
    <3> HIDE DEF a, b, G, H
    <3> QED BY <3>1, <3>2, <3>3
  <2> QED BY <2>2
<1>4. LongestEquation(G)
  <2> HIDE DEF G
  <2> QED BY <1>3 DEF LongestEquation
<1>5. longest_and_farthest = CHOOSE f : LongestEquation(f)
  BY DEF longest_and_farthest, LongestEquation, AfterVisits, NoneVisited
<1> HIDE DEF G
<1> QED BY <1>4, <1>5

\* No other function satisfies the equation.
LEMMA LongestFinds ==
  ASSUME TreeState, Weights \subseteq Nat, NEW v \in Vertices,
         NEW C \in SUBSET Neighbors(v)
  PROVE  longest_and_farthest[v][C] = Variables(v, C)
<1> DEFINE f == longest_and_farthest
           G == [a \in Vertices |-> [A \in SUBSET Neighbors(a) |-> Variables(a, A)]]
<1>1. \A a \in Vertices : \A A \in SUBSET Neighbors(a) : f[a][A] = AfterVisits(f, a, A)
  <2>1. f = [a \in Vertices |-> [A \in SUBSET Neighbors(a) |-> AfterVisits(f, a, A)]]
    BY LongestIs DEF LongestEquation
  <2> DEFINE E(a, A) == AfterVisits(f, a, A)
  <2>2. f = [a \in Vertices |-> [A \in SUBSET Neighbors(a) |-> E(a, A)]]
    BY <2>1
  <2> HIDE DEF f, G, E
  <2>3. \A a \in Vertices : f[a] = [A \in SUBSET Neighbors(a) |-> E(a, A)]
    BY <2>2
  <2>4. \A a \in Vertices : \A A \in SUBSET Neighbors(a) : f[a][A] = E(a, A)
    BY <2>3
  <2> QED BY <2>4 DEF E
<1>2. \A a \in Vertices : \A A \in SUBSET Neighbors(a) : G[a][A] = Variables(a, A)
  OBVIOUS
<1> HIDE DEF f, G
<1>3. \A a \in Vertices : \A A \in SUBSET Neighbors(a) : G[a][A] = AfterVisits(G, a, A)
  BY <1>2, VariablesEquation
<1>4. ASSUME NEW a \in Vertices
      PROVE  f[a][{}] = G[a][{}]
  <2>1. {} \in SUBSET Neighbors(a)
    OBVIOUS
  <2>2. AfterVisits(f, a, {}) = NoneVisited /\ AfterVisits(G, a, {}) = NoneVisited
    BY DEF AfterVisits
  <2> QED BY <1>1, <1>3, <2>1, <2>2
<1>5. ASSUME NEW a \in Vertices, NEW A \in (SUBSET Neighbors(a)) \ {{}}
      PROVE  \E u \in A :
               f[a][A \ {u}] = G[a][A \ {u}]
                 /\ f[u][Neighbors(u) \ {a}] = G[u][Neighbors(u) \ {a}]
               => f[a][A] = G[a][A]
  <2> DEFINE u == CHOOSE u \in A : TRUE
  <2>1. u \in A
    OBVIOUS
  <2>2. /\ AfterVisits(f, a, A)
             = Visited(f[a][A \ {u}], f[u][Neighbors(u) \ {a}], adjacency_matrix[a][u])
        /\ AfterVisits(G, a, A)
             = Visited(G[a][A \ {u}], G[u][Neighbors(u) \ {a}], adjacency_matrix[a][u])
    BY DEF AfterVisits
  <2>3. f[a][A] = AfterVisits(f, a, A) /\ G[a][A] = AfterVisits(G, a, A)
    BY <1>1, <1>3
  <2> HIDE DEF u
  <2> QED BY <2>1, <2>2, <2>3
<1>6. f[v][C] = G[v][C]
  <2>1. AgreeStepwise(f, G)
    BY <1>4, <1>5 DEF AgreeStepwise
  <2> QED BY <2>1, Traversal
<1> QED BY <1>2, <1>6 DEF f

\* The distances as a set.
LEMMA RangeOfDistances ==
  Range(Distances) = {Distance(p[1], p[2]) : p \in Pairs}
<1>1. \A p \in Pairs : Distances[p] = Distance(p[1], p[2])
  BY DEF Distances
<1>2. DOMAIN Distances = Pairs
  BY DEF Distances
<1> QED BY <1>1, <1>2 DEF Range

\* Each pair of vertices has its distance.
LEMMA PairDistances ==
  ASSUME TreeState, NEW x \in Vertices, NEW y \in Vertices
  PROVE  x = y \/ Distance(x, y) \in Range(Distances)
<1>1. CASE x < y
  <2>1. <<x, y>> \in Pairs
    BY <1>1 DEF Pairs
  <2> QED BY <2>1, RangeOfDistances
<1>2. CASE y < x
  <2>1. <<y, x>> \in Pairs
    BY <1>2 DEF Pairs
  <2>2. Distance(x, y) = Distance(y, x)
    BY DistanceFacts
  <2> QED BY <2>1, <2>2, RangeOfDistances
<1>3. x < y \/ y < x \/ x = y
  BY GraphAssumption DEF Vertices
<1> QED BY <1>1, <1>2, <1>3

\* Hence what the call for vertex 0 returns is the longest distance.
LEMMA LongestRight ==
  ASSUME TreeState, N > 0, Weights \subseteq Nat
  PROVE  longest_distance = Max(Range(Distances) \cup {0})
<1> DEFINE S == Range(Distances) \cup {0}
<1>1. 0 \in Vertices
  BY GraphAssumption DEF Vertices
<1>2. Neighbors(0) \in SUBSET Neighbors(0)
  OBVIOUS
<1>3. longest_distance = Longest(Variables(0, Neighbors(0)))
  BY <1>1, <1>2, LongestFinds DEF longest_distance
<1>4. IsSpan(longest_distance, 0, Neighbors(0))
  BY <1>1, <1>2, <1>3, VariablesRight, LongestIsSpan
<1>5. Reach(0, Neighbors(0)) = Vertices
  BY <1>1, ReachAll
<1> DEFINE m == longest_distance
<1>6. m \in S
  <2>1. PICK x, y \in Vertices : m = Distance(x, y)
    BY <1>4, <1>5 DEF IsSpan
  <2>2. x = y => m = 0
    BY <2>1, DistanceFacts
  <2>3. x = y \/ Distance(x, y) \in Range(Distances)
    BY PairDistances
  <2> QED BY <2>1, <2>2, <2>3
<1>7. ASSUME NEW l \in S
      PROVE  l \in Int /\ l <= m
  <2>1. \A x, y \in Vertices : Distance(x, y) \in Int /\ Distance(x, y) <= m
    BY <1>4, <1>5, DistanceFacts DEF IsSpan
  <2>2. CASE l = 0
    <3>1. Distance(0, 0) = 0
      BY <1>1, DistanceFacts
    <3> QED BY <1>1, <2>1, <2>2, <3>1
  <2>3. CASE l # 0
    <3>1. PICK p \in Pairs : l = Distance(p[1], p[2])
      BY <2>3, RangeOfDistances
    <3> QED BY <2>1, <3>1 DEF Pairs
  <2> QED BY <2>2, <2>3
<1>8. S \subseteq Int /\ \A l \in S : l <= m
  BY <1>7
<1> HIDE DEF S, m
<1>9. Max(S) = m
  BY <1>6, <1>8, MaxIs
<1> QED BY <1>9 DEF S, m

-----------------------------------------------------------------------------
(* The shortest distance.                                                   *)

\* Some edge is on the way to another vertex.
LEMMA SomethingSeparates ==
  ASSUME TreeState, NEW x \in Vertices, NEW y \in Vertices, x # y
  PROVE  Separating(TreeEdges, x, y) # {}
<1>1. PICK u \in Neighbors(x) : y \in Behind(x, u)
  BY BranchesAll
<1> QED BY <1>1, WayIntoBranch

\* The lightest edge of the tree is the shortest distance, which no pair is below.
LEMMA ShortestRight ==
  ASSUME TreeState, N > 1, Weights \subseteq Nat
  PROVE  shortest_distance = Min(Range(Distances))
<1> DEFINE W == {EdgeWeight(e) : e \in TreeEdges}
           m == Min(W)
<1>1. 0 \in Vertices /\ 1 \in Vertices
  BY GraphAssumption DEF Vertices
<1>2. TreeEdges # {}
  <2>1. Separating(TreeEdges, 0, 1) # {}
    BY <1>1, SomethingSeparates
  <2> QED BY <2>1 DEF Separating
<1>3. IsFiniteSet(TreeEdges) /\ \A e \in TreeEdges : EdgeWeight(e) \in Nat
  BY TreeWeights
<1>4. W # {} /\ W \subseteq Nat
  BY <1>2, <1>3
<1>5. m \in W /\ \A y \in W : m <= y
  <2> HIDE DEF W
  <2> QED BY <1>4, MinOfNats
<1>6. PICK e \in TreeEdges : m = EdgeWeight(e)
  <2> HIDE DEF m
  <2> QED BY <1>5
<1> HIDE DEF m
<1>7. m \in Nat
  BY <1>3, <1>6
<1>8. m \in Range(Distances)
  <2>1. PICK a, b \in Vertices : /\ e = <<a, b>> /\ a \in Neighbors(b) /\ b \in Neighbors(a)
                                 /\ e = Edge(a, b) /\ e = Edge(b, a)
    BY EdgesBetween
  <2>2. b \in Behind(a, b) /\ a \notin Behind(a, b)
    BY <2>1, BehindIs
  <2>3. adjacency_matrix[a][b] = m
    BY <1>6, <2>1 DEF EdgeWeight
  <2>4. Distance(a, b) = adjacency_matrix[a][b] + Distance(b, b)
    BY <2>1, <2>2, DistanceIntoBranch
  <2>5. Distance(b, b) = 0
    BY DistanceFacts
  <2>6. Distance(a, b) = m
    BY <1>7, <2>3, <2>4, <2>5
  <2> QED BY <2>2, <2>6, PairDistances
<1>9. ASSUME NEW l \in Range(Distances)
      PROVE  l \in Int /\ m <= l
  <2>1. PICK p \in Pairs : l = Distance(p[1], p[2])
    BY RangeOfDistances
  <2>2. p[1] \in Vertices /\ p[2] \in Vertices /\ p[1] # p[2]
    BY GraphAssumption DEF Pairs, Vertices
  <2>3. PICK f \in Separating(TreeEdges, p[1], p[2]) : TRUE
    BY <2>2, SomethingSeparates
  <2>4. f \in TreeEdges
    BY DEF Separating
  <2>5. EdgeWeight(f) <= l /\ l \in Nat
    BY <2>1, <2>2, DistanceIsNat
  <2>6. m <= EdgeWeight(f) /\ EdgeWeight(f) \in Nat
    BY <1>3, <1>5, <2>4
  <2> QED BY <1>7, <2>5, <2>6
<1>10. Min(Range(Distances)) = m
  <2>1. Range(Distances) \subseteq Int /\ \A l \in Range(Distances) : m <= l
    BY <1>9
  <2> QED BY <1>8, <2>1, MinIs
<1>11. shortest_distance = m
  BY GraphAssumption DEF shortest_distance, m
<1> QED BY <1>10, <1>11

-----------------------------------------------------------------------------
(* The sum of the distances.                                                *)

\* The vertices below w for a traversal from v, and the number of those that a
\* call for v has met in these branches.
Below(v, w) ==
  {x \in Vertices : Separating(TreeEdges, v, w) \subseteq Separating(TreeEdges, v, x)}

Descendents(v, C) ==
  [w \in Reach(v, C) |-> Cardinality(Below(v, w) \cap Reach(v, C))]

\* From v all vertices are below v, and a branch is below like in its own call.
LEMMA BelowFacts ==
  ASSUME TreeState, NEW v \in Vertices, NEW u \in Neighbors(v)
  PROVE  /\ Below(v, v) = Vertices
         /\ \A w \in Behind(v, u) : Below(v, w) = Below(u, w) \cap Behind(v, u)
<1>1. Separating(TreeEdges, v, v) = {}
  BY SeparatingFacts
<1>2. Below(v, v) = Vertices
  BY <1>1 DEF Below
<1>3. /\ Behind(v, u) \in SUBSET Vertices /\ v \notin Behind(v, u)
      /\ \A x \in Vertices :
           Edge(v, u) \in Separating(TreeEdges, v, x) <=> x \in Behind(v, u)
  BY BehindIs
<1>4. \A x \in Behind(v, u) :
        /\ Edge(v, u) \notin Separating(TreeEdges, u, x)
        /\ Separating(TreeEdges, v, x) = {Edge(v, u)} \cup Separating(TreeEdges, u, x)
  BY WayIntoBranch
<1>5. ASSUME NEW w \in Behind(v, u), NEW x \in Vertices
      PROVE  x \in Below(v, w) <=> x \in Below(u, w) \cap Behind(v, u)
  <2>1. CASE x \in Behind(v, u)
    <3>1. Separating(TreeEdges, v, w) \subseteq Separating(TreeEdges, v, x)
            <=> Separating(TreeEdges, u, w) \subseteq Separating(TreeEdges, u, x)
      BY <1>4, <2>1
    <3> QED BY <2>1, <3>1 DEF Below
  <2>2. CASE x \notin Behind(v, u)
    <3>1. /\ Edge(v, u) \in Separating(TreeEdges, v, w)
          /\ Edge(v, u) \notin Separating(TreeEdges, v, x)
      BY <1>3, <2>2
    <3> QED BY <2>2, <3>1 DEF Below
  <2> QED BY <2>1, <2>2
<1>6. \A w \in Behind(v, u) : Below(v, w) = Below(u, w) \cap Behind(v, u)
  <2>1. \A w : Below(v, w) \subseteq Vertices
    BY DEF Below
  <2> QED BY <1>3, <1>5, <2>1
<1> QED BY <1>2, <1>6

\* An iteration counts the vertices of its branch.
LEMMA DescendentsStep ==
  ASSUME TreeState, NEW v \in Vertices, NEW C \in SUBSET Neighbors(v), NEW u \in C
  PROVE  Counted(Descendents(v, C \ {u}), Descendents(u, Neighbors(u) \ {v}), v, u)
           = Descendents(v, C)
<1> DEFINE R == C \ {u}
           B == Behind(v, u)
           here == Descendents(v, R)
           below == Descendents(u, Neighbors(u) \ {v})
<1>1. u \in Neighbors(v) /\ u \in Vertices /\ R \in SUBSET Neighbors(v)
  BY NeighborsAreVertices
<1>2. B = Reach(u, Neighbors(u) \ {v})
  BY <1>1, BehindIsReach
<1>3. /\ Reach(v, C) = Reach(v, R) \cup B /\ Reach(v, R) \cap B = {}
      /\ Reach(v, C) \in SUBSET Vertices /\ v \in Reach(v, R) /\ u \in B
  BY ReachStep
<1>4. \A x \in Reach(v, R) : x = v \/ \E t \in R : x \in Behind(v, t)
  BY <1>1, ReachFacts
<1>5. /\ here = [w \in Reach(v, R) |-> Cardinality(Below(v, w) \cap Reach(v, R))]
      /\ below = [w \in B |-> Cardinality(Below(u, w) \cap B)]
  BY <1>2 DEF Descendents
<1> HIDE DEF R, B, here, below
<1>6. Below(v, v) = Vertices /\ Below(u, u) = Vertices
  <2>1. \A x \in Vertices : Separating(TreeEdges, x, x) = {}
    BY SeparatingFacts
  <2> QED BY <1>1, <2>1 DEF Below
<1>7. here[v] + below[u] = Cardinality(Below(v, v) \cap Reach(v, C))
  <2>1. IsFiniteSet(Reach(v, R)) /\ IsFiniteSet(B)
    BY <1>3, EdgesFinite, FS_Subset
  <2>2. Cardinality(Reach(v, C)) = Cardinality(Reach(v, R)) + Cardinality(B)
    BY <1>3, <2>1, DisjointUnion
  <2>3. here[v] = Cardinality(Reach(v, R)) /\ below[u] = Cardinality(B)
    <3>1. Vertices \cap Reach(v, R) = Reach(v, R) /\ Vertices \cap B = B
      BY <1>3
    <3> QED BY <1>3, <1>5, <1>6, <3>1
  <2>4. Vertices \cap Reach(v, C) = Reach(v, C)
    BY <1>3
  <2> QED BY <1>6, <2>2, <2>3, <2>4
<1>8. ASSUME NEW w \in B
      PROVE  below[w] = Cardinality(Below(v, w) \cap Reach(v, C))
  <2>1. Below(v, w) = Below(u, w) \cap B
    BY <1>1, BelowFacts DEF B
  <2>2. Below(v, w) \cap Reach(v, C) = Below(u, w) \cap B
    BY <1>3, <2>1
  <2> QED BY <1>5, <2>2
<1>9. ASSUME NEW w \in Reach(v, R), w # v
      PROVE  here[w] = Cardinality(Below(v, w) \cap Reach(v, C))
  <2>1. PICK t \in R : w \in Behind(v, t)
    BY <1>4, <1>9
  <2>2. t \in Neighbors(v) /\ t # u
    BY <1>1 DEF R
  <2>3. Below(v, w) = Below(t, w) \cap Behind(v, t)
    BY <2>1, <2>2, BelowFacts
  <2>4. Behind(v, t) \cap B = {}
    BY <1>1, <2>2, BranchesDisjoint DEF B
  <2>5. Below(v, w) \cap Reach(v, C) = Below(v, w) \cap Reach(v, R)
    BY <1>3, <2>3, <2>4
  <2> QED BY <1>5, <2>5
<1>10. DOMAIN here \cup DOMAIN below = Reach(v, C) /\ DOMAIN below = B
  BY <1>3, <1>5
<1>11. \A w \in Reach(v, C) :
         (IF w = v THEN here[v] + below[u]
          ELSE IF w \in DOMAIN below THEN below[w] ELSE here[w])
         = Cardinality(Below(v, w) \cap Reach(v, C))
  BY <1>3, <1>7, <1>8, <1>9, <1>10
<1>12. Counted(here, below, v, u) = Descendents(v, C)
  BY <1>10, <1>11 DEF Counted, Descendents
<1> QED BY <1>12 DEF here, below, R

-----------------------------------------------------------------------------

\* set_descendents is the function that its definition says it is, and counts
\* these vertices.
AfterCounts(f, v, C) ==
  IF C = {} THEN [w \in {v} |-> 1]
  ELSE LET u == CHOOSE u \in C : TRUE IN
       Counted(f[v][C \ {u}], f[u][Neighbors(u) \ {v}], v, u)

CountsEquation(f) ==
  f = [v \in Vertices |-> [C \in SUBSET Neighbors(v) |-> AfterCounts(f, v, C)]]

\* A function that counts them satisfies the equation.
LEMMA DescendentsEquation ==
  ASSUME TreeState,
         NEW f, \A v \in Vertices : \A C \in SUBSET Neighbors(v) : f[v][C] = Descendents(v, C),
         NEW v \in Vertices, NEW C \in SUBSET Neighbors(v)
  PROVE  AfterCounts(f, v, C) = Descendents(v, C)
<1>1. CASE C = {}
  <2>1. Reach(v, C) = {v}
    BY <1>1 DEF Reach
  <2>2. Below(v, v) \cap {v} = {v}
    <3>1. Separating(TreeEdges, v, v) = {}
      BY SeparatingFacts
    <3> QED BY <3>1 DEF Below
  <2>3. Cardinality({v}) = 1
    BY FS_Singleton
  <2>4. \A w \in {v} : Cardinality(Below(v, w) \cap {v}) = 1
    BY <2>2, <2>3
  <2>5. Descendents(v, C) = [w \in {v} |-> 1]
    BY <2>1, <2>4 DEF Descendents
  <2> QED BY <1>1, <2>5 DEF AfterCounts
<1>2. CASE C # {}
  <2> DEFINE u == CHOOSE u \in C : TRUE
  <2>1. u \in C
    BY <1>2
  <2>2. AfterCounts(f, v, C) = Counted(f[v][C \ {u}], f[u][Neighbors(u) \ {v}], v, u)
    BY <1>2 DEF AfterCounts
  <2> HIDE DEF u
  <2>3. u \in Vertices /\ C \ {u} \in SUBSET Neighbors(v)
        /\ Neighbors(u) \ {v} \in SUBSET Neighbors(u)
    BY <2>1, NeighborsAreVertices
  <2>4. f[v][C \ {u}] = Descendents(v, C \ {u})
        /\ f[u][Neighbors(u) \ {v}] = Descendents(u, Neighbors(u) \ {v})
    BY <2>3
  <2> QED BY <2>1, <2>2, <2>4, DescendentsStep
<1> QED BY <1>1, <1>2

\* There is such a function, so set_descendents is one.
LEMMA DescendentsIs ==
  ASSUME TreeState
  PROVE  CountsEquation(set_descendents)
<1> DEFINE a(v) == [C \in SUBSET Neighbors(v) |-> Descendents(v, C)]
           G == [v \in Vertices |-> a(v)]
           b(v) == [C \in SUBSET Neighbors(v) |-> AfterCounts(G, v, C)]
<1>1. \A v \in Vertices : \A C \in SUBSET Neighbors(v) : G[v][C] = Descendents(v, C)
  OBVIOUS
<1>2. \A v \in Vertices : a(v) = b(v)
  <2> HIDE DEF G
  <2>1. \A v \in Vertices : \A C \in SUBSET Neighbors(v) :
          AfterCounts(G, v, C) = Descendents(v, C)
    BY <1>1, DescendentsEquation
  <2> QED BY <2>1
<1>3. G = [v \in Vertices |-> b(v)]
  <2>1. G = [v \in Vertices |-> a(v)]
    OBVIOUS
  <2> HIDE DEF G, a, b
  <2> QED BY <1>2, <2>1
<1>4. CountsEquation(G)
  <2> HIDE DEF G
  <2> QED BY <1>3 DEF CountsEquation
<1>5. set_descendents = CHOOSE f : CountsEquation(f)
  BY DEF set_descendents, CountsEquation, AfterCounts
<1> HIDE DEF G
<1> QED BY <1>4, <1>5

\* No other function satisfies the equation.
LEMMA DescendentsFound ==
  ASSUME TreeState, NEW v \in Vertices, NEW C \in SUBSET Neighbors(v)
  PROVE  set_descendents[v][C] = Descendents(v, C)
<1> DEFINE f == set_descendents
           G == [a \in Vertices |-> [A \in SUBSET Neighbors(a) |-> Descendents(a, A)]]
<1>1. \A a \in Vertices : \A A \in SUBSET Neighbors(a) : f[a][A] = AfterCounts(f, a, A)
  <2>1. f = [a \in Vertices |-> [A \in SUBSET Neighbors(a) |-> AfterCounts(f, a, A)]]
    BY DescendentsIs DEF CountsEquation
  <2> DEFINE E(a, A) == AfterCounts(f, a, A)
  <2>2. f = [a \in Vertices |-> [A \in SUBSET Neighbors(a) |-> E(a, A)]]
    BY <2>1
  <2> HIDE DEF f, G, E
  <2>3. \A a \in Vertices : f[a] = [A \in SUBSET Neighbors(a) |-> E(a, A)]
    BY <2>2
  <2>4. \A a \in Vertices : \A A \in SUBSET Neighbors(a) : f[a][A] = E(a, A)
    BY <2>3
  <2> QED BY <2>4 DEF E
<1>2. \A a \in Vertices : \A A \in SUBSET Neighbors(a) : G[a][A] = Descendents(a, A)
  OBVIOUS
<1> HIDE DEF f, G
<1>3. \A a \in Vertices : \A A \in SUBSET Neighbors(a) : G[a][A] = AfterCounts(G, a, A)
  BY <1>2, DescendentsEquation
<1>4. ASSUME NEW a \in Vertices
      PROVE  f[a][{}] = G[a][{}]
  <2>1. {} \in SUBSET Neighbors(a)
    OBVIOUS
  <2>2. AfterCounts(f, a, {}) = AfterCounts(G, a, {})
    BY DEF AfterCounts
  <2> QED BY <1>1, <1>3, <2>1, <2>2
<1>5. ASSUME NEW a \in Vertices, NEW A \in (SUBSET Neighbors(a)) \ {{}}
      PROVE  \E u \in A :
               f[a][A \ {u}] = G[a][A \ {u}]
                 /\ f[u][Neighbors(u) \ {a}] = G[u][Neighbors(u) \ {a}]
               => f[a][A] = G[a][A]
  <2> DEFINE u == CHOOSE u \in A : TRUE
  <2>1. u \in A
    OBVIOUS
  <2>2. /\ AfterCounts(f, a, A) = Counted(f[a][A \ {u}], f[u][Neighbors(u) \ {a}], a, u)
        /\ AfterCounts(G, a, A) = Counted(G[a][A \ {u}], G[u][Neighbors(u) \ {a}], a, u)
    BY DEF AfterCounts
  <2>3. f[a][A] = AfterCounts(f, a, A) /\ G[a][A] = AfterCounts(G, a, A)
    BY <1>1, <1>3
  <2> HIDE DEF u
  <2> QED BY <2>1, <2>2, <2>3
<1>6. f[v][C] = G[v][C]
  <2>1. AgreeStepwise(f, G)
    BY <1>4, <1>5 DEF AgreeStepwise
  <2> QED BY <2>1, Traversal
<1> QED BY <1>2, <1>6 DEF f

\* The end of an edge that is away from the root has the vertices on its side below
\* it, and the other end has more.
LEMMA BelowEnds ==
  ASSUME TreeState, NEW r \in Vertices, NEW p \in Vertices, NEW q \in Neighbors(p),
         NEW A, A = Away(TreeEdges, Edge(p, q), r), q \in A
  PROVE  Below(r, q) = A /\ A \subseteq Below(r, p)
<1> DEFINE e == Edge(p, q)
           B == Behind(p, q)
<1>1. /\ q \in Vertices /\ e \in TreeEdges /\ B \in SUBSET Vertices
      /\ p \notin B /\ q \in B
      /\ \A x, y \in Vertices :
           e \in Separating(TreeEdges, x, y) <=> ~(x \in B <=> y \in B)
  BY BehindIs, NeighborsAreVertices
<1>2. /\ A \in SUBSET Vertices
      /\ \A x \in Vertices : x \in A <=> e \in Separating(TreeEdges, r, x)
  BY DEF Away
<1> HIDE DEF e, B
<1>3. r \notin B /\ A = B
  BY <1>1, <1>2
<1>4. \A x \in B : /\ e \in Separating(TreeEdges, p, x)
                   /\ Separating(TreeEdges, r, x)
                        = Separating(TreeEdges, p, x) \cup Separating(TreeEdges, p, r)
  <2> SUFFICES ASSUME NEW x \in B
               PROVE  /\ e \in Separating(TreeEdges, p, x)
                      /\ Separating(TreeEdges, r, x)
                           = Separating(TreeEdges, p, x) \cup Separating(TreeEdges, p, r)
    OBVIOUS
  <2>1. Separating(TreeEdges, x, r)
          = Separating(TreeEdges, p, x) \cup Separating(TreeEdges, p, r)
    BY <1>3, WayOutOfBranch DEF B
  <2>2. Separating(TreeEdges, x, r) = Separating(TreeEdges, r, x)
    BY <1>1, SeparatingFacts
  <2> QED BY <1>1, <2>1, <2>2
<1>5. Separating(TreeEdges, p, q) = {e}
  <2>1. Separating(TreeEdges, q, q) = {}
    BY <1>1, SeparatingFacts
  <2>2. Separating(TreeEdges, p, q) = {e} \cup Separating(TreeEdges, q, q)
    BY <1>1, WayIntoBranch DEF e, B
  <2> QED BY <2>1, <2>2
<1>6. Separating(TreeEdges, r, q) = {e} \cup Separating(TreeEdges, p, r)
  BY <1>1, <1>4, <1>5
<1>7. Separating(TreeEdges, p, r) = Separating(TreeEdges, r, p)
  BY SeparatingFacts
<1>8. ASSUME NEW x \in Vertices
      PROVE  x \in Below(r, q) <=> x \in A
  <2>1. x \in A => x \in Below(r, q)
    BY <1>3, <1>4, <1>6 DEF Below
  <2>2. x \in Below(r, q) => x \in A
    BY <1>2, <1>6 DEF Below
  <2> QED BY <2>1, <2>2
<1>9. A \subseteq Below(r, p)
  BY <1>1, <1>3, <1>4, <1>7 DEF Below
<1>10. Below(r, q) \subseteq Vertices
  BY DEF Below
<1> QED BY <1>2, <1>8, <1>9, <1>10

-----------------------------------------------------------------------------

\* The pairs that an edge separates.
SeparatedBy(e) == {p \in Pairs : e \in Separating(TreeEdges, p[1], p[2])}

\* They are as many as the code says.
LEMMA SeparatedPairs ==
  ASSUME TreeState, NEW r \in Vertices, NEW e \in TreeEdges
  PROVE  LET m == Cardinality(Away(TreeEdges, e, r)) IN
         m \in Nat /\ Cardinality(SeparatedBy(e)) = m * (N - m)
<1> DEFINE A == Away(TreeEdges, e, r)
           m == Cardinality(A)
           O == Vertices \ A
           S == SeparatedBy(e)
           f == [q \in A \X O |-> IF q[1] < q[2] THEN q ELSE <<q[2], q[1]>>]
<1>1. /\ A \in SUBSET Vertices
      /\ \A x, y \in Vertices :
           e \in Separating(TreeEdges, x, y) <=> ~(x \in A <=> y \in A)
  BY AwayIs DEF TreeState
<1>2. IsFiniteSet(Vertices) /\ Cardinality(Vertices) = N
  <2>1. 0 \in Int /\ N - 1 \in Int /\ N \in Nat
    BY GraphAssumption
  <2>2. Cardinality(0..(N - 1)) = IF 0 > N - 1 THEN 0 ELSE (N - 1) - 0 + 1
    BY <2>1, FS_Interval
  <2> QED BY <2>1, <2>2, EdgesFinite DEF Vertices
<1> HIDE DEF A
<1>3. IsFiniteSet(A) /\ m \in Nat /\ IsFiniteSet(O) /\ Cardinality(O) = N - m
  <2>1. IsFiniteSet(A)
    BY <1>1, <1>2, FS_Subset
  <2>2. IsFiniteSet(O) /\ Cardinality(O) = Cardinality(Vertices) - Cardinality(Vertices \cap A)
    BY <1>2, FS_Difference
  <2>3. Vertices \cap A = A
    BY <1>1
  <2> QED BY <1>2, <2>1, <2>2, <2>3, FS_CardinalityType
<1>4. IsFiniteSet(A \X O) /\ Cardinality(A \X O) = m * (N - m)
  <2> HIDE DEF O
  <2> QED BY <1>3, FS_Product
<1>5. \A x, y \in Vertices : x # y => x < y \/ y < x
  BY GraphAssumption DEF Vertices
<1>6. \A x, y \in Vertices : ~(x < y /\ y < x)
  BY GraphAssumption DEF Vertices
<1>7. f \in [A \X O -> S]
  <2> SUFFICES ASSUME NEW x \in A, NEW y \in O
               PROVE  (IF x < y THEN <<x, y>> ELSE <<y, x>>) \in S
    OBVIOUS
  <2>1. x \in Vertices /\ y \in Vertices /\ x # y
    BY <1>1
  <2>2. e \in Separating(TreeEdges, x, y) /\ e \in Separating(TreeEdges, y, x)
    BY <1>1, <2>1
  <2>3. CASE x < y
    BY <2>1, <2>2, <2>3 DEF SeparatedBy, Pairs
  <2>4. CASE ~(x < y)
    <3>1. y < x
      BY <1>5, <2>1, <2>4
    <3> QED BY <2>1, <2>2, <2>4, <3>1 DEF SeparatedBy, Pairs
  <2> QED BY <2>3, <2>4
<1>8. ASSUME NEW p \in A \X O, NEW q \in A \X O, f[p] = f[q]
      PROVE  p = q
  <2>1. PICK a \in A, b \in O : p = <<a, b>>
    OBVIOUS
  <2>2. PICK c \in A, d \in O : q = <<c, d>>
    OBVIOUS
  <2>3. /\ f[p] = IF a < b THEN <<a, b>> ELSE <<b, a>>
        /\ f[q] = IF c < d THEN <<c, d>> ELSE <<d, c>>
    BY <2>1, <2>2
  <2>4. a # d /\ b # c
    OBVIOUS
  <2> HIDE DEF f
  <2> QED BY <1>8, <2>1, <2>2, <2>3, <2>4
<1>9. ASSUME NEW s \in S
      PROVE  \E q \in A \X O : f[q] = s
  <2>1. PICK x, y \in Vertices : s = <<x, y>> /\ x < y
    BY DEF SeparatedBy, Pairs
  <2>2. ~(x \in A <=> y \in A)
    BY <1>1, <2>1 DEF SeparatedBy
  <2>3. CASE x \in A
    <3>1. <<x, y>> \in A \X O
      BY <2>2, <2>3
    <3>2. f[<<x, y>>] = s
      BY <2>1, <3>1
    <3> QED BY <3>1, <3>2
  <2>4. CASE y \in A
    <3>1. <<y, x>> \in A \X O
      BY <2>2, <2>4
    <3>2. ~(y < x)
      BY <1>6, <2>1
    <3>3. f[<<y, x>>] = s
      BY <2>1, <3>1, <3>2
    <3> QED BY <3>1, <3>3
  <2> QED BY <2>2, <2>3, <2>4
<1>10. ExistsBijection(A \X O, S)
  <2> HIDE DEF f, O, S
  <2>1. f \in Injection(A \X O, S) /\ f \in Surjection(A \X O, S)
    BY <1>7, <1>8, <1>9 DEF Injection, Surjection, IsInjective
  <2> QED BY <2>1 DEF ExistsBijection, Bijection
<1>11. Cardinality(S) = Cardinality(A \X O)
  <2> HIDE DEF O, S
  <2> QED BY <1>4, <1>10, FS_Bijection
<1> QED BY <1>3, <1>4, <1>11 DEF A

\* What descendents says of the ends of an edge.
LEMMA PathsThroughIs ==
  ASSUME TreeState, NEW e \in TreeEdges
  PROVE  PathsThrough(e) = Cardinality(SeparatedBy(e)) * EdgeWeight(e)
<1> DEFINE r == Min(members)
           A == Away(TreeEdges, e, r)
           m == Cardinality(A)
<1>1. PICK a, b \in Vertices : /\ e = <<a, b>> /\ a \in Neighbors(b) /\ b \in Neighbors(a)
                               /\ e = Edge(a, b) /\ e = Edge(b, a)
  BY EdgesBetween
<1>2. r \in Vertices
  BY <1>1, MinVertex DEF TreeState
<1> HIDE DEF r
<1>3. descendents = Descendents(r, Neighbors(r))
  BY <1>2, DescendentsFound DEF descendents, r
<1>4. \A w \in Vertices : descendents[w] = Cardinality(Below(r, w))
  <2>1. Reach(r, Neighbors(r)) = Vertices
    BY <1>2, ReachAll
  <2>2. \A w : Below(r, w) \cap Vertices = Below(r, w)
    BY DEF Below
  <2> QED BY <1>3, <2>1, <2>2 DEF Descendents
<1>5. A \in SUBSET Vertices /\ Crosses(e, A)
  BY <1>2, AwayIs DEF TreeState
<1>6. ASSUME NEW p \in Vertices, NEW q \in Vertices, q \in Neighbors(p), e = Edge(p, q),
             q \in A
      PROVE  descendents[q] = m /\ m <= descendents[p] /\ descendents[p] \in Nat
  <2>1. Below(r, q) = A /\ A \subseteq Below(r, p)
    <3> HIDE DEF A
    <3>1. A = Away(TreeEdges, Edge(p, q), r)
      BY <1>6 DEF A
    <3> QED BY <1>2, <1>6, <3>1, BelowEnds
  <2> HIDE DEF A
  <2>2. IsFiniteSet(Below(r, p))
    BY EdgesFinite, FS_Subset DEF Below
  <2>3. Cardinality(A) <= Cardinality(Below(r, p)) /\ Cardinality(Below(r, p)) \in Nat
    BY <2>1, <2>2, FS_Subset, FS_CardinalityType
  <2> QED BY <1>4, <2>1, <2>3
<1>7. m \in Nat /\ Cardinality(SeparatedBy(e)) = m * (N - m)
  BY <1>2, SeparatedPairs
<1>8. Smaller(descendents[e[1]], descendents[e[2]]) = m
  <2>1. e[1] = a /\ e[2] = b
    BY <1>1
  <2>2. CASE b \in A
    <3>1. descendents[b] = m /\ m <= descendents[a] /\ descendents[a] \in Nat
      BY <1>1, <1>6, <2>2
    <3> HIDE DEF m
    <3> QED BY <1>7, <2>1, <3>1 DEF Smaller
  <2>3. CASE a \in A
    <3>1. descendents[a] = m /\ m <= descendents[b] /\ descendents[b] \in Nat
      BY <1>1, <1>6, <2>3
    <3> HIDE DEF m
    <3> QED BY <1>7, <2>1, <3>1 DEF Smaller
  <2>4. a \in A \/ b \in A
    BY <1>5, <2>1 DEF Crosses
  <2> QED BY <2>2, <2>3, <2>4
<1>9. PathsThrough(e) = m * (N - m) * EdgeWeight(e)
  BY <1>8 DEF PathsThrough
<1> HIDE DEF m
<1> QED BY <1>7, <1>9

\* Counting each edge for every pair that it separates gives the sum of the distances.
LEMMA SumRight ==
  ASSUME TreeState
  PROVE  distances_sum = SumFunction(Distances)
<1> DEFINE T == TreeEdges
           P == Pairs
           w == [e \in T |-> EdgeWeight(e)]
           R == [e \in T |-> SeparatedBy(e)]
           through == [e \in T |-> PathsThrough(e)]
<1>1. IsFiniteSet(P) /\ IsFiniteSet(T)
  <2>1. IsFiniteSet(Vertices \X Vertices)
    BY EdgesFinite, FS_Product
  <2> QED BY <2>1, TreeWeights, FS_Subset DEF Pairs
<1>2. \A e \in T : w[e] = EdgeWeight(e) /\ w[e] \in Int /\ R[e] = SeparatedBy(e)
  BY TreeWeights
<1> HIDE DEF w, R
<1>3. ASSUME NEW p \in P
      PROVE  Distances[p] = Sum(w, {e \in T : p \in R[e]})
  <2> DEFINE X == {e \in T : p \in R[e]}
  <2>1. X = Separating(T, p[1], p[2])
    <3>1. \A e \in T : p \in R[e] <=> e \in Separating(T, p[1], p[2])
      BY <1>2 DEF SeparatedBy
    <3> QED BY <3>1 DEF Separating
  <2>2. Distances[p] = WeightOf(X)
    BY <2>1, DistanceIs DEF Distances
  <2>3. IsFiniteSet(X) /\ \A e \in X : w[e] = EdgeWeight(e)
    BY <1>1, <1>2, FS_Subset
  <2> HIDE DEF X
  <2>4. WeightOf(X) = Sum(w, X)
    BY <2>3, WeightIsSum
  <2> QED BY <2>2, <2>4 DEF X
<1>4. ASSUME NEW e \in T
      PROVE  through[e] = w[e] * Cardinality(P \cap R[e])
  <2>1. P \cap R[e] = SeparatedBy(e)
    BY <1>2 DEF SeparatedBy
  <2>2. Cardinality(SeparatedBy(e)) \in Nat
    <3>1. IsFiniteSet(SeparatedBy(e))
      BY <1>1, FS_Subset DEF SeparatedBy
    <3> QED BY <3>1, FS_CardinalityType
  <2>3. through[e] = Cardinality(SeparatedBy(e)) * EdgeWeight(e)
    BY PathsThroughIs
  <2> HIDE DEF through, P
  <2> QED BY <1>2, <2>1, <2>2, <2>3
<1>5. DOMAIN Distances = P /\ DOMAIN through = T
  BY DEF Distances
<1>6. distances_sum = Sum(through, T) /\ SumFunction(Distances) = Sum(Distances, P)
  <2>1. distances_sum = SumFunction(through)
    BY DEF distances_sum
  <2> HIDE DEF through, P, T
  <2> QED BY <1>5, <2>1, SumFunctionIs
<1> HIDE DEF through, P, T
<1>7. Sum(Distances, P) = Sum(through, T)
  <2>1. \A e \in T : w[e] \in Int
    BY <1>2
  <2>2. RowsAre(Distances, P, w, R, T)
    BY <1>3 DEF RowsAre
  <2>3. ColumnsAre(through, P, w, R, T)
    BY <1>4 DEF ColumnsAre
  <2> QED BY ONLY <1>1, <2>1, <2>2, <2>3, SumTwice
<1> QED BY <1>6, <1>7

-----------------------------------------------------------------------------
(* What an algorithm returns is a tree if it joins all vertices.            *)

\* The invariant says all that the traversals need.
LEMMA ReturnedIsTree ==
  ASSUME MstInv, stage = "tree", AllJoined(TreeEdges)
  PROVE  TreeState
<1>1. /\ IInv /\ TreeInv /\ CutOptimal(TreeEdges) /\ members = Vertices
      /\ \A v \in Vertices : adjacency_list[v][v] = 0
  BY DEF MstInv, SpanningInv, NoLoops
<1>2. /\ Consistent(adjacency_list, members) /\ adjacency_list \in Lists
      /\ TreeEdges \subseteq get_edges
  BY <1>1, ConsistentTree
<1>3. \A e \in TreeEdges :
        /\ e[1] \in Vertices /\ e[2] \in Vertices /\ e = <<e[1], e[2]>>
        /\ e[1] < e[2] /\ e[2] \in Neighbors(e[1])
  BY <1>1 DEF TreeEdges
<1>4. Tree(TreeEdges)
  <2>1. \A e \in TreeEdges : \E S \in SUBSET Vertices :
          {f \in TreeEdges : Crosses(f, S)} = {e}
    BY <1>1 DEF CutOptimal
  <2> QED BY <1>3, <2>1 DEF Tree
<1>5. ASSUME NEW v \in Vertices, NEW u \in Vertices, u \in Neighbors(v)
      PROVE  v \in Neighbors(u) /\ u # v /\ Edge(v, u) \in TreeEdges
  <2>1. adjacency_list[v][u] > 0 /\ adjacency_matrix[v][u] # no_edge
    BY <1>5 DEF Neighbors
  <2>2. adjacency_list[u][v] > 0 /\ adjacency_matrix[u][v] # no_edge
    BY <1>1, <1>2, <2>1 DEF Consistent, IInv, Symmetric
  <2>3. v \in Neighbors(u)
    BY <2>2 DEF Neighbors
  <2>4. u # v
    BY <1>1, <2>1
  <2>5. v < u \/ u < v
    BY <2>4, GraphAssumption DEF Vertices
  <2> QED BY <1>1, <1>5, <2>3, <2>4, <2>5 DEF Edge, TreeEdges
<1>6. \A e \in TreeEdges : e[2] \in Neighbors(e[1]) /\ e[1] \in Neighbors(e[2])
  BY <1>3, <1>5
<1> QED BY <1>1, <1>2, <1>4, <1>5, <1>6 DEF TreeState

\* is_connected, which visits the neighbours of visited vertices in the order of the
\* matrix, tells whether the graph is connected; and of every tree that Kruskal or
\* Prim returns, the longest distance, the shortest distance and the sum that the
\* average is computed from are what the distances between all pairs of vertices
\* give, although the code never computes these, and from whichever root it starts.
THEOREM UtilitiesHold == MstSpec => []UtilitiesRight
<1>1. MstInv => UtilitiesRight
  <2> SUFFICES ASSUME MstInv PROVE UtilitiesRight
    OBVIOUS
  <2>1. is_connected = AllJoined(get_edges)
    BY ConnectedRight DEF MstInv
  <2>2. ASSUME stage = "tree", AllJoined(TreeEdges), N > 0
        PROVE  /\ Weights \subseteq Nat
                    => longest_distance = Max(Range(Distances) \cup {0})
               /\ Weights \subseteq Nat /\ N > 1
                    => shortest_distance = Min(Range(Distances))
               /\ distances_sum = SumFunction(Distances)
    <3>1. TreeState
      BY <2>2, ReturnedIsTree
    <3> QED BY <2>2, <3>1, LongestRight, ShortestRight, SumRight
  <2> QED BY <2>1, <2>2 DEF UtilitiesRight
<1> QED BY <1>1, InvariantHolds, PTL

=============================================================================
