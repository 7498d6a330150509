--------------------------- MODULE MCGraphServer ---------------------------
(* Small instances of GraphServer.                                          *)
EXTENDS GraphServer, TLC

CONSTANTS h1, h2, h3

\* The calls are alike.
HandlerSymmetry == Permutations(Handlers)

NoEdgeWeight == 9

\* For three calls: one command for each way of using graph_mutex, without missing
\* parameters, one edge, and no Kill.
TheEdge(e) == e.src = 0 /\ e.dst = 1

OneOfEachCommand ==
  /\ server' = "running"
  /\ \A h \in Handlers :
       /\ ~Incomplete(cmd'[h])
       /\ \/ cmd'[h].op = "Unknown"
          \/ cmd'[h].op = "MST" /\ cmd'[h].algo # "prim"
          \/ cmd'[h].op = "Newgraph" /\ cmd'[h].m = 1
          \/ cmd'[h].op = "Newedge" /\ TheEdge(cmd'[h])
       /\ \A k \in DOMAIN got'[h] : TheEdge(got'[h][k])

=============================================================================
