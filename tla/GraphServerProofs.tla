-------------------------- MODULE GraphServerProofs --------------------------
(***************************************************************************)
(* Proofs about GraphServer, for every number of concurrent calls and      *)
(* every set of vertices and weights: the discipline of graph_mutex, and   *)
(* what it is worth to the calls that read the graph.                      *)
(***************************************************************************)
EXTENDS GraphServer, GraphCommandLemmas, TLAPS

-----------------------------------------------------------------------------
(* The invariant.                                                           *)

LEMMA InitInv == Init => IInv
<1> SUFFICES ASSUME Init PROVE IInv
  OBVIOUS
<1>1. [op |-> "Unknown"] \in Commands
  BY DEF Commands
<1>2. TypeOK
  <2>1. << >> \in Seq(Edges) /\ 0 \in 0..MaxEdges /\ "idle" \in Places
        /\ "none" \in Replies
    BY CommandAssumption DEF Places, Replies
  <2> QED BY <1>1, <2>1 DEF Init, TypeOK
<1> QED
  BY <1>2, ServerAssumption
  DEF Init, IInv, LockDiscipline, GraphPresent, ReportOfOneGraph, CommandInv,
      Locking, Writing, Checked

\* Types, action by action.
LEMMA TypeStep ==
  ASSUME IInv, [Next]_vars
  PROVE  TypeOK'
<1> USE DEF TypeOK, Goto, Tell
<1>0. TypeOK /\ LockDiscipline /\ GraphPresent
  BY DEF IInv
<1>p. \A h \in Handlers : \A place \in Places :
        Goto(h, place) => pc' \in [Handlers -> Places]
  BY <1>0
<1>u. [op |-> "Unknown"] \in Commands
  BY DEF Commands
<1>1. ASSUME Crash PROVE TypeOK'
  BY <1>0, <1>1 DEF Crash
<1>2. ASSUME NEW h \in Handlers, Start(h) PROVE TypeOK'
  <2>1. PICK c \in Commands :
          cmd' = [cmd EXCEPT ![h] = c] /\ Goto(h, FirstStep(c))
    BY <1>2 DEF Start
  <2>2. FirstStep(c) \in Places \ {"newgraph_lock", "newgraph_edges"}
    BY DEF FirstStep, Places
  <2> QED BY <1>0, <1>2, <2>1, <2>2 DEF Start
<1>3. ASSUME NEW h \in Handlers, Kill(h) PROVE TypeOK'
  BY <1>0, <1>3 DEF Kill
<1>4. ASSUME NEW h \in Handlers, Unknown(h) PROVE TypeOK'
  BY <1>0, <1>4 DEF Unknown, Places, Replies
<1>5. ASSUME NEW h \in Handlers, Prompt(h) PROVE TypeOK'
  BY <1>0, <1>u, <1>5 DEF Prompt, Places, Replies
<1>6. ASSUME NEW h \in Handlers, Params(h) PROVE TypeOK'
  <2>1. reply' \in [Handlers -> Replies]
    BY <1>0, <1>6 DEF Params, Replies, Crash
  <2>2. PICK place \in {"newgraph_lock", "edge_lock", "params"} :
          /\ pc' = [pc EXCEPT ![h] = place]
          /\ place = "newgraph_lock" => cmd[h].op = "Newgraph"
    BY <1>0, <1>6 DEF Params, Crash
  <2>3. place \in Places /\ place # "newgraph_edges"
    BY DEF Places, Checked
  <2>4. UNCHANGED <<graph, readers, writer, cmd, got, left, seen, server>>
        /\ crashed' \in BOOLEAN
    BY <1>0, <1>6 DEF Params, Crash
  <2> QED BY <1>0, <2>1, <2>2, <2>3, <2>4
<1>7. ASSUME NEW h \in Handlers, MstStep(h) PROVE TypeOK'
  <2>1. CASE MstCheck(h)
    <3>1. Refusal(graph) \in Replies
      BY DEF Refusal, Replies
    <3>2. {"mst_lock", "prompt"} \subseteq Places
          /\ {"mst_lock", "prompt"} \cap {"newgraph_lock", "newgraph_edges"} = {}
      BY DEF Places, Checked
    <3>3. CASE ~Crash
      <4>1. PICK place \in {"mst_lock", "prompt"} :
              /\ pc' = [pc EXCEPT ![h] = place]
              /\ reply' = [reply EXCEPT ![h] = Refusal(graph)]
              /\ UNCHANGED <<graph, readers, writer, cmd, got, left, seen,
                             server, crashed>>
        BY <2>1, <3>3 DEF MstCheck
      <4> QED BY <1>0, <3>1, <3>2, <4>1
    <3> QED BY <1>1, <3>3
  <2>2. CASE MstLock(h)
    BY <1>0, <2>2 DEF MstLock, Places, Locking
  <2>3. CASE MstUnknown(h)
    BY <1>0, <2>3 DEF MstUnknown, Unlock, Places, Replies
  <2>4. CASE MstRun(h)
    <3>1. graph \in AllGraphs \cup {NoGraph}
      BY <1>0
    <3> QED BY <1>0, <1>1, <2>4, <3>1, ZenonT(60) DEF MstRun, Places, Locking
  <2>5. CASE MstUnlock(h)
    BY <1>0, <2>5 DEF MstUnlock, Unlock, Places
  <2>6. CASE MstSend(h)
    BY <1>0, <1>1, <2>6 DEF MstSend, Places, Replies
  <2> QED BY <1>7, <2>1, <2>2, <2>3, <2>4, <2>5, <2>6 DEF MstStep
<1>8. ASSUME NEW h \in Handlers, NewgraphStep(h) PROVE TypeOK'
  <2>1. CASE NewgraphLock(h)
    <3>1. cmd[h] \in Commands /\ cmd[h].op = "Newgraph"
      BY <1>0, <2>1 DEF NewgraphLock
    <3>2. Number(cmd[h].m) \in 0..MaxEdges /\ << >> \in Seq(Edges)
      BY <3>1, Parameters
    <3> QED BY <1>0, <2>1, <3>1, <3>2
            DEF NewgraphLock, LockUnique, Places, Writing
  <2>2. CASE ReceiveEdge(h)
    <3>1. got' \in [Handlers -> Seq(Edges)]
      <4>1. \A e \in Edges : Append(got[h], e) \in Seq(Edges)
        BY <1>0
      <4> QED BY <1>0, <2>2, <4>1 DEF ReceiveEdge
    <3>2. left' \in [Handlers -> 0..MaxEdges]
      <4>1. MaxEdges \in Nat /\ left[h] \in 0..MaxEdges /\ left[h] > 0
        BY <1>0, <2>2, CommandAssumption DEF ReceiveEdge
      <4>2. left[h] - 1 \in 0..MaxEdges /\ 0 \in 0..MaxEdges
        BY <4>1
      <4>3. \/ left' = [left EXCEPT ![h] = left[h] - 1]
            \/ left' = [left EXCEPT ![h] = 0]
        BY <2>2 DEF ReceiveEdge
      <4> QED BY <1>0, <4>2, <4>3
    <3>3. UNCHANGED <<graph, readers, writer, pc, cmd, seen, reply, server,
                      crashed>>
      BY <2>2 DEF ReceiveEdge
    <3> QED BY <1>0, <3>1, <3>2, <3>3
  <2>3. CASE Replace(h)
    <3>1. cmd[h] \in Commands /\ cmd[h].op = "Newgraph"
      BY <1>0, <2>3 DEF Replace
    <3>2. Number(cmd[h].n) \in Sizes \cup {0}
      BY <3>1, Parameters
    <3>3. Construct(Number(cmd[h].n), got[h]) \in AllGraphs
      BY <1>0, <3>2, ConstructType
    <3>4. << >> \in Seq(Edges) /\ "prompt" \in Places
      BY DEF Places
    <3>5. CASE ~Crash
      <4>1. /\ graph' = Construct(Number(cmd[h].n), got[h])
            /\ Unlock(h) /\ Goto(h, "prompt")
            /\ got' = [got EXCEPT ![h] = <<>>]
            /\ UNCHANGED <<cmd, left, seen, reply, server, crashed>>
        BY <2>3, <3>5 DEF Replace
      <4> QED BY <1>0, <3>3, <3>4, <4>1 DEF Unlock
    <3> QED BY <1>1, <3>5
  <2> QED BY <1>8, <2>1, <2>2, <2>3 DEF NewgraphStep
<1>9. ASSUME NEW h \in Handlers, EdgeStep(h) PROVE TypeOK'
  <2>1. CASE EdgeCheck(h)
    BY <1>0, <1>1, <2>1 DEF EdgeCheck, Places, Replies
  <2>2. CASE EdgeLock(h)
    BY <1>0, <2>2 DEF EdgeLock, LockUnique, Places, Writing
  <2>3. CASE EdgeWrite(h)
    <3>1. graph \in AllGraphs /\ cmd[h] \in Commands
      BY <1>0, <2>3 DEF EdgeWrite, GraphPresent, Checked
    <3>2. cmd[h].op \in {"Newedge", "Removeedge"}
      BY <2>3 DEF EdgeWrite, IInv, CommandInv
    <3>3. EdgeEffect(graph, cmd[h]) \in AllGraphs
      BY <3>1, <3>2, EdgeEffectType
    <3>4. CASE Crash
      BY <1>1, <3>4
    <3>5. CASE ~Crash
      <4>1. /\ graph' = EdgeEffect(graph, cmd[h])
            /\ Unlock(h) /\ Goto(h, "prompt")
            /\ UNCHANGED <<cmd, got, left, seen, server, crashed>>
        BY <2>3, <3>5 DEF EdgeWrite
      <4>2. reply' \in [Handlers -> Replies]
        BY <1>0, <2>3, <3>5 DEF EdgeWrite, EdgeReply, Replies
      <4> QED BY <1>0, <3>3, <4>1, <4>2 DEF Unlock, Places
    <3> QED BY <3>4, <3>5
  <2> QED BY <1>9, <2>1, <2>2, <2>3 DEF EdgeStep
<1>10. ASSUME MainReturns PROVE TypeOK'
  BY <1>0, <1>10 DEF MainReturns
<1>11. ASSUME Destroy PROVE TypeOK'
  BY <1>0, <1>11 DEF Destroy
<1>12. ASSUME UNCHANGED vars PROVE TypeOK'
  BY <1>0, <1>12 DEF vars
<1> QED
  BY <1>1, <1>2, <1>3, <1>4, <1>5, <1>6, <1>7, <1>8, <1>9, <1>10, <1>11, <1>12
  DEF Next, CallStep, GreetingFails

\* The lock, action by action.
LEMMA LockStep ==
  ASSUME IInv, [Next]_vars
  PROVE  LockDiscipline'
<1> USE ServerAssumption DEF LockDiscipline, Goto, Tell, Locking, Writing
<1>0. pc \in [Handlers -> Places] /\ LockDiscipline /\ readers \subseteq Handlers
  BY DEF IInv, TypeOK
<1>1. ASSUME Crash PROVE LockDiscipline'
  BY <1>0, <1>1 DEF Crash
<1>2. ASSUME NEW h \in Handlers, Start(h) PROVE LockDiscipline'
  BY <1>0, <1>2 DEF Start, FirstStep
<1>3. ASSUME NEW h \in Handlers, Kill(h) PROVE LockDiscipline'
  BY <1>0, <1>3 DEF Kill
<1>4. ASSUME NEW h \in Handlers, Unknown(h) PROVE LockDiscipline'
  BY <1>0, <1>4 DEF Unknown
<1>5. ASSUME NEW h \in Handlers, Prompt(h) PROVE LockDiscipline'
  BY <1>0, <1>5 DEF Prompt
<1>6. ASSUME NEW h \in Handlers, Params(h) PROVE LockDiscipline'
  BY <1>0, <1>1, <1>6 DEF Params
<1>7. ASSUME NEW h \in Handlers, MstStep(h) PROVE LockDiscipline'
  <2>1. CASE MstCheck(h)
    BY <1>0, <1>1, <2>1 DEF MstCheck, Refusal
  <2>2. CASE MstLock(h)
    BY <1>0, <2>2 DEF MstLock
  <2>3. CASE MstUnknown(h)
    BY <1>0, <2>3 DEF MstUnknown, Unlock
  <2>4. CASE MstRun(h)
    BY <1>0, <1>1, <2>4 DEF MstRun
  <2>5. CASE MstUnlock(h)
    BY <1>0, <2>5 DEF MstUnlock, Unlock
  <2>6. CASE MstSend(h)
    BY <1>0, <1>1, <2>6 DEF MstSend
  <2> QED BY <1>7, <2>1, <2>2, <2>3, <2>4, <2>5, <2>6 DEF MstStep
<1>8. ASSUME NEW h \in Handlers, NewgraphStep(h) PROVE LockDiscipline'
  <2>1. CASE NewgraphLock(h)
    BY <1>0, <2>1 DEF NewgraphLock, LockUnique, LockFree
  <2>2. CASE ReceiveEdge(h)
    BY <1>0, <2>2 DEF ReceiveEdge
  <2>3. CASE Replace(h)
    BY <1>0, <1>1, <2>3 DEF Replace, Unlock
  <2> QED BY <1>8, <2>1, <2>2, <2>3 DEF NewgraphStep
<1>9. ASSUME NEW h \in Handlers, EdgeStep(h) PROVE LockDiscipline'
  <2>1. CASE EdgeCheck(h)
    BY <1>0, <1>1, <2>1 DEF EdgeCheck
  <2>2. CASE EdgeLock(h)
    BY <1>0, <2>2 DEF EdgeLock, LockUnique, LockFree
  <2>3. CASE EdgeWrite(h)
    BY <1>0, <1>1, <2>3 DEF EdgeWrite, Unlock
  <2> QED BY <1>9, <2>1, <2>2, <2>3 DEF EdgeStep
<1>10. ASSUME MainReturns PROVE LockDiscipline'
  BY <1>0, <1>10 DEF MainReturns
<1>11. ASSUME Destroy PROVE LockDiscipline'
  BY <1>0, <1>11 DEF Destroy
<1>12. ASSUME UNCHANGED vars PROVE LockDiscipline'
  BY <1>0, <1>12 DEF vars
<1> QED
  BY <1>1, <1>2, <1>3, <1>4, <1>5, <1>6, <1>7, <1>8, <1>9, <1>10, <1>11, <1>12
  DEF Next, CallStep, GreetingFails

\* What a call may rely on, action by action.
Rely == GraphPresent /\ ReportOfOneGraph

LEMMA RelyStep ==
  ASSUME IInv, [Next]_vars
  PROVE  Rely'
<1> USE ServerAssumption, NoGraphAssumption, CommandAssumption
    DEF Rely, GraphPresent, ReportOfOneGraph, Goto, Tell, Checked, Locking
<1>0. /\ pc \in [Handlers -> Places] /\ cmd \in [Handlers -> Commands]
      /\ seen \in [Handlers -> AllGraphs \cup {NoGraph}]
      /\ LockDiscipline /\ GraphPresent /\ ReportOfOneGraph
  BY DEF IInv, TypeOK
<1>1. ASSUME Crash PROVE Rely'
  BY <1>0, <1>1 DEF Crash
<1>2. ASSUME NEW h \in Handlers, Start(h) PROVE Rely'
  BY <1>0, <1>2 DEF Start, FirstStep
<1>3. ASSUME NEW h \in Handlers, Kill(h) PROVE Rely'
  BY <1>0, <1>3 DEF Kill
<1>4. ASSUME NEW h \in Handlers, Unknown(h) PROVE Rely'
  BY <1>0, <1>4 DEF Unknown
<1>5. ASSUME NEW h \in Handlers, Prompt(h) PROVE Rely'
  BY <1>0, <1>5 DEF Prompt
<1>6. ASSUME NEW h \in Handlers, Params(h) PROVE Rely'
  BY <1>0, <1>1, <1>6 DEF Params
<1>7. ASSUME NEW h \in Handlers, MstStep(h) PROVE Rely'
  <2>1. CASE MstCheck(h)
    BY <1>0, <1>1, <2>1 DEF MstCheck, Refusal
  <2>2. CASE MstLock(h)
    BY <1>0, <2>2 DEF MstLock
  <2>3. CASE MstUnknown(h)
    BY <1>0, <2>3 DEF MstUnknown, Unlock
  <2>4. CASE MstRun(h)
    BY <1>0, <1>1, <2>4 DEF MstRun
  <2>5. CASE MstUnlock(h)
    BY <1>0, <2>5 DEF MstUnlock, Unlock
  <2>6. CASE MstSend(h)
    BY <1>0, <1>1, <2>6 DEF MstSend
  <2> QED BY <1>7, <2>1, <2>2, <2>3, <2>4, <2>5, <2>6 DEF MstStep
<1>8. ASSUME NEW h \in Handlers, NewgraphStep(h) PROVE Rely'
  <2>1. CASE NewgraphLock(h)
    BY <1>0, <2>1 DEF NewgraphLock, LockUnique, LockFree
  <2>2. CASE ReceiveEdge(h)
    BY <1>0, <2>2 DEF ReceiveEdge
  <2>3. CASE Replace(h)
    <3>1. cmd[h] \in Commands /\ cmd[h].op = "Newgraph" /\ writer = h
          /\ got[h] \in Seq(Edges)
      BY <2>3 DEF Replace, IInv, TypeOK, LockDiscipline, Writing
    <3>2. Construct(Number(cmd[h].n), got[h]) # NoGraph
      BY <3>1, Parameters, ConstructType
    <3>3. CASE ~Crash
      <4>1. /\ graph' = Construct(Number(cmd[h].n), got[h])
            /\ Goto(h, "prompt") /\ UNCHANGED <<cmd, seen, server>>
        BY <2>3, <3>3 DEF Replace
      <4>2. \A k \in Handlers : pc[k] \notin Locking
        BY <1>0, <3>1 DEF LockDiscipline
      <4> QED BY <1>0, <2>3, <3>2, <4>1, <4>2 DEF Replace
    <3> QED BY <1>1, <3>3
  <2> QED BY <1>8, <2>1, <2>2, <2>3 DEF NewgraphStep
<1>9. ASSUME NEW h \in Handlers, EdgeStep(h) PROVE Rely'
  <2>1. CASE EdgeCheck(h)
    BY <1>0, <1>1, <2>1 DEF EdgeCheck
  <2>2. CASE EdgeLock(h)
    BY <1>0, <2>2 DEF EdgeLock, LockUnique, LockFree
  <2>3. CASE EdgeWrite(h)
    <3>1. graph \in AllGraphs /\ cmd[h] \in Commands /\ writer = h
          /\ cmd[h].op \in {"Newedge", "Removeedge"}
      BY <2>3 DEF EdgeWrite, IInv, TypeOK, LockDiscipline, Writing, CommandInv
    <3>2. EdgeEffect(graph, cmd[h]) # NoGraph
      BY <3>1, EdgeEffectType
    <3>3. CASE ~Crash
      <4>1. /\ graph' = EdgeEffect(graph, cmd[h])
            /\ Goto(h, "prompt") /\ UNCHANGED <<cmd, seen, server>>
        BY <2>3, <3>3 DEF EdgeWrite
      <4>2. \A k \in Handlers : pc[k] \notin Locking
        BY <1>0, <3>1 DEF LockDiscipline
      <4> QED BY <1>0, <2>3, <3>2, <4>1, <4>2 DEF EdgeWrite
    <3> QED BY <1>1, <3>3
  <2> QED BY <1>9, <2>1, <2>2, <2>3 DEF EdgeStep
<1>10. ASSUME MainReturns PROVE Rely'
  BY <1>0, <1>10 DEF MainReturns
<1>11. ASSUME Destroy PROVE Rely'
  BY <1>0, <1>11 DEF Destroy
<1>12. ASSUME UNCHANGED vars PROVE Rely'
  BY <1>0, <1>12 DEF vars
<1> QED
  BY <1>1, <1>2, <1>3, <1>4, <1>5, <1>6, <1>7, <1>8, <1>9, <1>10, <1>11, <1>12
  DEF Next, CallStep, GreetingFails

\* Which commands the places belong to, action by action.
LEMMA CommandStep ==
  ASSUME IInv, [Next]_vars
  PROVE  CommandInv'
<1> USE NoGraphAssumption DEF CommandInv, Goto, Tell
<1>0. /\ pc \in [Handlers -> Places] /\ cmd \in [Handlers -> Commands]
      /\ seen \in [Handlers -> AllGraphs \cup {NoGraph}]
      /\ reply \in [Handlers -> Replies]
      /\ GraphPresent /\ CommandInv
  BY DEF IInv, TypeOK
<1>1. ASSUME Crash PROVE CommandInv'
  BY <1>0, <1>1 DEF Crash
<1>2. ASSUME NEW h \in Handlers, Start(h) PROVE CommandInv'
  <2>1. PICK c \in Commands :
          cmd' = [cmd EXCEPT ![h] = c] /\ Goto(h, FirstStep(c))
    BY <1>2 DEF Start
  <2>2. c.op \in {"MST", "Newgraph", "Newedge", "Removeedge", "Unknown"}
    BY DEF Commands
  <2>3. UNCHANGED <<seen, reply>>
    BY <1>2 DEF Start
  <2> QED BY <1>0, <2>1, <2>2, <2>3 DEF FirstStep
<1>3. ASSUME NEW h \in Handlers, Kill(h) PROVE CommandInv'
  BY <1>0, <1>3 DEF Kill
<1>4. ASSUME NEW h \in Handlers, Unknown(h) PROVE CommandInv'
  BY <1>0, <1>4 DEF Unknown
<1>5. ASSUME NEW h \in Handlers, Prompt(h) PROVE CommandInv'
  BY <1>0, <1>5 DEF Prompt
<1>6. ASSUME NEW h \in Handlers, Params(h) PROVE CommandInv'
  BY <1>0, <1>1, <1>6 DEF Params
<1>7. ASSUME NEW h \in Handlers, MstStep(h) PROVE CommandInv'
  <2>1. CASE MstCheck(h)
    <3>1. Refusal(graph) # "ignored" /\ cmd[h].op = "MST"
      BY <1>0, <2>1 DEF MstCheck, Refusal
    <3>2. CASE ~Crash
      <4>1. /\ pc' = [pc EXCEPT ![h] = IF Refusal(graph) = "none" THEN "mst_lock"
                                                               ELSE "prompt"]
            /\ reply' = [reply EXCEPT ![h] = Refusal(graph)]
            /\ UNCHANGED <<cmd, seen>>
        BY <2>1, <3>2 DEF MstCheck
      <4> QED BY <1>0, <3>1, <4>1
    <3> QED BY <1>1, <3>2
  <2>2. CASE MstLock(h)
    BY <1>0, <2>2 DEF MstLock
  <2>3. CASE MstUnknown(h)
    BY <1>0, <2>3 DEF MstUnknown
  <2>4. CASE MstRun(h)
    <3>1. cmd[h].algo \in Algorithms
      BY <1>0, <2>4 DEF MstRun, Commands
    <3> QED BY <1>0, <1>1, <2>4, <3>1
            DEF MstRun, GraphPresent, Checked, Locking, Algorithms
  <2>5. CASE MstUnlock(h)
    BY <1>0, <2>5 DEF MstUnlock
  <2>6. CASE MstSend(h)
    BY <1>0, <1>1, <2>6 DEF MstSend
  <2> QED BY <1>7, <2>1, <2>2, <2>3, <2>4, <2>5, <2>6 DEF MstStep
<1>8. ASSUME NEW h \in Handlers, NewgraphStep(h) PROVE CommandInv'
  <2>1. CASE NewgraphLock(h)
    BY <1>0, <2>1 DEF NewgraphLock, LockUnique
  <2>2. CASE ReceiveEdge(h)
    BY <1>0, <2>2 DEF ReceiveEdge
  <2>3. CASE Replace(h)
    <3>1. cmd[h].op = "Newgraph"
      BY <2>3 DEF Replace, IInv, TypeOK
    <3> QED BY <1>0, <1>1, <2>3, <3>1 DEF Replace
  <2> QED BY <1>8, <2>1, <2>2, <2>3 DEF NewgraphStep
<1>9. ASSUME NEW h \in Handlers, EdgeStep(h) PROVE CommandInv'
  <2>1. CASE EdgeCheck(h)
    <3>1. cmd[h].op \in {"Newedge", "Removeedge"}
      BY <1>0, <2>1 DEF EdgeCheck
    <3>2. CASE ~Crash
      <4>1. UNCHANGED <<cmd, seen>>
        BY <2>1, <3>2 DEF EdgeCheck
      <4>2. \/ /\ pc' = [pc EXCEPT ![h] = "prompt"]
               /\ reply' = [reply EXCEPT ![h] = "no graph"]
            \/ pc' = [pc EXCEPT ![h] = "params"] /\ UNCHANGED reply
        BY <2>1, <3>2 DEF EdgeCheck
      <4> QED BY <1>0, <3>1, <4>1, <4>2, ZenonT(60)
    <3> QED BY <1>1, <3>2
  <2>2. CASE EdgeLock(h)
    BY <1>0, <2>2 DEF EdgeLock, LockUnique
  <2>3. CASE EdgeWrite(h)
    <3>1. EdgeReply(graph, cmd[h]) \notin {"none", "ignored"}
      BY DEF EdgeReply
    <3>2. CASE ~Crash
      <4>1. /\ pc' = [pc EXCEPT ![h] = "prompt"]
            /\ reply' = [reply EXCEPT ![h] = EdgeReply(graph, cmd[h])]
            /\ UNCHANGED <<cmd, seen>>
        BY <2>3, <3>2 DEF EdgeWrite
      <4>2. cmd[h].op \in {"Newedge", "Removeedge"}
        BY <1>0, <2>3 DEF EdgeWrite
      <4> QED BY <1>0, <3>1, <4>1, <4>2
    <3> QED BY <1>1, <3>2
  <2> QED BY <1>9, <2>1, <2>2, <2>3 DEF EdgeStep
<1>10. ASSUME MainReturns PROVE CommandInv'
  BY <1>0, <1>10 DEF MainReturns
<1>11. ASSUME Destroy PROVE CommandInv'
  BY <1>0, <1>11 DEF Destroy
<1>12. ASSUME UNCHANGED vars PROVE CommandInv'
  BY <1>0, <1>12 DEF vars
<1> QED
  BY <1>1, <1>2, <1>3, <1>4, <1>5, <1>6, <1>7, <1>8, <1>9, <1>10, <1>11, <1>12
  DEF Next, CallStep, GreetingFails

-----------------------------------------------------------------------------
(* The theorems.                                                            *)

\* Types, the lock and what calls rely on are invariant together.
THEOREM InvariantHolds == Spec => []IInv
<1>1. IInv /\ [Next]_vars => IInv'
  BY TypeStep, LockStep, RelyStep, CommandStep DEF IInv, Rely
<1> QED BY InitInv, <1>1, PTL DEF Spec

\* Type correctness.
THEOREM TypeCorrect == Spec => []TypeOK
<1>1. IInv => TypeOK
  BY DEF IInv
<1> QED BY <1>1, InvariantHolds, PTL

\* graph_mutex is held by readers or by one writer, and only in the scopes of
\* the code that hold it: no return leaves it locked.
THEOREM LockHeldInScope == Spec => []LockDiscipline
<1>1. IInv => LockDiscipline
  BY DEF IInv
<1> QED BY <1>1, InvariantHolds, PTL

\* No call uses a graph that is null or destroyed, although every command
\* releases graph_mutex between its test of g and its use of g.
THEOREM GraphStays == Spec => []GraphPresent
<1>1. IInv => GraphPresent
  BY DEF IInv
<1> QED BY <1>1, InvariantHolds, PTL

\* A report on an MST is about the graph that the algorithm has seen.
THEOREM ReportsOneGraph == Spec => []ReportOfOneGraph
<1>1. IInv => ReportOfOneGraph
  BY DEF IInv
<1> QED BY <1>1, InvariantHolds, PTL

\* No step changes the graph while a call computes an MST.
THEOREM ReadersUndisturbed == Spec => UndisturbedWhileRead
<1>1. ASSUME IInv, [Next]_vars, readers # {}
      PROVE  graph' = graph
  <2> USE ServerAssumption DEF IInv, LockDiscipline
  <2>1. \A h \in Handlers : pc[h] \notin Writing
    BY <1>1
  <2>2. \E h \in Handlers : pc[h] # "idle"
    BY <1>1 DEF TypeOK, Locking
  <2>3. ~Destroy
    BY <2>2 DEF Destroy
  <2>4. \A h \in Handlers : ~Replace(h) /\ ~EdgeWrite(h)
    BY <2>1 DEF Replace, EdgeWrite, Writing
  <2>5. ASSUME NEW h \in Handlers, MstStep(h) PROVE graph' = graph
    BY <2>5 DEF MstStep, MstCheck, MstLock, MstUnknown, MstRun, MstUnlock,
                MstSend, Crash
  <2>6. ASSUME NEW h \in Handlers, NewgraphStep(h) \/ EdgeStep(h)
        PROVE  graph' = graph
    BY <2>4, <2>6 DEF NewgraphStep, NewgraphLock, ReceiveEdge, EdgeStep,
                      EdgeCheck, EdgeLock, Crash
  <2>7. ASSUME NEW h \in Handlers,
               Start(h) \/ Kill(h) \/ Unknown(h) \/ Prompt(h) \/ Params(h)
        PROVE  graph' = graph
    BY <2>7 DEF Start, Kill, Unknown, Prompt, Params, Crash
  <2>8. ASSUME MainReturns \/ GreetingFails \/ UNCHANGED vars
        PROVE  graph' = graph
    BY <2>8 DEF MainReturns, GreetingFails, Crash, vars
  <2> QED BY <1>1, <2>3, <2>5, <2>6, <2>7, <2>8 DEF Next, CallStep
<1>2. IInv /\ [Next]_vars => [readers # {} => graph' = graph]_vars
  BY <1>1
<1> QED BY <1>2, InvariantHolds, PTL DEF Spec, UndisturbedWhileRead

-----------------------------------------------------------------------------
(* The refinement.                                                          *)

\* The operators of the abstract module are those of this one.
LEMMA SameOperators ==
  /\ Service!Commands = Commands
  /\ Service!NoCommand = [op |-> "Unknown"]
  /\ \A c : Service!EdgeAccepted(graph, c) <=> EdgeAccepted(graph, c)
  /\ \A c : Service!EdgeEffect(graph, c) = EdgeEffect(graph, c)
  /\ \A c : Service!EdgeReply(graph, c) = EdgeReply(graph, c)
  /\ \A n : Service!GraphsOf(n) = GraphsOf(n)
  /\ \A p : Service!Number(p) = Number(p)
  /\ Service!Connected(graph) <=> Connected(graph)
  /\ Service!Refusal(graph) = Refusal(graph)
<1>1. \A p : Service!Number(p) = Number(p)
  BY DEF Service!Number, Number
<1>2. Service!Commands = Commands
  BY DEF Service!Commands, Commands, Service!Algorithms, Algorithms
<1>3. \A c : Service!NewWeight(c) = NewWeight(c)
  BY <1>1 DEF Service!NewWeight, NewWeight
<1>4. \A n : Service!PairsOf(n) = PairsOf(n)
  BY DEF Service!PairsOf, PairsOf, Service!VerticesOf, VerticesOf
<1>5. \A n : Service!GraphsOf(n) = GraphsOf(n)
  BY <1>4 DEF Service!GraphsOf, GraphsOf
<1>6. Service!Connected(graph) <=> Connected(graph)
  BY DEF Service!Connected, Connected, Service!VerticesOf, VerticesOf
<1>7. \A c : Service!EdgeAccepted(graph, c) <=> EdgeAccepted(graph, c)
  BY <1>1, <1>3 DEF Service!EdgeAccepted, EdgeAccepted
<1>8. \A a, b, w : Service!WithEdge(graph, a, b, w) = WithEdge(graph, a, b, w)
  BY DEF Service!WithEdge, WithEdge
<1>9. \A c : Service!EdgeEffect(graph, c) = EdgeEffect(graph, c)
  BY <1>1, <1>3, <1>8 DEF Service!EdgeEffect, EdgeEffect
<1>10. \A a, b : Service!Previous(graph, a, b) = Previous(graph, a, b)
  BY DEF Service!Previous, Previous
<1>11. \A c : Service!EdgeReply(graph, c) = EdgeReply(graph, c)
  BY <1>1, <1>10 DEF Service!EdgeReply, EdgeReply
<1>12. Service!Refusal(graph) = Refusal(graph)
  BY <1>6 DEF Service!Refusal, Refusal
<1> QED BY <1>1, <1>2, <1>5, <1>6, <1>7, <1>9, <1>11, <1>12
        DEF Service!NoCommand

\* A step of one call settles the answer of this call only.
LEMMA AnswerChange ==
  ASSUME NEW h \in Handlers,
         \A k \in Handlers \ {h} :
           /\ pc'[k] = pc[k] /\ cmd'[k] = cmd[k]
           /\ reply'[k] = reply[k] /\ seen'[k] = seen[k]
  PROVE  answerBar' = [answerBar EXCEPT ![h] = AnswerOf(h)']
<1>1. \A k \in Handlers \ {h} : AnswerOf(k)' = AnswerOf(k)
  BY DEF AnswerOf
<1> QED BY <1>1 DEF answerBar

\* A step that only moves a call between places with the same answer.
LEMMA Stutter ==
  ASSUME NEW h \in Handlers, UNCHANGED <<graph, cmd>>,
         AnswerOf(h)' = AnswerOf(h),
         \A k \in Handlers \ {h} :
           pc'[k] = pc[k] /\ reply'[k] = reply[k] /\ seen'[k] = seen[k]
  PROVE  UNCHANGED Service!serviceVars
<1>1. answerBar' = [answerBar EXCEPT ![h] = AnswerOf(h)']
  BY AnswerChange
<1>2. answerBar' = answerBar
  BY <1>1 DEF answerBar
<1> QED BY <1>2 DEF Service!serviceVars

LEMMA ServiceStep ==
  ASSUME IInv, IInv', [Next]_vars
  PROVE  [Service!ServiceNext]_(Service!serviceVars)
<1> USE DEF Goto, Tell
<1> DEFINE Abstract == [Service!ServiceNext]_(Service!serviceVars)
<1>0. /\ pc \in [Handlers -> Places] /\ cmd \in [Handlers -> Commands]
      /\ seen \in [Handlers -> AllGraphs \cup {NoGraph}]
      /\ reply \in [Handlers -> Replies]
      /\ graph \in AllGraphs \cup {NoGraph}
  BY DEF IInv, TypeOK
<1>i. CommandInv /\ GraphPresent /\ ReportOfOneGraph
  BY DEF IInv
<1>a. \A h \in Handlers : answerBar[h] = AnswerOf(h)
  BY DEF answerBar
<1>1. ASSUME UNCHANGED vars \/ Crash PROVE Abstract
  <2>1. UNCHANGED <<graph, cmd, pc, reply, seen>>
    BY <1>1 DEF vars, Crash
  <2>2. \A h \in Handlers : AnswerOf(h)' = AnswerOf(h)
    BY <2>1 DEF AnswerOf
  <2> QED BY <2>1, <2>2 DEF Service!serviceVars, answerBar
<1>2. ASSUME NEW h \in Handlers, Start(h) PROVE Abstract
  <2>1. PICK c \in Commands :
          /\ pc[h] = "idle" /\ cmd' = [cmd EXCEPT ![h] = c]
          /\ pc' = [pc EXCEPT ![h] = FirstStep(c)]
          /\ UNCHANGED <<graph, seen, reply>>
    BY <1>2 DEF Start
  <2>2. AnswerOf(h) = "idle" /\ AnswerOf(h)' = "none"
    BY <1>0, <2>1 DEF AnswerOf, FirstStep
  <2>3. answerBar' = [answerBar EXCEPT ![h] = "none"]
    BY <1>0, <2>1, <2>2, AnswerChange
  <2>4. Service!Call(h)
    BY <1>a, <2>1, <2>2, <2>3, SameOperators DEF Service!Call
  <2> QED BY <2>4 DEF Service!ServiceNext
<1>3. ASSUME NEW h \in Handlers, Kill(h) PROVE Abstract
  <2>1. AnswerOf(h)' = AnswerOf(h)
    BY <1>3 DEF Kill, AnswerOf
  <2> QED BY <1>3, <2>1, Stutter DEF Kill
<1>4. ASSUME NEW h \in Handlers, Unknown(h) PROVE Abstract
  <2>1. AnswerOf(h) = "none" /\ AnswerOf(h)' = "unknown command"
        /\ cmd[h].op = "Unknown"
    BY <1>0, <1>4, <1>i DEF Unknown, AnswerOf, CommandInv
  <2>2. answerBar' = [answerBar EXCEPT ![h] = "unknown command"]
    BY <1>0, <1>4, <2>1, AnswerChange DEF Unknown
  <2>3. Service!Effect(h)
    BY <1>4, <1>a, <2>1, <2>2 DEF Service!Effect, Unknown
  <2> QED BY <2>3 DEF Service!ServiceNext
<1>5. ASSUME NEW h \in Handlers, Prompt(h) PROVE Abstract
  <2>1. AnswerOf(h) \notin {"idle", "none"} /\ AnswerOf(h)' = "idle"
    <3>1. pc[h] = "prompt" /\ pc'[h] = "idle"
      BY <1>0, <1>5 DEF Prompt
    <3>2. AnswerOf(h) = IF cmd[h].op = "Newgraph" THEN "done" ELSE reply[h]
      BY <3>1 DEF AnswerOf
    <3>3. reply[h] # "idle"
      BY <1>0 DEF Replies
    <3> QED BY <1>i, <3>1, <3>2, <3>3 DEF AnswerOf, CommandInv
  <2>2. answerBar' = [answerBar EXCEPT ![h] = "idle"]
    BY <1>0, <1>5, <2>1, AnswerChange DEF Prompt
  <2>3. Service!Return(h)
    BY <1>5, <1>a, <2>1, <2>2, SameOperators DEF Service!Return, Prompt
  <2> QED BY <2>3 DEF Service!ServiceNext
<1>6. ASSUME NEW h \in Handlers, Params(h), ~Crash PROVE Abstract
  <2>1. AnswerOf(h) = "none" /\ AnswerOf(h)' = "none"
    BY <1>0, <1>6 DEF Params, AnswerOf
  <2>2. UNCHANGED <<graph, cmd, seen>>
        /\ \A k \in Handlers \ {h} : pc'[k] = pc[k] /\ reply'[k] = reply[k]
    BY <1>0, <1>6 DEF Params
  <2> QED BY <2>1, <2>2, Stutter
<1>7. ASSUME NEW h \in Handlers, MstStep(h), ~Crash PROVE Abstract
  <2> DEFINE Effect(result) ==
        /\ answerBar' = [answerBar EXCEPT ![h] = result]
        /\ Service!MstAnswer(cmd[h], result)
        /\ result \in {"no graph", "not connected", "unknown algorithm",
                       "tree", "forest"}
  <2>e. ASSUME NEW result, Effect(result), UNCHANGED <<graph, cmd>>,
               AnswerOf(h) = "none", cmd[h].op = "MST"
        PROVE  Abstract
    <3>1. Service!Effect(h)
      BY <1>a, <2>e DEF Service!Effect
    <3> QED BY <3>1 DEF Service!ServiceNext
  <2> HIDE DEF Abstract
  <2>1. CASE MstCheck(h)
    <3>1. /\ pc[h] = "mst_check" /\ cmd[h].op = "MST"
          /\ reply' = [reply EXCEPT ![h] = Refusal(graph)]
          /\ pc' = [pc EXCEPT ![h] = IF Refusal(graph) = "none" THEN "mst_lock"
                                                             ELSE "prompt"]
          /\ UNCHANGED <<graph, cmd, seen>>
      BY <1>7, <1>i, <2>1 DEF MstCheck, CommandInv
    <3>2. AnswerOf(h) = "none" /\ AnswerOf(h)' = Refusal(graph)
      BY <1>0, <3>1 DEF AnswerOf
    <3>3. CASE Refusal(graph) = "none"
      BY <1>0, <3>1, <3>2, <3>3, Stutter DEF Abstract
    <3>4. CASE Refusal(graph) # "none"
      <4>1. answerBar' = [answerBar EXCEPT ![h] = Refusal(graph)]
        BY <1>0, <3>1, <3>2, AnswerChange
      <4>2. Refusal(graph) \in {"no graph", "not connected"}
        BY <3>4 DEF Refusal
      <4>3. Service!MstAnswer(cmd[h], Refusal(graph))
        BY <3>4, SameOperators DEF Service!MstAnswer
      <4> QED BY <2>e, <3>1, <3>2, <4>1, <4>2, <4>3
    <3> QED BY <3>3, <3>4
  <2>2. CASE MstLock(h)
    <3>1. AnswerOf(h) = "none" /\ AnswerOf(h)' = "none"
      BY <1>0, <2>2 DEF MstLock, AnswerOf
    <3> QED BY <1>0, <2>2, <3>1, Stutter DEF MstLock, Abstract
  <2>3. CASE MstUnknown(h)
    <3>1. AnswerOf(h) = "none" /\ AnswerOf(h)' = "unknown algorithm"
          /\ cmd[h].op = "MST"
      BY <1>0, <1>i, <2>3 DEF MstUnknown, AnswerOf, CommandInv
    <3>2. answerBar' = [answerBar EXCEPT ![h] = "unknown algorithm"]
      BY <1>0, <2>3, <3>1, AnswerChange DEF MstUnknown
    <3>3. graph # NoGraph
      BY <1>i, <2>3 DEF MstUnknown, GraphPresent, Checked, Locking
    <3>4. Service!MstAnswer(cmd[h], "unknown algorithm")
      BY <2>3, <3>3 DEF MstUnknown, Service!MstAnswer
    <3> QED BY <2>3, <2>e, <3>1, <3>2, <3>4 DEF MstUnknown
  <2>4. CASE MstRun(h)
    <3> DEFINE result == IF Connected(graph) THEN "tree" ELSE "forest"
    <3>1. /\ pc[h] = "mst_run" /\ cmd[h].algo # "unknown"
          /\ cmd[h].algo = "prim" => Connected(graph)
          /\ seen' = [seen EXCEPT ![h] = graph]
          /\ pc' = [pc EXCEPT ![h] = "mst_report"]
          /\ UNCHANGED <<graph, cmd, reply>>
      BY <1>7, <2>4 DEF MstRun
    <3>2. cmd[h].op = "MST" /\ cmd[h].algo \in Algorithms
      BY <1>0, <1>i, <3>1 DEF CommandInv, Commands
    <3>3. AnswerOf(h) = "none" /\ AnswerOf(h)' = result
      BY <1>0, <3>1 DEF AnswerOf
    <3>4. answerBar' = [answerBar EXCEPT ![h] = result]
      BY <1>0, <3>1, <3>3, AnswerChange
    <3>5. graph # NoGraph
      BY <1>i, <3>1 DEF GraphPresent, Checked, Locking
    <3>6. Service!MstAnswer(cmd[h], result)
      BY <3>1, <3>2, <3>5, SameOperators DEF Service!MstAnswer, Algorithms
    <3> QED BY <2>e, <3>1, <3>2, <3>3, <3>4, <3>6
  <2>5. CASE MstUnlock(h)
    <3>1. AnswerOf(h) = AnswerOf(h)'
      BY <1>0, <2>5 DEF MstUnlock, AnswerOf
    <3> QED BY <1>0, <2>5, <3>1, Stutter DEF MstUnlock, Abstract
  <2>6. CASE MstSend(h)
    <3>1. /\ pc[h] = "mst_send" /\ cmd[h].op = "MST"
          /\ pc' = [pc EXCEPT ![h] = "prompt"]
          /\ reply' = [reply EXCEPT ![h] = IF Connected(seen[h]) THEN "tree"
                                                              ELSE "forest"]
          /\ seen' = [seen EXCEPT ![h] = NoGraph]
          /\ UNCHANGED <<graph, cmd>>
      BY <1>7, <1>i, <2>6 DEF MstSend, CommandInv
    <3>2. AnswerOf(h) = AnswerOf(h)'
      BY <1>0, <3>1 DEF AnswerOf
    <3> QED BY <1>0, <3>1, <3>2, Stutter DEF Abstract
  <2> QED BY <1>7, <2>1, <2>2, <2>3, <2>4, <2>5, <2>6 DEF MstStep
<1>8. ASSUME NEW h \in Handlers, NewgraphStep(h), ~Crash PROVE Abstract
  <2>1. CASE NewgraphLock(h)
    <3>1. AnswerOf(h) = "none" /\ AnswerOf(h)' = "none"
      BY <1>0, <2>1 DEF NewgraphLock, LockUnique, AnswerOf
    <3> QED BY <1>0, <2>1, <3>1, Stutter DEF NewgraphLock, LockUnique
  <2>2. CASE ReceiveEdge(h)
    <3>1. UNCHANGED <<graph, cmd, pc, reply, seen>>
      BY <2>2 DEF ReceiveEdge
    <3> QED BY <3>1, Stutter DEF AnswerOf
  <2>3. CASE Replace(h)
    <3>1. /\ pc[h] = "newgraph_edges"
          /\ graph' = Construct(Number(cmd[h].n), got[h])
          /\ pc' = [pc EXCEPT ![h] = "prompt"]
          /\ UNCHANGED <<cmd, reply, seen>>
      BY <1>8, <2>3 DEF Replace
    <3>2. cmd[h].op = "Newgraph" /\ got[h] \in Seq(Edges)
      BY <3>1 DEF IInv, TypeOK
    <3>3. Number(cmd[h].n) \in Sizes \cup {0}
      BY <1>0, <3>2, Parameters
    <3>4. graph' \in GraphsOf(Number(cmd[h].n))
      BY <3>1, <3>2, <3>3, ConstructGraph
    <3>5. AnswerOf(h) = "none" /\ AnswerOf(h)' = "done"
      BY <1>0, <3>1, <3>2 DEF AnswerOf
    <3>6. answerBar' = [answerBar EXCEPT ![h] = "done"]
      BY <1>0, <3>1, <3>5, AnswerChange
    <3>7. Service!Effect(h)
      BY <1>a, <3>1, <3>2, <3>4, <3>5, <3>6, SameOperators DEF Service!Effect
    <3> QED BY <3>7 DEF Service!ServiceNext
  <2> QED BY <1>8, <2>1, <2>2, <2>3 DEF NewgraphStep
<1>9. ASSUME NEW h \in Handlers, EdgeStep(h), ~Crash PROVE Abstract
  <2>0. cmd[h].op \in {"Newedge", "Removeedge"}
    BY <1>9, <1>i DEF EdgeStep, EdgeCheck, EdgeLock, EdgeWrite, CommandInv
  <2>1. CASE EdgeCheck(h)
    <3>1. CASE graph = NoGraph
      <4>1. /\ pc[h] = "edge_check" /\ pc' = [pc EXCEPT ![h] = "prompt"]
            /\ reply' = [reply EXCEPT ![h] = "no graph"]
            /\ UNCHANGED <<graph, cmd, seen>>
        BY <1>9, <2>1, <3>1 DEF EdgeCheck
      <4>2. AnswerOf(h) = "none" /\ AnswerOf(h)' = "no graph"
        BY <1>0, <2>0, <4>1 DEF AnswerOf
      <4>3. answerBar' = [answerBar EXCEPT ![h] = "no graph"]
        BY <1>0, <4>1, <4>2, AnswerChange
      <4>4. Service!Effect(h)
        BY <1>a, <2>0, <3>1, <4>1, <4>2, <4>3 DEF Service!Effect
      <4> QED BY <4>4 DEF Service!ServiceNext
    <3>2. CASE graph # NoGraph
      <4>1. /\ pc[h] = "edge_check" /\ pc' = [pc EXCEPT ![h] = "params"]
            /\ UNCHANGED <<graph, cmd, seen, reply>>
        BY <1>9, <2>1, <3>2 DEF EdgeCheck
      <4>2. AnswerOf(h) = "none" /\ AnswerOf(h)' = "none"
        BY <1>0, <4>1 DEF AnswerOf
      <4> QED BY <1>0, <4>1, <4>2, Stutter
    <3> QED BY <3>1, <3>2
  <2>2. CASE EdgeLock(h)
    <3>1. AnswerOf(h) = "none" /\ AnswerOf(h)' = "none"
      BY <1>0, <2>2 DEF EdgeLock, LockUnique, AnswerOf
    <3> QED BY <1>0, <2>2, <3>1, Stutter DEF EdgeLock, LockUnique
  <2>3. CASE EdgeWrite(h)
    <3> DEFINE result == EdgeReply(graph, cmd[h])
    <3>1. /\ pc[h] = "edge_write" /\ pc' = [pc EXCEPT ![h] = "prompt"]
          /\ EdgeAccepted(graph, cmd[h])
          /\ graph' = EdgeEffect(graph, cmd[h])
          /\ reply' = [reply EXCEPT ![h] = result]
          /\ UNCHANGED <<cmd, seen>>
      BY <1>9, <2>3 DEF EdgeWrite
    <3> HIDE DEF result
    <3>2. graph # NoGraph
      BY <1>i, <3>1 DEF GraphPresent, Checked
    <3>3. AnswerOf(h) = "none" /\ AnswerOf(h)' = result
      BY <1>0, <2>0, <3>1 DEF AnswerOf
    <3>4. answerBar' = [answerBar EXCEPT ![h] = result]
      BY <1>0, <3>1, <3>3, AnswerChange
    <3>5. result = EdgeReply(graph, cmd[h])
      BY DEF result
    <3>6. Service!Effect(h)
      BY <1>a, <2>0, <3>1, <3>2, <3>3, <3>4, <3>5, SameOperators
      DEF Service!Effect
    <3> QED BY <3>6 DEF Service!ServiceNext
  <2> QED BY <1>9, <2>1, <2>2, <2>3 DEF EdgeStep
<1>10. ASSUME MainReturns PROVE Abstract
  <2>1. UNCHANGED <<graph, cmd, pc, reply, seen>>
    BY <1>10 DEF MainReturns
  <2>2. \A h \in Handlers : AnswerOf(h)' = AnswerOf(h)
    BY <2>1 DEF AnswerOf
  <2> QED BY <2>1, <2>2 DEF Service!serviceVars, answerBar
<1>11. ASSUME Destroy PROVE Abstract
  <2>1. UNCHANGED <<cmd, pc, reply, seen>> /\ graph' = NoGraph
        /\ \A h \in Handlers : pc[h] = "idle"
    BY <1>11 DEF Destroy
  <2>2. \A h \in Handlers : AnswerOf(h) = "idle" /\ AnswerOf(h)' = "idle"
    BY <2>1 DEF AnswerOf
  <2>3. Service!Close
    BY <1>a, <2>1, <2>2 DEF Service!Close, answerBar
  <2> QED BY <2>3 DEF Service!ServiceNext
<1> QED
  BY <1>1, <1>2, <1>3, <1>4, <1>5, <1>6, <1>7, <1>8, <1>9, <1>10, <1>11
  DEF Next, CallStep, GreetingFails

\* The server implements GraphService: every command has its effect, and gets
\* its answer, at one moment.
THEOREM Implements == Spec => ImplementsService
<1>1. Init => Service!ServiceInit
  <2> SUFFICES ASSUME Init PROVE Service!ServiceInit
    OBVIOUS
  <2>1. \A h \in Handlers : AnswerOf(h) = "idle"
    BY DEF Init, AnswerOf
  <2> QED BY <2>1, SameOperators DEF Init, Service!ServiceInit, answerBar
<1>2. IInv /\ IInv' /\ [Next]_vars
        => [Service!ServiceNext]_(Service!serviceVars)
  BY ServiceStep
<1> QED
  BY <1>1, <1>2, InvariantHolds, PTL DEF Spec, ImplementsService, Service!Spec

=============================================================================
