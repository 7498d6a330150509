---------------------------- MODULE PLServerProofs ---------------------------
(***************************************************************************)
(* Proofs about PLServer: the inductive invariant IInv, what it implies,   *)
(* and the refinement of GraphService.  Each conjunct of IInv has a lemma  *)
(* that says that a step preserves it, with a step of the proof for each   *)
(* action; a step that ends in std::terminate changes nothing else, and is *)
(* set apart as Crash.                                                     *)
(***************************************************************************)
EXTENDS PLServer, GraphCommandLemmas, TLAPS

\* Where a command begins.
LEMMA FirstStepOf ==
  ASSUME NEW c \in Commands
  PROVE  /\ FirstStep(c) \in {"mst_check", "params", "edge_check", "unknown"}
         /\ FirstStep(c) = "mst_check" => c.op = "MST"
         /\ FirstStep(c) = "params" => c.op = "Newgraph"
         /\ FirstStep(c) = "edge_check" => c.op \in {"Newedge", "Removeedge"}
         /\ FirstStep(c) = "unknown" => c.op = "Unknown"
<1>1. c.op \in {"MST", "Newgraph", "Newedge", "Removeedge", "Unknown"}
  BY DEF Commands
<1> QED BY <1>1 DEF FirstStep

\* The algorithms that the server knows.
LEMMA AlgorithmOf ==
  ASSUME NEW c \in Commands, c.op = "MST", c.algo # "unknown"
  PROVE  c.algo \in {"prim", "kruskal"}
BY DEF Commands, Algorithms

\* The steps keep the types.
LEMMA TypeStep ==
  ASSUME IInv, [Next]_vars
  PROVE  TypeOK'
<1> USE DEF TypeOK, graphVars, commandVars, objectVars, mainVars
<1>0. TypeOK /\ CommandInv /\ ObjectInv /\ MainInv
  BY DEF IInv
<1>1. ASSUME Crash PROVE TypeOK'
  BY <1>0, <1>1 DEF Crash
<1>2. ASSUME Poll PROVE TypeOK'
  <2>1. pc' \in Places
    BY <1>2 DEF Poll, Places
  <2>2. reply' \in Replies
    BY <1>0, <1>2 DEF Poll, Replies
  <2> QED BY <1>0, <1>2, <2>1, <2>2, PLAssumption DEF Poll
<1>3. ASSUME BatchDone PROVE TypeOK'
  <2>1. pc' \in Places
    BY <1>3 DEF BatchDone, Places
  <2>2. reply' \in Replies
    BY <1>0, <1>3 DEF BatchDone, Replies
  <2> QED BY <1>0, <1>3, <2>1, <2>2 DEF BatchDone
<1>4. ASSUME Start PROVE TypeOK'
  <2>1. PICK c \in Commands : cmd' = c /\ pc' = FirstStep(c)
    BY <1>4 DEF Start
  <2>2. pc' \in Places
    BY <2>1, FirstStepOf DEF Places
  <2> QED BY <1>0, <1>4, <2>1, <2>2 DEF Start
<1>5. ASSUME Leave PROVE TypeOK'
  <2>1. batch' \in 0..MaxBatch
    BY <1>0, <1>5, PLAssumption DEF Leave
  <2> QED BY <1>0, <1>5, <2>1, ZenonT(60) DEF Leave
<1>6. ASSUME Unknown PROVE TypeOK'
  <2>1. CASE Crash
    BY <1>1, <2>1
  <2>2. CASE ~Crash
    <3>1. pc' \in Places
      BY <1>0, <1>6, <2>2 DEF Unknown, Tell, Goto, Places
    <3>2. reply' \in Replies
      BY <1>0, <1>6, <2>2 DEF Unknown, Tell, Goto, Replies
    <3> QED BY <1>0, <1>6, <2>2, <3>1, <3>2, ZenonT(60) DEF Unknown, Tell, Goto
  <2> QED BY <2>1, <2>2
<1>7. ASSUME Prompt PROVE TypeOK'
  <2>1. batch' \in 0..MaxBatch
    BY <1>0, <1>7, PLAssumption DEF Prompt, MainInv
  <2>2. cmd' \in Commands
    BY <1>7 DEF Prompt, Commands
  <2> QED BY <1>0, <1>7, <2>1, <2>2, ZenonT(60) DEF Prompt, Places, Replies
<1>8. ASSUME MstCheck PROVE TypeOK'
  <2>1. CASE Crash
    BY <1>1, <2>1
  <2>2. CASE ~Crash
    <3>1. pc' \in Places
      BY <1>0, <1>8, <2>2 DEF MstCheck, Tell, Goto, Places, Refusal
    <3>2. reply' \in Replies
      BY <1>0, <1>8, <2>2 DEF MstCheck, Tell, Goto, Replies, Refusal
    <3> QED BY <1>0, <1>8, <2>2, <3>1, <3>2, ZenonT(60) DEF MstCheck, Tell, Goto, Refusal
  <2> QED BY <2>1, <2>2
<1>9. ASSUME MstUnknown PROVE TypeOK'
  <2>1. pc' \in Places
    BY <1>9 DEF MstUnknown, Tell, Goto, Places
  <2>2. reply' \in Replies
    BY <1>0, <1>9 DEF MstUnknown, Tell, Goto, Replies
  <2> QED BY <1>0, <1>9, <2>1, <2>2 DEF MstUnknown, Tell, Goto
<1>10. ASSUME MstInvoke PROVE TypeOK'
  <2>1. CASE Crash
    BY <1>1, <2>1
  <2>2. CASE ~Crash
    <3>1. pc' \in Places
      BY <1>0, <1>10, <2>2 DEF MstInvoke, Places
    <3>2. reply' \in Replies
      BY <1>0, <1>10, <2>2 DEF MstInvoke, Replies
    <3> QED BY <1>0, <1>10, <2>2, <3>1, <3>2 DEF MstInvoke, Invoke
  <2> QED BY <2>1, <2>2
<1>11. ASSUME MstWait PROVE TypeOK'
  <2>1. CASE Crash
    BY <1>1, <2>1
  <2>2. CASE ~Crash
    <3>1. pc' \in Places
      BY <1>0, <1>11, <2>2 DEF MstWait, Places
    <3>2. reply' \in Replies
      BY <1>0, <1>11, <2>2 DEF MstWait, Replies
    <3> QED BY <1>0, <1>11, <2>2, <3>1, <3>2 DEF MstWait
  <2> QED BY <2>1, <2>2
<1>12. ASSUME MstAsk PROVE TypeOK'
  <2>1. CASE Crash
    BY <1>1, <2>1
  <2>2. CASE ~Crash
    <3>1. pc' \in Places
      BY <1>0, <1>12, <2>2 DEF MstAsk, Places
    <3>2. reply' \in Replies
      BY <1>0, <1>12, <2>2 DEF MstAsk, Replies
    <3> QED BY <1>0, <1>12, <2>2, <3>1, <3>2 DEF MstAsk, Invoke
  <2> QED BY <2>1, <2>2
<1>13. ASSUME MstGather PROVE TypeOK'
  <2>1. CASE Crash
    BY <1>1, <2>1
  <2>2. CASE ~Crash
    <3>1. pc' \in Places
      BY <1>0, <1>13, <2>2 DEF MstGather, Places
    <3>2. reply' \in Replies
      BY <1>0, <1>13, <2>2 DEF MstGather, Replies
    <3> QED BY <1>0, <1>13, <2>2, <3>1, <3>2 DEF MstGather
  <2> QED BY <2>1, <2>2
<1>14. ASSUME MstSend PROVE TypeOK'
  <2>1. CASE Crash
    BY <1>1, <2>1
  <2>2. CASE ~Crash
    <3>1. pc' \in Places
      BY <1>0, <1>14, <2>2 DEF MstSend, Places
    <3>2. reply' \in Replies
      BY <1>0, <1>14, <2>2 DEF MstSend, Replies
    <3> QED BY <1>0, <1>14, <2>2, <3>1, <3>2 DEF MstSend
  <2> QED BY <2>1, <2>2
<1>15. ASSUME Params PROVE TypeOK'
  <2>1. CASE Crash
    BY <1>1, <2>1
  <2>2. CASE ~Crash
    <3>1. pc' \in Places
      BY <1>0, <1>15, <2>2 DEF Params, Tell, Goto, Places
    <3>2. reply' \in Replies
      BY <1>0, <1>15, <2>2 DEF Params, Tell, Goto, Replies
    <3> QED BY <1>0, <1>15, <2>2, <3>1, <3>2 DEF Params, Tell, Goto
  <2> QED BY <2>1, <2>2
<1>16. ASSUME NewgraphLock PROVE TypeOK'
  <2>1. cmd.op = "Newgraph"
    BY <1>0, <1>16 DEF NewgraphLock, CommandInv
  <2>2. left' \in 0..MaxEdges
    BY <1>0, <1>16, <2>1, Parameters DEF NewgraphLock
  <2>3. got' \in Seq(Edges)
    BY <1>16 DEF NewgraphLock
  <2>4. pc' \in Places
    BY <1>16 DEF NewgraphLock, Places
  <2> QED BY <1>0, <1>16, <2>2, <2>3, <2>4 DEF NewgraphLock
<1>17. ASSUME ReceiveEdge PROVE TypeOK'
  <2>1. left' \in 0..MaxEdges
    BY <1>0, <1>17, CommandAssumption DEF ReceiveEdge
  <2>2. got' \in Seq(Edges)
    BY <1>0, <1>17 DEF ReceiveEdge
  <2> QED BY <1>0, <1>17, <2>1, <2>2 DEF ReceiveEdge
<1>18. ASSUME Replace PROVE TypeOK'
  <2>1. CASE ~Crash
    <3>1. Number(cmd.n) \in Sizes \cup {0}
      BY <1>0, <1>18, Parameters DEF Replace, CommandInv
    <3>2. graph' \in AllGraphs
      BY <1>0, <1>18, <2>1, <3>1, ConstructType DEF Replace
    <3>3. pc' = "prompt" /\ got' = << >>
      BY <1>18, <2>1 DEF Replace
    <3>4. pc' \in Places /\ got' \in Seq(Edges)
      BY <3>3 DEF Places
    <3> QED BY <1>0, <1>18, <2>1, <3>2, <3>4 DEF Replace
  <2> QED BY <1>1, <2>1
<1>19. ASSUME EdgeCheck PROVE TypeOK'
  <2>1. CASE Crash
    BY <1>1, <2>1
  <2>2. CASE ~Crash
    <3>1. pc' \in Places
      BY <1>0, <1>19, <2>2 DEF EdgeCheck, Tell, Goto, Places
    <3>2. reply' \in Replies
      BY <1>0, <1>19, <2>2 DEF EdgeCheck, Tell, Goto, Replies
    <3> QED BY <1>0, <1>19, <2>2, <3>1, <3>2, ZenonT(60) DEF EdgeCheck, Tell, Goto
  <2> QED BY <2>1, <2>2
<1>20. ASSUME EdgeWrite PROVE TypeOK'
  <2>1. CASE ~Crash
    <3>1. cmd.op \in {"Newedge", "Removeedge"} /\ graph \in AllGraphs
      BY <1>0, <1>20 DEF EdgeWrite, CommandInv
    <3>2. graph' \in AllGraphs
      BY <1>0, <1>20, <2>1, <3>1, EdgeEffectType DEF EdgeWrite
    <3>3. reply' \in Replies
      BY <1>20, <2>1 DEF EdgeWrite, EdgeReply, Tell, Replies
    <3>4. pc' \in Places
      BY <1>20, <2>1 DEF EdgeWrite, Tell, Goto, Places
    <3> QED BY <1>0, <1>20, <2>1, <3>2, <3>3, <3>4 DEF EdgeWrite, Tell, Goto
  <2> QED BY <1>1, <2>1
<1>21. ASSUME MainReturns PROVE TypeOK'
  BY <1>0, <1>21 DEF MainReturns
<1>22. ASSUME AcceptFails PROVE TypeOK'
  BY <1>0, <1>22 DEF AcceptFails
<1>23. ASSUME GreetingFails PROVE TypeOK'
  BY <1>0, <1>23 DEF GreetingFails
<1>24. ASSUME Stopped PROVE TypeOK'
  BY <1>0, <1>1, <1>24 DEF Stopped
<1>25. ASSUME DestroyReactor PROVE TypeOK'
  BY <1>0, <1>25 DEF DestroyReactor
<1>26. ASSUME NEW o \in Names, Take(o) PROVE TypeOK'
  BY <1>0, <1>26 DEF Take
<1>27. ASSUME NEW o \in Names, Return(o) PROVE TypeOK'
  BY <1>0, <1>1, <1>27 DEF Return
<1>28. ASSUME NEW o \in Names, TimeOut(o) PROVE TypeOK'
  BY <1>0, <1>28 DEF TimeOut
<1>29. ASSUME NEW o \in Names, SetDone(o) PROVE TypeOK'
  BY <1>0, <1>29 DEF SetDone
<1>30. ASSUME NEW o \in Names, Join(o) PROVE TypeOK'
  BY <1>0, <1>30 DEF Join
<1>31. ASSUME NEW o \in Names, DestroyMembers(o) PROVE TypeOK'
  BY <1>0, <1>31 DEF DestroyMembers
<1>32. ASSUME UNCHANGED vars PROVE TypeOK'
  BY <1>0, <1>32 DEF vars
<1> QED
  BY <1>2, <1>3, <1>4, <1>5, <1>6, <1>7, <1>8, <1>9, <1>10, <1>11, <1>12, <1>13,
     <1>14, <1>15, <1>16, <1>17, <1>18, <1>19, <1>20, <1>21, <1>22, <1>23, <1>24,
     <1>25, <1>26, <1>27, <1>28, <1>29, <1>30, <1>31, <1>32
  DEF Next, ReactorStep, MstStep, NewgraphStep, EdgeStep, Dispatcher, DestroyStep

\* The steps keep the pointers valid: a call is made at the place where the handler
\* is about to wait for it, and the handler leaves that place when none is left.
LEMMA PointersStep ==
  ASSUME IInv, [Next]_vars
  PROVE  PointersValid'
<1> USE DEF PointersValid, Sharing, Measuring, graphVars, commandVars, objectVars, mainVars
<1>0. TypeOK /\ PointersValid /\ CommandInv /\ ObjectInv
  BY DEF IInv
<1>1. ASSUME Crash PROVE PointersValid'
  BY <1>0, <1>1 DEF Crash
<1>2. ASSUME Poll PROVE PointersValid'
  BY <1>0, <1>2 DEF Poll
<1>3. ASSUME BatchDone PROVE PointersValid'
  BY <1>0, <1>3 DEF BatchDone
<1>4. ASSUME Start PROVE PointersValid'
  <2>1. PICK c \in Commands : cmd' = c /\ pc' = FirstStep(c)
    BY <1>4 DEF Start
  <2>2. pc' \in {"mst_check", "params", "edge_check", "unknown"}
    BY <2>1, FirstStepOf
  <2> QED BY <1>0, <1>4, <2>1, <2>2 DEF Start
<1>5. ASSUME Leave PROVE PointersValid'
  BY <1>0, <1>5 DEF Leave
<1>6. ASSUME Unknown PROVE PointersValid'
  <2>1. CASE ~Crash
    <3>1. pc = "unknown" /\ pc' \in {"prompt"}
      BY <1>6, <2>1 DEF Unknown, Tell, Goto
    <3>2. UNCHANGED <<calls, dangling, lock, cmd>>
      BY <1>6, <2>1 DEF Unknown, Tell, Goto
    <3> QED BY <1>0, <3>1, <3>2
  <2> QED BY <1>1, <2>1
<1>7. ASSUME Prompt PROVE PointersValid'
  BY <1>0, <1>7 DEF Prompt
<1>8. ASSUME MstCheck PROVE PointersValid'
  BY <1>0, <1>1, <1>8 DEF MstCheck, Tell, Goto
<1>9. ASSUME MstUnknown PROVE PointersValid'
  BY <1>0, <1>9 DEF MstUnknown, Tell, Goto
<1>10. ASSUME MstInvoke PROVE PointersValid'
  <2>1. CASE ~Crash
    <3>1. cmd.op = "MST" /\ cmd.algo # "unknown"
      BY <1>0, <1>10 DEF MstInvoke, CommandInv
    <3>2. cmd.algo \in {"prim", "kruskal"}
      BY <1>0, <3>1, AlgorithmOf DEF TypeOK
    <3>3. calls \in [Names -> {"none", "queued", "running", "value", "broken", "lost"}]
      BY <1>0 DEF TypeOK
    <3>4. \A p \in Names : calls[p] = "none"
      BY <1>0, <1>10 DEF MstInvoke
    <3>5. \A p \in Names : calls'[p] # "none" => p = cmd.algo
      BY <1>10, <2>1, <3>3, <3>4 DEF MstInvoke, Invoke
    <3> QED BY <1>0, <1>10, <2>1, <3>2, <3>5 DEF MstInvoke, Distances
  <2> QED BY <1>1, <2>1
<1>11. ASSUME MstWait PROVE PointersValid'
  <2>1. CASE ~Crash
    <3>1. calls \in [Names -> {"none", "queued", "running", "value", "broken", "lost"}]
      BY <1>0 DEF TypeOK
    <3>2. \A p \in Names : calls[p] # "none" => p = cmd.algo
      BY <1>0, <1>11 DEF MstWait
    <3>3. \A p \in Names : calls'[p] = "none"
      BY <1>11, <2>1, <3>1, <3>2 DEF MstWait
    <3> QED BY <1>0, <1>11, <2>1, <3>3 DEF MstWait
  <2> QED BY <1>1, <2>1
<1>12. ASSUME MstAsk PROVE PointersValid'
  <2>1. CASE ~Crash
    <3>1. PICK o \in Distances : Invoke(o) /\ pc' \in {"mst_gather", pc}
      BY <1>12, <2>1 DEF MstAsk
    <3>2. \A p \in Names : calls'[p] # "none" => p \in Distances
      BY <1>0, <1>12, <3>1 DEF MstAsk, Invoke
    <3> QED BY <1>0, <1>12, <2>1, <3>1, <3>2 DEF MstAsk
  <2> QED BY <1>1, <2>1
<1>13. ASSUME MstGather PROVE PointersValid'
  BY <1>0, <1>1, <1>13 DEF MstGather
<1>14. ASSUME MstSend PROVE PointersValid'
  BY <1>0, <1>1, <1>14 DEF MstSend
<1>15. ASSUME Params PROVE PointersValid'
  BY <1>0, <1>1, <1>15 DEF Params, Tell, Goto
<1>16. ASSUME NewgraphLock PROVE PointersValid'
  BY <1>0, <1>16 DEF NewgraphLock
<1>17. ASSUME ReceiveEdge PROVE PointersValid'
  BY <1>0, <1>17 DEF ReceiveEdge
<1>18. ASSUME Replace PROVE PointersValid'
  BY <1>0, <1>1, <1>18 DEF Replace
<1>19. ASSUME EdgeCheck PROVE PointersValid'
  <2>1. CASE ~Crash
    <3>1. pc = "edge_check" /\ pc' \in {"prompt", "params"}
      BY <1>19, <2>1 DEF EdgeCheck, Tell, Goto
    <3>2. UNCHANGED <<calls, dangling, lock, cmd>>
      BY <1>19, <2>1 DEF EdgeCheck, Tell, Goto
    <3> QED BY <1>0, <3>1, <3>2
  <2> QED BY <1>1, <2>1
<1>20. ASSUME EdgeWrite PROVE PointersValid'
  BY <1>0, <1>1, <1>20 DEF EdgeWrite, Tell, Goto
<1>21. ASSUME MainReturns PROVE PointersValid'
  BY <1>0, <1>21 DEF MainReturns
<1>22. ASSUME AcceptFails PROVE PointersValid'
  BY <1>0, <1>22 DEF AcceptFails
<1>23. ASSUME GreetingFails PROVE PointersValid'
  BY <1>0, <1>23 DEF GreetingFails
<1>24. ASSUME Stopped PROVE PointersValid'
  BY <1>0, <1>1, <1>24 DEF Stopped
<1>25. ASSUME DestroyReactor PROVE PointersValid'
  BY <1>0, <1>25 DEF DestroyReactor
<1>26. ASSUME NEW o \in Names, Take(o) PROVE PointersValid'
  BY <1>0, <1>26 DEF Take
<1>27. ASSUME NEW o \in Names, Return(o) PROVE PointersValid'
  <2>1. CASE ~Crash
    <3>1. calls \in [Names -> {"none", "queued", "running", "value", "broken", "lost"}]
      BY <1>0 DEF TypeOK
    <3>2. calls[o] # "none" /\ calls' = [calls EXCEPT ![o] = "value"]
      BY <1>0, <1>27, <2>1 DEF Return, ObjectInv
    <3>3. \A p \in Names : calls'[p] # "none" => calls[p] # "none"
      BY <3>1, <3>2
    <3>4. UNCHANGED <<pc, dangling, lock, cmd>>
      BY <1>27, <2>1 DEF Return
    <3> QED BY <1>0, <3>3, <3>4
  <2> QED BY <1>1, <2>1
<1>28. ASSUME NEW o \in Names, TimeOut(o) PROVE PointersValid'
  BY <1>0, <1>28 DEF TimeOut
<1>29. ASSUME NEW o \in Names, SetDone(o) PROVE PointersValid'
  BY <1>0, <1>29 DEF SetDone
<1>30. ASSUME NEW o \in Names, Join(o) PROVE PointersValid'
  BY <1>0, <1>30 DEF Join
<1>31. ASSUME NEW o \in Names, DestroyMembers(o) PROVE PointersValid'
  BY <1>0, <1>31 DEF DestroyMembers
<1>32. ASSUME UNCHANGED vars PROVE PointersValid'
  BY <1>0, <1>32 DEF vars
<1> QED
  BY <1>2, <1>3, <1>4, <1>5, <1>6, <1>7, <1>8, <1>9, <1>10, <1>11, <1>12, <1>13,
     <1>14, <1>15, <1>16, <1>17, <1>18, <1>19, <1>20, <1>21, <1>22, <1>23, <1>24,
     <1>25, <1>26, <1>27, <1>28, <1>29, <1>30, <1>31, <1>32
  DEF Next, ReactorStep, MstStep, NewgraphStep, EdgeStep, Dispatcher, DestroyStep

\* The steps keep the state of an active object coherent.
LEMMA ObjectStep ==
  ASSUME IInv, [Next]_vars
  PROVE  ObjectInv'
<1> USE DEF ObjectInv, TypeOK, graphVars, commandVars, objectVars, mainVars
<1>0. TypeOK /\ ObjectInv /\ PointersValid /\ CommandInv
  BY DEF IInv
<1>1. ASSUME Crash PROVE ObjectInv'
  BY <1>0, <1>1 DEF Crash
<1>2. ASSUME Poll PROVE ObjectInv'
  BY <1>0, <1>2 DEF Poll
<1>3. ASSUME BatchDone PROVE ObjectInv'
  BY <1>0, <1>3 DEF BatchDone
<1>4. ASSUME Start PROVE ObjectInv'
  BY <1>0, <1>4 DEF Start
<1>5. ASSUME Leave PROVE ObjectInv'
  BY <1>0, <1>5 DEF Leave
<1>6. ASSUME Unknown PROVE ObjectInv'
  BY <1>0, <1>1, <1>6 DEF Unknown, Tell, Goto
<1>7. ASSUME Prompt PROVE ObjectInv'
  BY <1>0, <1>7 DEF Prompt
<1>8. ASSUME MstCheck PROVE ObjectInv'
  BY <1>0, <1>1, <1>8 DEF MstCheck, Tell, Goto
<1>9. ASSUME MstUnknown PROVE ObjectInv'
  BY <1>0, <1>9 DEF MstUnknown, Tell, Goto
<1>10. ASSUME MstInvoke PROVE ObjectInv'
  <2>1. CASE ~Crash
    <3>1. cmd.algo \in Names /\ calls[cmd.algo] = "none"
      BY <1>0, <1>10, AlgorithmOf DEF MstInvoke, CommandInv, PointersValid, Sharing, Measuring, Names
    <3> QED BY <1>0, <1>10, <2>1, <3>1 DEF MstInvoke, Invoke
  <2> QED BY <1>1, <2>1
<1>11. ASSUME MstWait PROVE ObjectInv'
  BY <1>0, <1>1, <1>11 DEF MstWait
<1>12. ASSUME MstAsk PROVE ObjectInv'
  BY <1>0, <1>1, <1>12 DEF MstAsk, Invoke
<1>13. ASSUME MstGather PROVE ObjectInv'
  BY <1>0, <1>1, <1>13 DEF MstGather
<1>14. ASSUME MstSend PROVE ObjectInv'
  BY <1>0, <1>1, <1>14 DEF MstSend
<1>15. ASSUME Params PROVE ObjectInv'
  BY <1>0, <1>1, <1>15 DEF Params, Tell, Goto
<1>16. ASSUME NewgraphLock PROVE ObjectInv'
  BY <1>0, <1>16 DEF NewgraphLock
<1>17. ASSUME ReceiveEdge PROVE ObjectInv'
  BY <1>0, <1>17 DEF ReceiveEdge
<1>18. ASSUME Replace PROVE ObjectInv'
  BY <1>0, <1>1, <1>18 DEF Replace
<1>19. ASSUME EdgeCheck PROVE ObjectInv'
  BY <1>0, <1>1, <1>19 DEF EdgeCheck, Tell, Goto
<1>20. ASSUME EdgeWrite PROVE ObjectInv'
  BY <1>0, <1>1, <1>20 DEF EdgeWrite, Tell, Goto
<1>21. ASSUME MainReturns PROVE ObjectInv'
  BY <1>0, <1>21 DEF MainReturns
<1>22. ASSUME AcceptFails PROVE ObjectInv'
  BY <1>0, <1>22 DEF AcceptFails
<1>23. ASSUME GreetingFails PROVE ObjectInv'
  BY <1>0, <1>23 DEF GreetingFails
<1>24. ASSUME Stopped PROVE ObjectInv'
  BY <1>0, <1>1, <1>24 DEF Stopped
<1>25. ASSUME DestroyReactor PROVE ObjectInv'
  BY <1>0, <1>25 DEF DestroyReactor
<1>26. ASSUME NEW o \in Names, Take(o) PROVE ObjectInv'
  BY <1>0, <1>26 DEF Take
<1>27. ASSUME NEW o \in Names, Return(o) PROVE ObjectInv'
  BY <1>0, <1>1, <1>27 DEF Return
<1>28. ASSUME NEW o \in Names, TimeOut(o) PROVE ObjectInv'
  BY <1>0, <1>28 DEF TimeOut
<1>29. ASSUME NEW o \in Names, SetDone(o) PROVE ObjectInv'
  BY <1>0, <1>29 DEF SetDone
<1>30. ASSUME NEW o \in Names, Join(o) PROVE ObjectInv'
  BY <1>0, <1>30 DEF Join
<1>31. ASSUME NEW o \in Names, DestroyMembers(o) PROVE ObjectInv'
  BY <1>0, <1>31 DEF DestroyMembers
<1>32. ASSUME UNCHANGED vars PROVE ObjectInv'
  BY <1>0, <1>32 DEF vars
<1> QED
  BY <1>2, <1>3, <1>4, <1>5, <1>6, <1>7, <1>8, <1>9, <1>10, <1>11, <1>12, <1>13,
     <1>14, <1>15, <1>16, <1>17, <1>18, <1>19, <1>20, <1>21, <1>22, <1>23, <1>24,
     <1>25, <1>26, <1>27, <1>28, <1>29, <1>30, <1>31, <1>32
  DEF Next, ReactorStep, MstStep, NewgraphStep, EdgeStep, Dispatcher, DestroyStep

\* The steps keep the order in which main stops the reactor and destroys objects.
LEMMA MainStep ==
  ASSUME IInv, [Next]_vars
  PROVE  (MainInv /\ CleanExit)'
<1> USE DEF MainInv, CleanExit, AllGone, graphVars, commandVars, objectVars, mainVars
<1>0. TypeOK /\ MainInv /\ CleanExit /\ ObjectInv
  BY DEF IInv
<1>1. ASSUME Crash PROVE (MainInv /\ CleanExit)'
  BY <1>0, <1>1 DEF Crash
<1>2. ASSUME Poll PROVE (MainInv /\ CleanExit)'
  BY <1>0, <1>2 DEF Poll
<1>3. ASSUME BatchDone PROVE (MainInv /\ CleanExit)'
  BY <1>0, <1>3 DEF BatchDone
<1>4. ASSUME Start PROVE (MainInv /\ CleanExit)'
  <2>1. PICK c \in Commands : cmd' = c /\ pc' = FirstStep(c)
    BY <1>4 DEF Start
  <2>2. pc' \in {"mst_check", "params", "edge_check", "unknown"}
    BY <2>1, FirstStepOf
  <2> QED BY <1>0, <1>4, <2>1, <2>2 DEF Start
<1>5. ASSUME Leave PROVE (MainInv /\ CleanExit)'
  <2>1. ~running => ~running'
    BY <1>0, <1>5 DEF Leave
  <2>2. UNCHANGED <<flag, mpc, life, pc>> /\ pc = "act"
    BY <1>0, <1>5 DEF Leave
  <2>3. CleanExit'
    BY <1>0, <2>1, <2>2
  <2>4. MainInv'
    BY <1>0, <2>1, <2>2
  <2> QED BY <2>3, <2>4
<1>6. ASSUME Unknown PROVE (MainInv /\ CleanExit)'
  <2>1. CASE ~Crash
    <3>1. pc = "unknown" /\ pc' \in {"prompt"}
      BY <1>6, <2>1 DEF Unknown, Tell, Goto
    <3>2. UNCHANGED <<running, flag, mpc, life, batch>>
      BY <1>6, <2>1 DEF Unknown, Tell, Goto
    <3> QED BY <1>0, <3>1, <3>2
  <2> QED BY <1>1, <2>1
<1>7. ASSUME Prompt PROVE (MainInv /\ CleanExit)'
  BY <1>0, <1>7 DEF Prompt
<1>8. ASSUME MstCheck PROVE (MainInv /\ CleanExit)'
  BY <1>0, <1>1, <1>8 DEF MstCheck, Tell, Goto
<1>9. ASSUME MstUnknown PROVE (MainInv /\ CleanExit)'
  BY <1>0, <1>9 DEF MstUnknown, Tell, Goto
<1>10. ASSUME MstInvoke PROVE (MainInv /\ CleanExit)'
  BY <1>0, <1>1, <1>10 DEF MstInvoke, Invoke
<1>11. ASSUME MstWait PROVE (MainInv /\ CleanExit)'
  BY <1>0, <1>1, <1>11 DEF MstWait
<1>12. ASSUME MstAsk PROVE (MainInv /\ CleanExit)'
  BY <1>0, <1>1, <1>12 DEF MstAsk, Invoke
<1>13. ASSUME MstGather PROVE (MainInv /\ CleanExit)'
  BY <1>0, <1>1, <1>13 DEF MstGather
<1>14. ASSUME MstSend PROVE (MainInv /\ CleanExit)'
  BY <1>0, <1>1, <1>14 DEF MstSend
<1>15. ASSUME Params PROVE (MainInv /\ CleanExit)'
  BY <1>0, <1>1, <1>15 DEF Params, Tell, Goto
<1>16. ASSUME NewgraphLock PROVE (MainInv /\ CleanExit)'
  BY <1>0, <1>16 DEF NewgraphLock
<1>17. ASSUME ReceiveEdge PROVE (MainInv /\ CleanExit)'
  BY <1>0, <1>17 DEF ReceiveEdge
<1>18. ASSUME Replace PROVE (MainInv /\ CleanExit)'
  BY <1>0, <1>1, <1>18 DEF Replace
<1>19. ASSUME EdgeCheck PROVE (MainInv /\ CleanExit)'
  BY <1>0, <1>1, <1>19 DEF EdgeCheck, Tell, Goto
<1>20. ASSUME EdgeWrite PROVE (MainInv /\ CleanExit)'
  BY <1>0, <1>1, <1>20 DEF EdgeWrite, Tell, Goto
<1>21. ASSUME MainReturns PROVE (MainInv /\ CleanExit)'
  BY <1>0, <1>21 DEF MainReturns
<1>22. ASSUME AcceptFails PROVE (MainInv /\ CleanExit)'
  BY <1>0, <1>22 DEF AcceptFails
<1>23. ASSUME GreetingFails PROVE (MainInv /\ CleanExit)'
  BY <1>0, <1>23 DEF GreetingFails
<1>24. ASSUME Stopped PROVE (MainInv /\ CleanExit)'
  BY <1>0, <1>1, <1>24 DEF Stopped
<1>25. ASSUME DestroyReactor PROVE (MainInv /\ CleanExit)'
  BY <1>0, <1>25 DEF DestroyReactor
<1>26. ASSUME NEW o \in Names, Take(o) PROVE (MainInv /\ CleanExit)'
  BY <1>0, <1>26 DEF Take
<1>27. ASSUME NEW o \in Names, Return(o) PROVE (MainInv /\ CleanExit)'
  BY <1>0, <1>1, <1>27 DEF Return
<1>28. ASSUME NEW o \in Names, TimeOut(o) PROVE (MainInv /\ CleanExit)'
  BY <1>0, <1>28 DEF TimeOut
<1>29. ASSUME NEW o \in Names, SetDone(o) PROVE (MainInv /\ CleanExit)'
  BY <1>0, <1>29 DEF SetDone
<1>30. ASSUME NEW o \in Names, Join(o) PROVE (MainInv /\ CleanExit)'
  BY <1>0, <1>30 DEF Join
<1>31. ASSUME NEW o \in Names, DestroyMembers(o) PROVE (MainInv /\ CleanExit)'
  BY <1>0, <1>31 DEF DestroyMembers
<1>32. ASSUME UNCHANGED vars PROVE (MainInv /\ CleanExit)'
  BY <1>0, <1>32 DEF vars
<1> QED
  BY <1>2, <1>3, <1>4, <1>5, <1>6, <1>7, <1>8, <1>9, <1>10, <1>11, <1>12, <1>13,
     <1>14, <1>15, <1>16, <1>17, <1>18, <1>19, <1>20, <1>21, <1>22, <1>23, <1>24,
     <1>25, <1>26, <1>27, <1>28, <1>29, <1>30, <1>31, <1>32
  DEF Next, ReactorStep, MstStep, NewgraphStep, EdgeStep, Dispatcher, DestroyStep

\* The steps keep what the place of the handler says of its command and of the graph.
LEMMA CommandStep ==
  ASSUME IInv, [Next]_vars
  PROVE  CommandInv'
<1> USE DEF CommandInv, Sharing, Measuring, graphVars, commandVars, objectVars, mainVars
<1>0. TypeOK /\ CommandInv /\ PointersValid /\ ObjectInv
  BY DEF IInv
<1>1. ASSUME Crash PROVE CommandInv'
  BY <1>0, <1>1 DEF Crash
<1>2. ASSUME Poll PROVE CommandInv'
  BY <1>0, <1>2 DEF Poll
<1>3. ASSUME BatchDone PROVE CommandInv'
  BY <1>0, <1>3 DEF BatchDone
<1>4. ASSUME Start PROVE CommandInv'
  <2>1. PICK c \in Commands : cmd' = c /\ pc' = FirstStep(c)
    BY <1>4 DEF Start
  <2>2. /\ pc' \in {"mst_check", "params", "edge_check", "unknown"}
        /\ pc' = "mst_check" => c.op = "MST"
        /\ pc' = "params" => c.op = "Newgraph"
        /\ pc' = "edge_check" => c.op \in {"Newedge", "Removeedge"}
        /\ pc' = "unknown" => c.op = "Unknown"
    BY <2>1, FirstStepOf
  <2> QED BY <1>0, <1>4, <2>1, <2>2 DEF Start
<1>5. ASSUME Leave PROVE CommandInv'
  BY <1>0, <1>5 DEF Leave
<1>6. ASSUME Unknown PROVE CommandInv'
  BY <1>0, <1>1, <1>6 DEF Unknown, Tell, Goto
<1>7. ASSUME Prompt PROVE CommandInv'
  BY <1>0, <1>7 DEF Prompt
<1>8. ASSUME MstCheck PROVE CommandInv'
  <2>1. CASE ~Crash
    <3>1. Refusal(graph) = "none" => graph # NoGraph /\ Connected(graph)
      BY DEF Refusal
    <3>2. Refusal(graph) \in {"none", "no graph", "not connected"}
      BY DEF Refusal
    <3> QED BY <1>0, <1>8, <2>1, <3>1, <3>2 DEF MstCheck, Tell, Goto
  <2> QED BY <1>1, <2>1
<1>9. ASSUME MstUnknown PROVE CommandInv'
  BY <1>0, <1>9 DEF MstUnknown, Tell, Goto
<1>10. ASSUME MstInvoke PROVE CommandInv'
  BY <1>0, <1>1, <1>10 DEF MstInvoke, Invoke
<1>11. ASSUME MstWait PROVE CommandInv'
  BY <1>0, <1>1, <1>11 DEF MstWait
<1>12. ASSUME MstAsk PROVE CommandInv'
  BY <1>0, <1>1, <1>12 DEF MstAsk, Invoke
<1>13. ASSUME MstGather PROVE CommandInv'
  BY <1>0, <1>1, <1>13 DEF MstGather
<1>14. ASSUME MstSend PROVE CommandInv'
  BY <1>0, <1>1, <1>14 DEF MstSend
<1>15. ASSUME Params PROVE CommandInv'
  BY <1>0, <1>1, <1>15 DEF Params, Tell, Goto
<1>16. ASSUME NewgraphLock PROVE CommandInv'
  BY <1>0, <1>16 DEF NewgraphLock
<1>17. ASSUME ReceiveEdge PROVE CommandInv'
  BY <1>0, <1>17 DEF ReceiveEdge
<1>18. ASSUME Replace PROVE CommandInv'
  BY <1>0, <1>1, <1>18 DEF Replace
<1>19. ASSUME EdgeCheck PROVE CommandInv'
  BY <1>0, <1>1, <1>19 DEF EdgeCheck, Tell, Goto
<1>20. ASSUME EdgeWrite PROVE CommandInv'
  <2>1. CASE ~Crash
    <3>1. reply' \notin {"none", "ignored"}
      BY <1>20, <2>1 DEF EdgeWrite, EdgeReply, Tell
    <3>2. pc' = "prompt" /\ cmd' = cmd /\ mst' = mst
      BY <1>20, <2>1 DEF EdgeWrite, Tell, Goto
    <3> QED BY <1>0, <1>20, <3>1, <3>2 DEF EdgeWrite
  <2> QED BY <1>1, <2>1
<1>21. ASSUME MainReturns PROVE CommandInv'
  BY <1>0, <1>21 DEF MainReturns
<1>22. ASSUME AcceptFails PROVE CommandInv'
  BY <1>0, <1>22 DEF AcceptFails
<1>23. ASSUME GreetingFails PROVE CommandInv'
  BY <1>0, <1>23 DEF GreetingFails
<1>24. ASSUME Stopped PROVE CommandInv'
  BY <1>0, <1>1, <1>24 DEF Stopped
<1>25. ASSUME DestroyReactor PROVE CommandInv'
  BY <1>0, <1>25 DEF DestroyReactor
<1>26. ASSUME NEW o \in Names, Take(o) PROVE CommandInv'
  BY <1>0, <1>26 DEF Take
<1>27. ASSUME NEW o \in Names, Return(o) PROVE CommandInv'
  BY <1>0, <1>1, <1>27 DEF Return
<1>28. ASSUME NEW o \in Names, TimeOut(o) PROVE CommandInv'
  BY <1>0, <1>28 DEF TimeOut
<1>29. ASSUME NEW o \in Names, SetDone(o) PROVE CommandInv'
  BY <1>0, <1>29 DEF SetDone
<1>30. ASSUME NEW o \in Names, Join(o) PROVE CommandInv'
  BY <1>0, <1>30 DEF Join
<1>31. ASSUME NEW o \in Names, DestroyMembers(o) PROVE CommandInv'
  BY <1>0, <1>31 DEF DestroyMembers
<1>32. ASSUME UNCHANGED vars PROVE CommandInv'
  BY <1>0, <1>32 DEF vars
<1> QED
  BY <1>2, <1>3, <1>4, <1>5, <1>6, <1>7, <1>8, <1>9, <1>10, <1>11, <1>12, <1>13,
     <1>14, <1>15, <1>16, <1>17, <1>18, <1>19, <1>20, <1>21, <1>22, <1>23, <1>24,
     <1>25, <1>26, <1>27, <1>28, <1>29, <1>30, <1>31, <1>32
  DEF Next, ReactorStep, MstStep, NewgraphStep, EdgeStep, Dispatcher, DestroyStep

\* The initial states satisfy the invariant.
LEMMA InitInv == Init => IInv
<1> SUFFICES ASSUME Init PROVE IInv
  OBVIOUS
<1>1. TypeOK
  <2>1. pc \in Places /\ reply \in Replies
    BY DEF Init, Places, Replies
  <2>2. cmd \in Commands
    BY DEF Init, Commands
  <2>3. batch \in 0..MaxBatch /\ left \in 0..MaxEdges
    BY CommandAssumption, PLAssumption DEF Init
  <2>4. got \in Seq(Edges)
    BY DEF Init
  <2> QED BY <2>1, <2>2, <2>3, <2>4 DEF Init, TypeOK
<1>2. PointersValid /\ CleanExit /\ ObjectInv
  BY DEF Init, PointersValid, Sharing, Measuring, CleanExit, ObjectInv
<1>3. MainInv
  BY DEF Init, MainInv, AllGone, Names
<1>4. CommandInv
  BY DEF Init, CommandInv, Sharing, Measuring
<1> QED BY <1>1, <1>2, <1>3, <1>4 DEF IInv

\* The inductive invariant.
THEOREM InvariantHolds == Spec => []IInv
<1>1. IInv /\ [Next]_vars => IInv'
  BY TypeStep, PointersStep, ObjectStep, MainStep, CommandStep DEF IInv
<1> QED BY InitInv, <1>1, PTL DEF Spec

\* The threads of the active objects only run while the handler of the reactor, whose
\* graph_mutex and whose Subgraph they use through pointers, is waiting for them.
THEOREM PointersStayValid == Spec => []PointersValid
<1>1. IInv => PointersValid
  BY DEF IInv
<1> QED BY <1>1, InvariantHolds, PTL

\* An exit by a failing accept() or greeting destroys no active object before the
\* reactor thread is joined, and the program ends with no thread left.
THEOREM ExitsCleanly == Spec => []CleanExit
<1>1. IInv => CleanExit
  BY DEF IInv
<1> QED BY <1>1, InvariantHolds, PTL

-----------------------------------------------------------------------------
(* The refinement.                                                          *)

\* The operators of the abstract module are those of this one.
LEMMA SameOperators ==
  /\ Service!Commands = Commands
  /\ Service!NoCommand = [op |-> "Unknown"]
  /\ \A c : Service!EdgeAccepted(graph, c) <=> EdgeAccepted(graph, c)
  /\ \A c : Service!EdgeEffect(graph, c) = EdgeEffect(graph, c)
  /\ \A c : Service!EdgeReply(graph, c) = EdgeReply(graph, c)
  /\ \A n : Service!GraphsOf(n) = GraphsOf(n)
  /\ \A p : Service!Number(p) = Number(p)
  /\ Service!Connected(graph) <=> Connected(graph)
  /\ Service!Refusal(graph) = Refusal(graph)
<1>1. \A p : Service!Number(p) = Number(p)
  BY DEF Service!Number, Number
<1>2. Service!Commands = Commands
  BY DEF Service!Commands, Commands, Service!Algorithms, Algorithms
<1>3. \A c : Service!NewWeight(c) = NewWeight(c)
  BY <1>1 DEF Service!NewWeight, NewWeight
<1>4. \A n : Service!PairsOf(n) = PairsOf(n)
  BY DEF Service!PairsOf, PairsOf, Service!VerticesOf, VerticesOf
<1>5. \A n : Service!GraphsOf(n) = GraphsOf(n)
  BY <1>4 DEF Service!GraphsOf, GraphsOf
<1>6. Service!Connected(graph) <=> Connected(graph)
  BY DEF Service!Connected, Connected, Service!VerticesOf, VerticesOf
<1>7. \A c : Service!EdgeAccepted(graph, c) <=> EdgeAccepted(graph, c)
  BY <1>1, <1>3 DEF Service!EdgeAccepted, EdgeAccepted
<1>8. \A a, b, w : Service!WithEdge(graph, a, b, w) = WithEdge(graph, a, b, w)
  BY DEF Service!WithEdge, WithEdge
<1>9. \A c : Service!EdgeEffect(graph, c) = EdgeEffect(graph, c)
  BY <1>1, <1>3, <1>8 DEF Service!EdgeEffect, EdgeEffect
<1>10. \A a, b : Service!Previous(graph, a, b) = Previous(graph, a, b)
  BY DEF Service!Previous, Previous
<1>11. \A c : Service!EdgeReply(graph, c) = EdgeReply(graph, c)
  BY <1>1, <1>10 DEF Service!EdgeReply, EdgeReply
<1>12. Service!Refusal(graph) = Refusal(graph)
  BY <1>6 DEF Service!Refusal, Refusal
<1> QED BY <1>1, <1>2, <1>5, <1>6, <1>7, <1>9, <1>11, <1>12
        DEF Service!NoCommand

\* A step that changes neither the graph nor the command nor the answer.
LEMMA Stutter ==
  ASSUME UNCHANGED <<graph, cmd>>, AnswerOf' = AnswerOf
  PROVE  UNCHANGED Service!serviceVars
BY DEF Service!serviceVars

\* A step that leaves alone whatever the answer is read from.
LEMMA StutterAtPlace ==
  ASSUME UNCHANGED <<graph, cmd, reply, mst, pc>>
  PROVE  UNCHANGED Service!serviceVars
BY Stutter DEF AnswerOf

\* Every step maps to a step of GraphService or to a stutter.
LEMMA ServiceStep ==
  ASSUME IInv, IInv', [Next]_vars
  PROVE  [Service!ServiceNext]_(Service!serviceVars)
<1> USE DEF Goto, Tell, graphVars, commandVars, objectVars, mainVars
<1> DEFINE Abstract == [Service!ServiceNext]_(Service!serviceVars)
           Open(place) == place \in
             {"unknown", "mst_check", "mst_lock", "mst_wait", "params",
              "newgraph_lock", "newgraph_edges", "edge_check", "edge_write"}
<1>0. TypeOK /\ CommandInv
  BY DEF IInv
<1>a. /\ Open(pc) => AnswerOf = "none"
      /\ Open(pc') => AnswerOf' = "none"
      /\ pc \in {"check", "act", "exited"} => AnswerOf = "idle"
      /\ pc' \in {"check", "act", "exited"} => AnswerOf' = "idle"
      /\ pc = "prompt"
           => AnswerOf = IF cmd.op = "Newgraph" THEN "done" ELSE reply
      /\ pc' = "prompt"
           => AnswerOf' = IF cmd'.op = "Newgraph" THEN "done" ELSE reply'
      /\ pc' \in {"mst_ask", "mst_gather", "mst_send"} => AnswerOf' = mst'
      /\ pc \in {"mst_ask", "mst_gather", "mst_send"} => AnswerOf = mst
  BY DEF AnswerOf, Measuring
<1>b. ASSUME Service!Effect("reactor") PROVE Abstract
  BY <1>b DEF Service!ServiceNext
<1> HIDE DEF Open
<1>1. ASSUME UNCHANGED <<graph, cmd, reply, mst, pc>> PROVE Abstract
  BY <1>1, StutterAtPlace
<1>2. ASSUME Crash \/ UNCHANGED vars PROVE Abstract
  BY <1>1, <1>2 DEF Crash, vars
<1>3. ASSUME UNCHANGED <<graph, cmd>>, Open(pc), Open(pc') PROVE Abstract
  BY <1>3, <1>a, Stutter
<1>4. ASSUME Poll \/ BatchDone PROVE Abstract
  <2>1. AnswerOf = "idle" /\ AnswerOf' = "idle"
    BY <1>4, <1>a DEF Poll, BatchDone
  <2> QED BY <1>4, <2>1, Stutter DEF Poll, BatchDone
<1>5. ASSUME Start PROVE Abstract
  <2>1. PICK c \in Commands : cmd' = c /\ pc' = FirstStep(c) /\ pc = "act"
                              /\ graph' = graph
    BY <1>5 DEF Start
  <2>2. AnswerOf = "idle" /\ AnswerOf' = "none"
    BY <1>a, <2>1, FirstStepOf DEF Open
  <2>3. Service!Call("reactor")
    BY <2>1, <2>2, SameOperators DEF Service!Call
  <2> QED BY <2>3 DEF Service!ServiceNext
<1>6. ASSUME Leave PROVE Abstract
  BY <1>1, <1>6 DEF Leave
<1>7. ASSUME Unknown, ~Crash PROVE Abstract
  <2>1. cmd.op = "Unknown" /\ UNCHANGED <<graph, cmd>>
    BY <1>0, <1>7 DEF Unknown, CommandInv
  <2>2. AnswerOf = "none" /\ AnswerOf' = "unknown command"
    BY <1>7, <1>a, <2>1 DEF Unknown, Open
  <2>3. Service!Effect("reactor")
    BY <2>1, <2>2 DEF Service!Effect
  <2> QED BY <1>b, <2>3
<1>8. ASSUME Prompt PROVE Abstract
  <2>1. AnswerOf \notin {"idle", "none"}
    <3>1. AnswerOf = IF cmd.op = "Newgraph" THEN "done" ELSE reply
      BY <1>8, <1>a DEF Prompt
    <3>2. reply # "idle"
      BY <1>0 DEF TypeOK, Replies
    <3> QED BY <1>0, <1>8, <3>1, <3>2 DEF Prompt, CommandInv
  <2>2. AnswerOf' = "idle" /\ cmd' = [op |-> "Unknown"] /\ graph' = graph
    BY <1>8, <1>a DEF Prompt
  <2>3. Service!Return("reactor")
    BY <2>1, <2>2, SameOperators DEF Service!Return
  <2> QED BY <2>3 DEF Service!ServiceNext
<1>9. ASSUME NEW result, Service!MstAnswer(cmd, result),
             result \in {"no graph", "not connected", "unknown algorithm", "tree"},
             AnswerOf = "none", AnswerOf' = result,
             UNCHANGED <<graph, cmd>>, cmd.op = "MST"
      PROVE  Abstract
  <2>1. Service!Effect("reactor")
    BY <1>9 DEF Service!Effect
  <2> QED BY <1>b, <2>1
<1>10. ASSUME MstStep, ~Crash PROVE Abstract
  <2> HIDE DEF Abstract
  <2>1. CASE MstCheck
    <3>1. /\ pc = "mst_check" /\ cmd.op = "MST" /\ reply' = Refusal(graph)
          /\ pc' = IF Refusal(graph) = "none" THEN "mst_lock" ELSE "prompt"
          /\ UNCHANGED <<graph, cmd>>
      BY <1>0, <1>10, <2>1 DEF MstCheck, CommandInv
    <3>2. CASE Refusal(graph) = "none"
      BY <1>3, <3>1, <3>2 DEF Open
    <3>3. CASE Refusal(graph) # "none"
      <4>1. AnswerOf = "none" /\ AnswerOf' = Refusal(graph)
        BY <1>a, <3>1, <3>3 DEF Open
      <4>2. Refusal(graph) \in {"no graph", "not connected"}
        BY <3>3 DEF Refusal
      <4>3. Service!MstAnswer(cmd, Refusal(graph))
        BY <3>3, SameOperators DEF Service!MstAnswer
      <4> QED BY <1>9, <3>1, <4>1, <4>2, <4>3
    <3> QED BY <3>2, <3>3
  <2>2. CASE MstUnknown
    <3>1. /\ pc = "mst_lock" /\ pc' = "prompt" /\ reply' = "unknown algorithm"
          /\ cmd.algo = "unknown" /\ UNCHANGED <<graph, cmd>>
      BY <2>2 DEF MstUnknown
    <3>2. cmd.op = "MST" /\ graph # NoGraph
      BY <1>0, <3>1 DEF CommandInv
    <3>3. AnswerOf = "none" /\ AnswerOf' = "unknown algorithm"
      BY <1>a, <3>1, <3>2 DEF Open
    <3>4. Service!MstAnswer(cmd, "unknown algorithm")
      BY <3>1, <3>2 DEF Service!MstAnswer
    <3> QED BY <1>9, <3>1, <3>2, <3>3, <3>4
  <2>3. CASE MstInvoke
    <3>1. pc = "mst_lock" /\ pc' = "mst_wait" /\ UNCHANGED <<graph, cmd>>
      BY <1>10, <2>3 DEF MstInvoke
    <3> QED BY <1>3, <3>1 DEF Open
  <2>4. CASE MstWait
    <3>1. /\ pc = "mst_wait" /\ pc' = "mst_ask"
          /\ mst' = IF Connected(graph) THEN "tree" ELSE "forest"
          /\ UNCHANGED <<graph, cmd>>
      BY <1>10, <2>4 DEF MstWait
    <3>2. /\ cmd.op = "MST" /\ cmd.algo # "unknown"
          /\ graph # NoGraph /\ Connected(graph)
      BY <1>0, <3>1 DEF CommandInv, Sharing
    <3>3. AnswerOf = "none" /\ AnswerOf' = "tree"
      BY <1>a, <3>1, <3>2 DEF Open
    <3>4. Service!MstAnswer(cmd, "tree")
      BY <3>2, SameOperators DEF Service!MstAnswer
    <3> QED BY <1>9, <3>1, <3>2, <3>3, <3>4
  <2>5. CASE MstAsk \/ MstGather
    <3>1. /\ pc \in {"mst_ask", "mst_gather"}
          /\ pc' \in {"mst_ask", "mst_gather", "mst_send"}
          /\ UNCHANGED <<graph, cmd, mst>>
      BY <1>10, <2>5 DEF MstAsk, MstGather
    <3> QED BY <1>a, <3>1, Stutter DEF Abstract
  <2>6. CASE MstSend
    <3>1. /\ pc = "mst_send" /\ pc' = "prompt" /\ reply' = mst
          /\ UNCHANGED <<graph, cmd>>
      BY <1>10, <2>6 DEF MstSend
    <3>2. cmd.op = "MST"
      BY <1>0, <3>1 DEF CommandInv
    <3> QED BY <1>a, <3>1, <3>2, Stutter DEF Abstract
  <2> QED BY <1>10, <2>1, <2>2, <2>3, <2>4, <2>5, <2>6 DEF MstStep
<1>11. ASSUME Params, ~Crash PROVE Abstract
  <2>1. /\ pc = "params" /\ pc' \in {"newgraph_lock", "edge_write"}
        /\ UNCHANGED <<graph, cmd>>
    BY <1>11 DEF Params
  <2> QED BY <1>3, <2>1 DEF Open
<1>12. ASSUME NewgraphStep, ~Crash PROVE Abstract
  <2>1. CASE NewgraphLock \/ ReceiveEdge
    <3>1. /\ pc \in {"newgraph_lock", "newgraph_edges"}
          /\ pc' \in {"newgraph_lock", "newgraph_edges"}
          /\ UNCHANGED <<graph, cmd>>
      BY <2>1 DEF NewgraphLock, ReceiveEdge
    <3> QED BY <1>3, <3>1 DEF Open
  <2>2. CASE Replace
    <3>1. /\ pc = "newgraph_edges" /\ pc' = "prompt"
          /\ graph' = Construct(Number(cmd.n), got)
          /\ cmd' = cmd
      BY <1>12, <2>2 DEF Replace
    <3>2. cmd.op = "Newgraph" /\ got \in Seq(Edges)
      BY <1>0, <3>1 DEF CommandInv, TypeOK
    <3>3. graph' \in GraphsOf(Number(cmd.n))
      BY <1>0, <3>1, <3>2, Parameters, ConstructGraph DEF TypeOK
    <3>4. AnswerOf = "none"
      BY <1>a, <3>1 DEF Open
    <3>5. AnswerOf' = "done"
      BY <1>a, <3>1, <3>2
    <3>6. Service!Effect("reactor")
      BY <3>1, <3>2, <3>3, <3>4, <3>5, SameOperators DEF Service!Effect
    <3> QED BY <1>b, <3>6
  <2> QED BY <1>12, <2>1, <2>2 DEF NewgraphStep
<1>13. ASSUME EdgeStep, ~Crash PROVE Abstract
  <2>0. cmd.op \in {"Newedge", "Removeedge"}
    BY <1>0, <1>13 DEF EdgeStep, EdgeCheck, EdgeWrite, CommandInv
  <2>1. CASE EdgeCheck /\ graph = NoGraph
    <3>1. /\ pc = "edge_check" /\ pc' = "prompt" /\ reply' = "no graph"
          /\ UNCHANGED <<graph, cmd>>
      BY <1>13, <2>1 DEF EdgeCheck
    <3>2. AnswerOf = "none" /\ AnswerOf' = "no graph"
      BY <1>a, <2>0, <3>1 DEF Open
    <3>3. Service!Effect("reactor")
      BY <2>0, <2>1, <3>1, <3>2 DEF Service!Effect
    <3> QED BY <1>b, <3>3
  <2>2. CASE EdgeCheck /\ graph # NoGraph
    <3>1. pc = "edge_check" /\ pc' = "params" /\ UNCHANGED <<graph, cmd>>
      BY <1>13, <2>2 DEF EdgeCheck
    <3> QED BY <1>3, <3>1 DEF Open
  <2>3. CASE EdgeWrite
    <3>1. /\ pc = "edge_write" /\ pc' = "prompt"
          /\ EdgeAccepted(graph, cmd)
          /\ graph' = EdgeEffect(graph, cmd)
          /\ reply' = EdgeReply(graph, cmd)
          /\ cmd' = cmd
      BY <1>13, <2>3 DEF EdgeWrite
    <3>2. graph # NoGraph
      BY <1>0, <3>1 DEF CommandInv
    <3>3. AnswerOf = "none" /\ AnswerOf' = EdgeReply(graph, cmd)
      BY <1>a, <2>0, <3>1 DEF Open
    <3>4. Service!Effect("reactor")
      BY <2>0, <3>1, <3>2, <3>3, SameOperators DEF Service!Effect
    <3> QED BY <1>b, <3>4
  <2> QED BY <1>13, <2>1, <2>2, <2>3 DEF EdgeStep
<1>14. ASSUME NEW o \in Names, Dispatcher(o) \/ SetDone(o) \/ Join(o)
                                 \/ DestroyMembers(o)
       PROVE  Abstract
  BY <1>1, <1>2, <1>14
     DEF Dispatcher, Take, Return, TimeOut, SetDone, Join, DestroyMembers
<1>15. ASSUME MainReturns \/ AcceptFails \/ GreetingFails \/ Stopped
                \/ DestroyReactor
       PROVE  Abstract
  BY <1>1, <1>2, <1>15
     DEF MainReturns, AcceptFails, GreetingFails, Stopped, DestroyReactor
<1> QED
  BY <1>2, <1>4, <1>5, <1>6, <1>7, <1>8, <1>10, <1>11, <1>12, <1>13, <1>14, <1>15
  DEF Next, ReactorStep, DestroyStep

\* The server implements GraphService: every command has its effect, and gets its
\* answer, at one moment.
THEOREM Implements == Spec => ImplementsService
<1>1. Init => Service!ServiceInit
  <2> SUFFICES ASSUME Init PROVE Service!ServiceInit
    OBVIOUS
  <2>1. AnswerOf = "idle"
    BY DEF Init, AnswerOf, Measuring
  <2> QED BY <2>1, SameOperators DEF Init, Service!ServiceInit
<1>2. IInv /\ IInv' /\ [Next]_vars
        => [Service!ServiceNext]_(Service!serviceVars)
  BY ServiceStep
<1> QED
  BY <1>1, <1>2, InvariantHolds, PTL DEF Spec, ImplementsService, Service!Spec

=============================================================================
