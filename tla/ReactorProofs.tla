--------------------------- MODULE ReactorProofs ----------------------------
(***************************************************************************)
(* Proofs about Reactor, for every set of descriptors, every selection of  *)
(* handler outcomes and every number of starts: its safety properties.     *)
(***************************************************************************)
EXTENDS Reactor, DataLemmas

\* Dropping the action just performed shifts the rest of the batch.
LEMMA TailShifts ==
  ASSUME NEW S, NEW s \in Seq(S), s # << >>
  PROVE  /\ Tail(s) \in Seq(S) /\ DOMAIN Tail(s) = 1..(Len(s) - 1)
         /\ Len(s) \in Nat \ {0} /\ DOMAIN s = 1..Len(s)
         /\ \A i \in DOMAIN Tail(s) :
              i + 1 \in DOMAIN s /\ Tail(s)[i] = s[i + 1]
         /\ Head(s) = s[1] /\ Head(s) \in S
BY HeadTailProperties

\* The parts of the invariant about types, descriptors and threads.
LEMMA TypeStep ==
  ASSUME IInv, [Next]_vars
  PROVE  TypeOK' /\ NoDuplicateFds' /\ ThreadInv'
<1> USE ReactorAssumption
    DEF IInv, TypeOK, NoDuplicateFds, ThreadInv, Action, ReactorPCs,
        InHandler, AppPCs, appVars, kernelVars
<1>r. \A fd \in Fds : /\ RemoveFirst(pfds, fd) \in Seq(Fds)
                      /\ IsInjective(RemoveFirst(pfds, fd))
  BY RemoveFirstInjective
<1>t. actions # << >> => /\ Tail(actions) \in Seq(Action)
                         /\ Now \in Action
  BY TailShifts DEF Now
<1>1. ASSUME CheckRunning
      PROVE  TypeOK' /\ NoDuplicateFds' /\ ThreadInv'
  BY <1>1 DEF CheckRunning
<1>2. ASSUME Poll
      PROVE  TypeOK' /\ NoDuplicateFds' /\ ThreadInv'
  <2>1. Len(pfds) \in Nat /\ DOMAIN pfds = 1..Len(pfds)
    OBVIOUS
  <2>2. \A i \in DOMAIN pfds : ActionFor(pfds[i]) \in Action
    BY DEF ActionFor
  <2>3. actions' \in Seq(Action)
    <3> DEFINE batch == [i \in 1..Len(pfds) |-> ActionFor(pfds[i])]
    <3>1. batch \in [1..Len(pfds) -> Action]
      BY <2>1, <2>2
    <3>2. batch \in Seq(Action)
      BY <2>1, <3>1
    <3>3. actions' = batch
      BY <1>2, <2>1 DEF Poll
    <3> QED BY <3>2, <3>3
  <2> QED BY <1>2, <2>3 DEF Poll
<1>3. ASSUME ActionsDone
      PROVE  TypeOK' /\ NoDuplicateFds' /\ ThreadInv'
  BY <1>3 DEF ActionsDone
<1>4. ASSUME PerformRemove
      PROVE  TypeOK' /\ NoDuplicateFds' /\ ThreadInv'
  BY <1>4, <1>r, <1>t DEF PerformRemove, Unregister
<1>5. ASSUME PerformNone
      PROVE  TypeOK' /\ NoDuplicateFds' /\ ThreadInv'
  BY <1>5, <1>t DEF PerformNone
<1>6. ASSUME HandlerRead
      PROVE  TypeOK' /\ NoDuplicateFds' /\ ThreadInv'
  BY <1>6, <1>t, ZenonT(60) DEF HandlerRead, Return
<1>7. ASSUME HandlerClose
      PROVE  TypeOK' /\ NoDuplicateFds' /\ ThreadInv'
  BY <1>7, <1>t DEF HandlerClose, Return
<1>8. ASSUME HandlerRemove
      PROVE  TypeOK' /\ NoDuplicateFds' /\ ThreadInv'
  BY <1>8, <1>r, <1>t DEF HandlerRemove, Return, Unregister
<1>9. ASSUME CallStart
      PROVE  TypeOK' /\ NoDuplicateFds' /\ ThreadInv'
  BY <1>9 DEF CallStart
<1>10. ASSUME CallStop
      PROVE  TypeOK' /\ NoDuplicateFds' /\ ThreadInv'
  BY <1>10 DEF CallStop
<1>11. ASSUME StopRunning
      PROVE  TypeOK' /\ NoDuplicateFds' /\ ThreadInv'
  <2>1. CASE ~thread
    BY <1>11, <2>1 DEF StopRunning
  <2>2. CASE thread
    BY <1>11, <2>2 DEF StopRunning
  <2> QED BY <2>1, <2>2
<1>12. ASSUME Join
      PROVE  TypeOK' /\ NoDuplicateFds' /\ ThreadInv'
  BY <1>12 DEF Join
<1>13. ASSUME Clear
      PROVE  TypeOK' /\ NoDuplicateFds' /\ ThreadInv'
  <2>1. << >> \in Seq(Fds) /\ IsInjective(<< >>)
    BY DEF IsInjective
  <2> QED BY <1>13, <2>1 DEF Clear
<1>14. ASSUME SetRunning
      PROVE  TypeOK' /\ NoDuplicateFds' /\ ThreadInv'
  BY <1>14 DEF SetRunning
<1>15. ASSUME Spawn
      PROVE  TypeOK' /\ NoDuplicateFds' /\ ThreadInv'
  BY <1>15 DEF Spawn
<1>16. ASSUME AddFd
      PROVE  TypeOK' /\ NoDuplicateFds' /\ ThreadInv'
  BY <1>16, AppendNewInjective DEF AddFd
<1>17. ASSUME Greet
      PROVE  TypeOK' /\ NoDuplicateFds' /\ ThreadInv'
  BY <1>17 DEF Greet
<1>18. ASSUME NEW fd \in Fds, Accept(fd)
      PROVE  TypeOK' /\ NoDuplicateFds' /\ ThreadInv'
  BY <1>18 DEF Accept
<1>19. ASSUME NEW fd \in Fds, ClientSends(fd)
      PROVE  TypeOK' /\ NoDuplicateFds' /\ ThreadInv'
  BY <1>19 DEF ClientSends
<1>20. ASSUME UNCHANGED vars
      PROVE  TypeOK' /\ NoDuplicateFds' /\ ThreadInv'
  BY <1>20 DEF vars
<1> QED
  BY <1>1, <1>2, <1>3, <1>4, <1>5, <1>6, <1>7, <1>8, <1>9, <1>10,
     <1>11, <1>12, <1>13, <1>14, <1>15, <1>16, <1>17, <1>18, <1>19, <1>20
  DEF Next, ReactorStep, HandlerStep, StopStep, StartStep

-----------------------------------------------------------------------------
\* What an action of the batch needs: when its handler is yet to be called,
\* input, or a connection that main() has given up.
Covered(i) ==
  actions[i].kind = "handle" =>
    \/ actions[i].fd \in readable
    \/ actions[i].fd \notin open /\ after = "threw" /\ apc \in {"stop", "join"}

\* Performing an action touches no descriptor but its own, and the others are
\* for other descriptors: what the rest of the batch needs stays.
LEMMA PopKeepsBatch ==
  ASSUME IInv, actions # << >>,
         actions' = Tail(actions), pc' = "act", UNCHANGED <<after, apc>>,
         readable' \in {readable, readable \ {Now.fd}},
         open' \in {open, open \ {Now.fd}}
  PROVE  BatchInv'
<1> USE DEF BatchInv, IInv, TypeOK, InHandler
<1>1. /\ DOMAIN Tail(actions) = 1..(Len(actions) - 1)
      /\ Len(actions) \in Nat \ {0} /\ DOMAIN actions = 1..Len(actions)
      /\ \A i \in DOMAIN Tail(actions) :
           i + 1 \in DOMAIN actions /\ Tail(actions)[i] = actions[i + 1]
      /\ Now = actions[1]
  BY TailShifts DEF Now
<1>2. \A i \in DOMAIN Tail(actions) : actions[i + 1].fd # Now.fd
  BY <1>1
<1>3. \A i, j \in DOMAIN actions' : actions'[i].fd = actions'[j].fd => i = j
  BY <1>1
<1>4. \A i \in DOMAIN Tail(actions) : Covered(i + 1)
  BY <1>1 DEF Covered
<1>5. \A i \in DOMAIN actions' :
        actions'[i].kind = "handle" =>
          \/ actions'[i].fd \in readable'
          \/ /\ actions'[i].fd \notin open'
             /\ after' = "threw" /\ apc' \in {"stop", "join"}
  BY <1>1, <1>2, <1>4 DEF Covered
<1> QED BY <1>3, <1>5

LEMMA BatchStep ==
  ASSUME IInv, [Next]_vars
  PROVE  BatchInv'
<1> USE ReactorAssumption
    DEF IInv, TypeOK, ThreadInv, BatchInv, ReactorPCs, InHandler, AppPCs,
        appVars, kernelVars
<1>t. actions # << >> => 1 \in DOMAIN actions /\ Now = actions[1]
  BY TailShifts DEF Now
<1>1. ASSUME CheckRunning
      PROVE  BatchInv'
  BY <1>1 DEF CheckRunning, Now
<1>2. ASSUME Poll
      PROVE  BatchInv'
  <2>1. DOMAIN actions' = DOMAIN pfds
        /\ \A i \in DOMAIN pfds : actions'[i] = ActionFor(pfds[i])
    BY <1>2 DEF Poll
  <2>2. \A i \in DOMAIN pfds : /\ actions'[i].fd = pfds[i]
                               /\ actions'[i].kind = "handle" =>
                                    pfds[i] \in readable
    BY <2>1 DEF ActionFor
  <2>3. \A i, j \in DOMAIN pfds : pfds[i] = pfds[j] => i = j
    BY DEF NoDuplicateFds, IsInjective
  <2> QED BY <1>2, <2>1, <2>2, <2>3 DEF Poll
<1>3. ASSUME ActionsDone
      PROVE  BatchInv'
  BY <1>3 DEF ActionsDone, Now
<1>4. ASSUME PerformRemove
      PROVE  BatchInv'
  BY <1>4, PopKeepsBatch DEF PerformRemove
<1>5. ASSUME PerformNone
      PROVE  BatchInv'
  BY <1>5, PopKeepsBatch DEF PerformNone
<1>6. ASSUME HandlerRead
      PROVE  BatchInv'
  <2>1. CASE Return
    BY <1>6, <2>1, PopKeepsBatch DEF HandlerRead, Return
  <2>2. CASE ~Return
    <3>1. /\ actions' = actions /\ open' = open
          /\ UNCHANGED <<after, apc>>
          /\ pc' \in {"reading", "close", "close_only", "threw"}
          /\ readable' \in {readable, readable \ {Now.fd}}
          /\ actions # << >> /\ Now.kind = "handle"
      BY <1>6, <2>2 DEF HandlerRead
    <3>2. \A i \in DOMAIN actions : i > 1 => actions[i].fd # Now.fd
      BY <3>1, <1>t
    <3> QED BY <3>1, <3>2 DEF Now
  <2> QED BY <2>1, <2>2
<1>7. ASSUME HandlerClose
      PROVE  BatchInv'
  <2>1. CASE pc = "close_only"
    BY <1>7, <2>1, PopKeepsBatch DEF HandlerClose, Return
  <2>2. CASE pc = "close"
    <3>1. /\ actions' = actions /\ pc' = "remove"
          /\ open' = open \ {Now.fd} /\ readable' = readable \ {Now.fd}
          /\ UNCHANGED <<after, apc>>
          /\ actions # << >> /\ Now.kind = "handle"
      BY <1>7, <2>2 DEF HandlerClose
    <3>2. \A i \in DOMAIN actions : i > 1 => actions[i].fd # Now.fd
      BY <3>1, <1>t
    <3> QED BY <3>1, <3>2 DEF Now
  <2> QED BY <1>7, <2>1, <2>2 DEF HandlerClose
<1>8. ASSUME HandlerRemove
      PROVE  BatchInv'
  BY <1>8, PopKeepsBatch DEF HandlerRemove, Return
<1>9. ASSUME CallStart
      PROVE  BatchInv'
  BY <1>9 DEF CallStart, Now
<1>10. ASSUME CallStop
      PROVE  BatchInv'
  BY <1>10 DEF CallStop, Now
<1>11. ASSUME StopRunning
      PROVE  BatchInv'
  BY <1>11 DEF StopRunning, Now
<1>12. ASSUME Join
      PROVE  BatchInv'
  BY <1>12 DEF Join, Now
<1>13. ASSUME Clear
      PROVE  BatchInv'
  BY <1>13 DEF Clear, Now
<1>14. ASSUME SetRunning
      PROVE  BatchInv'
  BY <1>14 DEF SetRunning, Now
<1>15. ASSUME Spawn
      PROVE  BatchInv'
  BY <1>15 DEF Spawn, Now
<1>16. ASSUME AddFd
      PROVE  BatchInv'
  BY <1>16 DEF AddFd, Now
<1>17. ASSUME Greet
      PROVE  BatchInv'
  BY <1>17 DEF Greet, Now
<1>18. ASSUME NEW fd \in Fds, Accept(fd)
      PROVE  BatchInv'
  BY <1>18 DEF Accept, Now
<1>19. ASSUME NEW fd \in Fds, ClientSends(fd)
      PROVE  BatchInv'
  BY <1>19 DEF ClientSends, Now
<1>20. ASSUME UNCHANGED vars
      PROVE  BatchInv'
  BY <1>20 DEF vars, Now
<1> QED
  BY <1>1, <1>2, <1>3, <1>4, <1>5, <1>6, <1>7, <1>8, <1>9, <1>10,
     <1>11, <1>12, <1>13, <1>14, <1>15, <1>16, <1>17, <1>18, <1>19, <1>20
  DEF Next, ReactorStep, HandlerStep, StopStep, StartStep

\* The other two parts follow from these.
LEMMA PartsImply ==
  ASSUME TypeOK, ThreadInv, BatchInv
  PROVE  HandlerNeverBlocks /\ StopDrains
<1>1. StopDrains
  BY DEF ThreadInv, StopDrains
<1>2. HandlerNeverBlocks
  <2>1. actions # << >> => 1 \in DOMAIN actions /\ Now = actions[1]
    BY TailShifts DEF Now, TypeOK
  <2> QED BY <2>1 DEF BatchInv, HandlerNeverBlocks
<1> QED BY <1>1, <1>2

\* NoDuplicateFds and what the actions of a batch need are inductive together
\* with the life of the thread.
THEOREM InvariantHolds == Spec => []IInv
<1>1. Init => TypeOK /\ NoDuplicateFds /\ ThreadInv /\ BatchInv
  <2> SUFFICES ASSUME Init
               PROVE  TypeOK /\ NoDuplicateFds /\ ThreadInv /\ BatchInv
    OBVIOUS
  <2>1. TypeOK
    <3>1. << >> \in Seq(Fds) /\ << >> \in Seq(Action)
      OBVIOUS
    <3>2. starts \in 0..MaxStarts
      BY ReactorAssumption DEF Init
    <3>3. accepted \in Fds \cup {None}
      BY DEF Init
    <3> QED BY <3>1, <3>2, <3>3 DEF Init, TypeOK, ReactorPCs, InHandler, AppPCs
  <2>2. DOMAIN pfds = {} /\ DOMAIN actions = {}
    BY DEF Init
  <2>3. NoDuplicateFds
    BY <2>2 DEF NoDuplicateFds, IsInjective
  <2>4. ThreadInv /\ BatchInv
    BY <2>2 DEF Init, ThreadInv, BatchInv, InHandler
  <2> QED BY <2>1, <2>3, <2>4
<1>2. Init => IInv
  BY <1>1, PartsImply DEF IInv
<1>3. IInv /\ [Next]_vars => IInv'
  <2> SUFFICES ASSUME IInv, [Next]_vars PROVE IInv'
    OBVIOUS
  <2>1. TypeOK' /\ NoDuplicateFds' /\ ThreadInv' /\ BatchInv'
    BY TypeStep, BatchStep
  <2>2. HandlerNeverBlocks' /\ StopDrains'
    BY <2>1, PartsImply, PTL
  <2> QED BY <2>1, <2>2 DEF IInv
<1> QED BY <1>2, <1>3, PTL DEF Spec

\* The variables keep their types.
THEOREM TypeCorrect == Spec => []TypeOK
<1>1. IInv => TypeOK
  BY DEF IInv
<1> QED BY <1>1, InvariantHolds, PTL

\* A descriptor is registered at most once, however often it is closed, handed
\* out again and added.
THEOREM FdsUnique == Spec => []NoDuplicateFds
<1>1. IInv => NoDuplicateFds
  BY DEF IInv
<1> QED BY <1>1, InvariantHolds, PTL

\* The reactor never calls a handler that would block in its first read.
THEOREM HandlersDoNotBlock == Spec => []HandlerNeverBlocks
<1>1. IInv => HandlerNeverBlocks
  BY DEF IInv
<1> QED BY <1>1, InvariantHolds, PTL

\* stop() does not return before the last batch is finished.
THEOREM StopWaits == Spec => []StopDrains
<1>1. IInv => StopDrains
  BY DEF IInv
<1> QED BY <1>1, InvariantHolds, PTL

=============================================================================
