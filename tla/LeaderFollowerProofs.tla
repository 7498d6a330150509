------------------------ MODULE LeaderFollowerProofs ------------------------
(***************************************************************************)
(* Proofs about LeaderFollower, for every set of threads, every set of     *)
(* descriptors and every choice of handler outcomes.  IInv is inductive:   *)
(* one lemma per part of it, one step per action.  The safety theorems     *)
(* and the refinement of WorkerPool follow from it.                        *)
(***************************************************************************)
EXTENDS LeaderFollower, DataLemmas

\* The places a thread's program counter can be at.
LEMMA PCsAre ==
  PCs = {"while", "check", "block", "recheck", "seat", "lock_leader", "woken",
         "lead", "lock_vectors", "poll", "promote", "self_deadlock",
         "unlock_vectors", "call", "handler", "close", "close_only", "remove",
         "asleep", "exited"}
BY DEF PCs, InFollow, Arriving, Leading, Handling

\* poll() and the scan report a registered descriptor, or nothing.
LEMMA ScanFinds ==
  ASSUME pfds \in Seq(Fds)
  PROVE  FirstEvent # 0 => /\ FirstEvent \in 1..Len(pfds)
                           /\ pfds[FirstEvent] \in Fds
<1> DEFINE I == {i \in 1..Len(pfds) : HasEvent(pfds[i])}
<1>1. CASE I = {}
  BY <1>1 DEF FirstEvent, SelectInSeq
<1>2. CASE I # {}
  <2>1. I \subseteq Nat /\ I \subseteq 1..Len(pfds)
    OBVIOUS
  <2>2. FirstEvent = Min(I)
    BY <1>2 DEF FirstEvent, SelectInSeq
  <2> HIDE DEF I
  <2>3. Min(I) \in 1..Len(pfds)
    BY <1>2, <2>1, MinOfNats
  <2> QED BY <2>2, <2>3
<1> QED BY <1>1, <1>2

-----------------------------------------------------------------------------
\* Types are kept, and no step registers a descriptor twice.
LEMMA TypeStep ==
  ASSUME TypeOK, NoDuplicateFds, [Next]_vars
  PROVE  TypeOK' /\ NoDuplicateFds'
<1> USE PoolAssumption, PCsAre
    DEF TypeOK, NoDuplicateFds, MainPCs, Goto, flagVars, localVars, mainVars,
        kernelVars
<1>1. ASSUME NEW t \in Threads, LockLeader(t)
      PROVE  TypeOK' /\ NoDuplicateFds'
  BY <1>1 DEF LockLeader
<1>2. ASSUME NEW t \in Threads, FollowWhile(t)
      PROVE  TypeOK' /\ NoDuplicateFds'
  BY <1>2, ZenonT(60) DEF FollowWhile
<1>3. ASSUME NEW t \in Threads, CheckLeader(t)
      PROVE  TypeOK' /\ NoDuplicateFds'
  BY <1>3 DEF CheckLeader
<1>4. ASSUME NEW t \in Threads, Block(t)
      PROVE  TypeOK' /\ NoDuplicateFds'
  BY <1>4 DEF Block
<1>5. ASSUME NEW t \in Threads, Reacquire(t)
      PROVE  TypeOK' /\ NoDuplicateFds'
  BY <1>5 DEF Reacquire
<1>6. ASSUME NEW t \in Threads, Recheck(t)
      PROVE  TypeOK' /\ NoDuplicateFds'
  BY <1>6 DEF Recheck
<1>7. ASSUME NEW t \in Threads, TakeSeat(t)
      PROVE  TypeOK' /\ NoDuplicateFds'
  BY <1>7 DEF TakeSeat
<1>8. ASSUME NEW t \in Threads, LeadWhile(t)
      PROVE  TypeOK' /\ NoDuplicateFds'
  BY <1>8 DEF LeadWhile
<1>9. ASSUME NEW t \in Threads, LockVectors(t)
      PROVE  TypeOK' /\ NoDuplicateFds'
  BY <1>9 DEF LockVectors
<1>10. ASSUME NEW t \in Threads, Poll(t)
      PROVE  TypeOK' /\ NoDuplicateFds'
  <2>1. CASE Goto(t, "poll", "lead") /\ UNCHANGED localVars
    BY <1>10, <2>1 DEF Poll
  <2>2. CASE /\ Goto(t, "poll", "promote")
             /\ idx' = [idx EXCEPT ![t] = FirstEvent]
             /\ polled' = [polled EXCEPT ![t] = pfds[FirstEvent]]
             /\ FirstEvent # 0
    <3>1. FirstEvent \in Nat /\ pfds[FirstEvent] \in Fds
      BY <2>2, ScanFinds
    <3>2. idx' \in [Threads -> Nat] /\ polled' \in [Threads -> Fds \cup {None}]
      BY <2>2, <3>1
    <3>3. polled'[t] \in Fds /\ \A u \in Threads : u # t => polled'[u] = polled[u]
      BY <2>2, <3>1
    <3>4. UNCHANGED <<flagVars, leader_mutex, vectors_mutex, arg, pfds,
    mainVars, kernelVars, crashed>>
      BY <1>10, <2>2 DEF Poll
    <3> QED BY <2>2, <3>2, <3>3, <3>4
  <2>3. CASE Goto(t, "poll", "self_deadlock") /\ UNCHANGED localVars
    BY <1>10, <2>3 DEF Poll
  <2> QED BY <1>10, <2>1, <2>2, <2>3 DEF Poll
<1>11. ASSUME NEW t \in Threads, PromoteLeader(t)
      PROVE  TypeOK' /\ NoDuplicateFds'
  BY <1>11, ZenonT(60) DEF PromoteLeader
<1>12. ASSUME NEW t \in Threads, UnlockVectors(t)
      PROVE  TypeOK' /\ NoDuplicateFds'
  BY <1>12 DEF UnlockVectors
<1>13. ASSUME NEW t \in Threads, CallHandler(t)
      PROVE  TypeOK' /\ NoDuplicateFds'
  BY <1>13 DEF CallHandler
<1>14. ASSUME NEW t \in Threads, HandlerRead(t)
      PROVE  TypeOK' /\ NoDuplicateFds'
  <2>0. /\ pc[t] = "handler" /\ crashed' \in BOOLEAN
        /\ readable' \subseteq readable
        /\ UNCHANGED <<flagVars, leader_mutex, vectors_mutex, pfds, mainVars,
                       open>>
    BY <1>14 DEF HandlerRead
  <2>1. CASE Return(t, "handler")
    BY <2>0, <2>1 DEF Return
  <2>2. CASE Goto(t, "handler", "close") /\ UNCHANGED localVars
    BY <2>0, <2>2
  <2>3. CASE Goto(t, "handler", "close_only") /\ UNCHANGED localVars
    BY <2>0, <2>3
  <2>4. CASE UNCHANGED <<pc, localVars>>
    BY <2>0, <2>4
  <2> QED BY <1>14, <2>1, <2>2, <2>3, <2>4 DEF HandlerRead
<1>15. ASSUME NEW t \in Threads, HandlerClose(t)
      PROVE  TypeOK' /\ NoDuplicateFds'
  <2>1. CASE Return(t, "close_only")
    BY <1>15, <2>1, ZenonT(60) DEF HandlerClose, Return
  <2>2. CASE Goto(t, "close", "remove") /\ UNCHANGED localVars
    BY <1>15, <2>2, ZenonT(60) DEF HandlerClose
  <2> QED BY <1>15, <2>1, <2>2 DEF HandlerClose
<1>16. ASSUME NEW t \in Threads, RemoveFd(t)
      PROVE  TypeOK' /\ NoDuplicateFds'
  BY <1>16, RemoveFirstInjective DEF RemoveFd, Return
<1>17. ASSUME NEW t \in Threads, SpuriousWakeup(t)
      PROVE  TypeOK' /\ NoDuplicateFds'
  BY <1>17 DEF SpuriousWakeup
<1>18. ASSUME NEW t \in Threads, CallUndefined(t)
      PROVE  TypeOK' /\ NoDuplicateFds'
  BY <1>18 DEF CallUndefined
<1>19. ASSUME NEW fd \in Fds, Accept(fd)
      PROVE  TypeOK' /\ NoDuplicateFds'
  BY <1>19 DEF Accept
<1>20. ASSUME NEW fd \in Fds, ClientSends(fd)
      PROVE  TypeOK' /\ NoDuplicateFds'
  BY <1>20 DEF ClientSends
<1>21. ASSUME AddFd
      PROVE  TypeOK' /\ NoDuplicateFds'
  BY <1>21, AppendNewInjective DEF AddFd
<1>22. ASSUME GreetClient
      PROVE  TypeOK' /\ NoDuplicateFds'
  BY <1>22 DEF GreetClient
<1>23. ASSUME StopRunning
      PROVE  TypeOK' /\ NoDuplicateFds'
  BY <1>23 DEF StopRunning
<1>24. ASSUME VacateSeat
      PROVE  TypeOK' /\ NoDuplicateFds'
  BY <1>24 DEF VacateSeat
<1>25. ASSUME NotifyAll
      PROVE  TypeOK' /\ NoDuplicateFds'
  BY <1>25 DEF NotifyAll
<1>26. ASSUME Join
      PROVE  TypeOK' /\ NoDuplicateFds'
  BY <1>26 DEF Join
<1>27. ASSUME UNCHANGED vars
      PROVE  TypeOK' /\ NoDuplicateFds'
  BY <1>27 DEF vars
<1> QED
  BY <1>1, <1>2, <1>3, <1>4, <1>5, <1>6, <1>7, <1>8, <1>9, <1>10, <1>11,
     <1>12, <1>13, <1>14, <1>15, <1>16, <1>17, <1>18, <1>19, <1>20, <1>21,
     <1>22, <1>23, <1>24, <1>25, <1>26, <1>27
  DEF Next, FollowStep, LeadStep, HandlerStep, Destructor

\* A mutex is owned by the thread whose program counter says so.
LEMMA MutexStep ==
  ASSUME TypeOK, MutexInv, [Next]_vars
  PROVE  MutexInv'
<1> USE PoolAssumption, PCsAre
    DEF TypeOK, MutexInv, InFollow, Scanning, Goto, flagVars, localVars,
        mainVars,
        kernelVars
<1>1. ASSUME NEW t \in Threads, LockLeader(t)
      PROVE  MutexInv'
  BY <1>1 DEF LockLeader
<1>2. ASSUME NEW t \in Threads, FollowWhile(t)
      PROVE  MutexInv'
  BY <1>2 DEF FollowWhile
<1>3. ASSUME NEW t \in Threads, CheckLeader(t)
      PROVE  MutexInv'
  BY <1>3 DEF CheckLeader
<1>4. ASSUME NEW t \in Threads, Block(t)
      PROVE  MutexInv'
  BY <1>4 DEF Block
<1>5. ASSUME NEW t \in Threads, Reacquire(t)
      PROVE  MutexInv'
  BY <1>5 DEF Reacquire
<1>6. ASSUME NEW t \in Threads, Recheck(t)
      PROVE  MutexInv'
  BY <1>6 DEF Recheck
<1>7. ASSUME NEW t \in Threads, TakeSeat(t)
      PROVE  MutexInv'
  BY <1>7 DEF TakeSeat
<1>8. ASSUME NEW t \in Threads, LeadWhile(t)
      PROVE  MutexInv'
  BY <1>8 DEF LeadWhile
<1>9. ASSUME NEW t \in Threads, LockVectors(t)
      PROVE  MutexInv'
  BY <1>9 DEF LockVectors
<1>10. ASSUME NEW t \in Threads, Poll(t)
      PROVE  MutexInv'
  BY <1>10 DEF Poll
<1>11. ASSUME NEW t \in Threads, PromoteLeader(t)
      PROVE  MutexInv'
  BY <1>11 DEF PromoteLeader
<1>12. ASSUME NEW t \in Threads, UnlockVectors(t)
      PROVE  MutexInv'
  BY <1>12 DEF UnlockVectors
<1>13. ASSUME NEW t \in Threads, CallHandler(t)
      PROVE  MutexInv'
  BY <1>13 DEF CallHandler
<1>14. ASSUME NEW t \in Threads, HandlerRead(t)
      PROVE  MutexInv'
  BY <1>14 DEF HandlerRead, Return
<1>15. ASSUME NEW t \in Threads, HandlerClose(t)
      PROVE  MutexInv'
  BY <1>15 DEF HandlerClose, Return
<1>16. ASSUME NEW t \in Threads, RemoveFd(t)
      PROVE  MutexInv'
  BY <1>16 DEF RemoveFd, Return
<1>17. ASSUME NEW t \in Threads, SpuriousWakeup(t)
      PROVE  MutexInv'
  BY <1>17 DEF SpuriousWakeup
<1>18. ASSUME NEW t \in Threads, CallUndefined(t)
      PROVE  MutexInv'
  BY <1>18 DEF CallUndefined
<1>19. ASSUME NEW fd \in Fds, Accept(fd)
      PROVE  MutexInv'
  BY <1>19 DEF Accept
<1>20. ASSUME NEW fd \in Fds, ClientSends(fd)
      PROVE  MutexInv'
  BY <1>20 DEF ClientSends
<1>21. ASSUME AddFd
      PROVE  MutexInv'
  BY <1>21 DEF AddFd
<1>22. ASSUME GreetClient
      PROVE  MutexInv'
  BY <1>22 DEF GreetClient
<1>23. ASSUME StopRunning
      PROVE  MutexInv'
  BY <1>23 DEF StopRunning
<1>24. ASSUME VacateSeat
      PROVE  MutexInv'
  BY <1>24 DEF VacateSeat
<1>25. ASSUME NotifyAll
      PROVE  MutexInv'
  BY <1>25 DEF NotifyAll
<1>26. ASSUME Join
      PROVE  MutexInv'
  BY <1>26 DEF Join
<1>27. ASSUME UNCHANGED vars
      PROVE  MutexInv'
  BY <1>27 DEF vars
<1> QED
  BY <1>1, <1>2, <1>3, <1>4, <1>5, <1>6, <1>7, <1>8, <1>9, <1>10, <1>11,
     <1>12, <1>13, <1>14, <1>15, <1>16, <1>17, <1>18, <1>19, <1>20, <1>21,
     <1>22, <1>23, <1>24, <1>25, <1>26, <1>27
  DEF Next, FollowStep, LeadStep, HandlerStep, Destructor

\* running and the main thread's program counter agree.
LEMMA RunningStep ==
  ASSUME TypeOK, RunningInv, [Next]_vars
  PROVE  RunningInv'
<1> USE DEF TypeOK, RunningInv, MainPCs, flagVars, localVars, mainVars,
        kernelVars
<1>1. ASSUME NEW t \in Threads, LockLeader(t)
      PROVE  RunningInv'
  BY <1>1 DEF LockLeader
<1>2. ASSUME NEW t \in Threads, FollowWhile(t)
      PROVE  RunningInv'
  BY <1>2 DEF FollowWhile
<1>3. ASSUME NEW t \in Threads, CheckLeader(t)
      PROVE  RunningInv'
  BY <1>3 DEF CheckLeader
<1>4. ASSUME NEW t \in Threads, Block(t)
      PROVE  RunningInv'
  BY <1>4 DEF Block
<1>5. ASSUME NEW t \in Threads, Reacquire(t)
      PROVE  RunningInv'
  BY <1>5 DEF Reacquire
<1>6. ASSUME NEW t \in Threads, Recheck(t)
      PROVE  RunningInv'
  BY <1>6 DEF Recheck
<1>7. ASSUME NEW t \in Threads, TakeSeat(t)
      PROVE  RunningInv'
  BY <1>7 DEF TakeSeat
<1>8. ASSUME NEW t \in Threads, LeadWhile(t)
      PROVE  RunningInv'
  BY <1>8 DEF LeadWhile
<1>9. ASSUME NEW t \in Threads, LockVectors(t)
      PROVE  RunningInv'
  BY <1>9 DEF LockVectors
<1>10. ASSUME NEW t \in Threads, Poll(t)
      PROVE  RunningInv'
  BY <1>10 DEF Poll
<1>11. ASSUME NEW t \in Threads, PromoteLeader(t)
      PROVE  RunningInv'
  BY <1>11 DEF PromoteLeader
<1>12. ASSUME NEW t \in Threads, UnlockVectors(t)
      PROVE  RunningInv'
  BY <1>12 DEF UnlockVectors
<1>13. ASSUME NEW t \in Threads, CallHandler(t)
      PROVE  RunningInv'
  BY <1>13 DEF CallHandler
<1>14. ASSUME NEW t \in Threads, HandlerRead(t)
      PROVE  RunningInv'
  BY <1>14 DEF HandlerRead
<1>15. ASSUME NEW t \in Threads, HandlerClose(t)
      PROVE  RunningInv'
  BY <1>15 DEF HandlerClose
<1>16. ASSUME NEW t \in Threads, RemoveFd(t)
      PROVE  RunningInv'
  BY <1>16 DEF RemoveFd
<1>17. ASSUME NEW t \in Threads, SpuriousWakeup(t)
      PROVE  RunningInv'
  BY <1>17 DEF SpuriousWakeup
<1>18. ASSUME NEW t \in Threads, CallUndefined(t)
      PROVE  RunningInv'
  BY <1>18 DEF CallUndefined
<1>19. ASSUME NEW fd \in Fds, Accept(fd)
      PROVE  RunningInv'
  BY <1>19 DEF Accept
<1>20. ASSUME NEW fd \in Fds, ClientSends(fd)
      PROVE  RunningInv'
  BY <1>20 DEF ClientSends
<1>21. ASSUME AddFd
      PROVE  RunningInv'
  BY <1>21 DEF AddFd
<1>22. ASSUME GreetClient
      PROVE  RunningInv'
  BY <1>22 DEF GreetClient
<1>23. ASSUME StopRunning
      PROVE  RunningInv'
  BY <1>23 DEF StopRunning
<1>24. ASSUME VacateSeat
      PROVE  RunningInv'
  BY <1>24 DEF VacateSeat
<1>25. ASSUME NotifyAll
      PROVE  RunningInv'
  BY <1>25 DEF NotifyAll
<1>26. ASSUME Join
      PROVE  RunningInv'
  BY <1>26 DEF Join
<1>27. ASSUME UNCHANGED vars
      PROVE  RunningInv'
  BY <1>27 DEF vars
<1> QED
  BY <1>1, <1>2, <1>3, <1>4, <1>5, <1>6, <1>7, <1>8, <1>9, <1>10, <1>11,
     <1>12, <1>13, <1>14, <1>15, <1>16, <1>17, <1>18, <1>19, <1>20, <1>21,
     <1>22, <1>23, <1>24, <1>25, <1>26, <1>27
  DEF Next, FollowStep, LeadStep, HandlerStep, Destructor

\* The seat: what follow() read of has_leader under leader_mutex still holds
\* when it acts on it, and only a thread that found the seat vacant takes it.
LEMMA SeatStep ==
  ASSUME TypeOK, MutexInv, RunningInv, SeatInv, AtMostOneLeader, [Next]_vars
  PROVE  SeatInv' /\ AtMostOneLeader'
<1> USE PoolAssumption, PCsAre
    DEF TypeOK, MutexInv, RunningInv, SeatInv, AtMostOneLeader, IsLeading,
        Leading, InFollow, MainPCs, Goto, flagVars,
        localVars, mainVars, kernelVars
<1>1. ASSUME NEW t \in Threads, LockLeader(t)
      PROVE  SeatInv' /\ AtMostOneLeader'
  BY <1>1 DEF LockLeader
<1>2. ASSUME NEW t \in Threads, FollowWhile(t)
      PROVE  SeatInv' /\ AtMostOneLeader'
  <2>1. CASE running /\ Goto(t, "while", "check")
    BY <1>2, <2>1 DEF FollowWhile
  <2>2. CASE ~running /\ Goto(t, "while", "exited")
    BY <1>2, <2>2 DEF FollowWhile
  <2> QED BY <1>2, <2>1, <2>2 DEF FollowWhile
<1>3. ASSUME NEW t \in Threads, CheckLeader(t)
      PROVE  SeatInv' /\ AtMostOneLeader'
  BY <1>3 DEF CheckLeader
<1>4. ASSUME NEW t \in Threads, Block(t)
      PROVE  SeatInv' /\ AtMostOneLeader'
  BY <1>4 DEF Block
<1>5. ASSUME NEW t \in Threads, Reacquire(t)
      PROVE  SeatInv' /\ AtMostOneLeader'
  BY <1>5 DEF Reacquire
<1>6. ASSUME NEW t \in Threads, Recheck(t)
      PROVE  SeatInv' /\ AtMostOneLeader'
  <2>1. CASE running /\ Goto(t, "recheck", "seat")
    BY <1>6, <2>1 DEF Recheck
  <2>2. CASE ~running /\ Goto(t, "recheck", "exited")
    BY <1>6, <2>2 DEF Recheck
  <2> QED BY <1>6, <2>1, <2>2 DEF Recheck
<1>7. ASSUME NEW t \in Threads, TakeSeat(t)
      PROVE  SeatInv' /\ AtMostOneLeader'
  BY <1>7 DEF TakeSeat
<1>8. ASSUME NEW t \in Threads, LeadWhile(t)
      PROVE  SeatInv' /\ AtMostOneLeader'
  BY <1>8 DEF LeadWhile
<1>9. ASSUME NEW t \in Threads, LockVectors(t)
      PROVE  SeatInv' /\ AtMostOneLeader'
  BY <1>9 DEF LockVectors
<1>10. ASSUME NEW t \in Threads, Poll(t)
      PROVE  SeatInv' /\ AtMostOneLeader'
  <2>1. CASE Goto(t, "poll", "lead")
    BY <1>10, <2>1 DEF Poll
  <2>2. CASE Goto(t, "poll", "promote")
    BY <1>10, <2>2 DEF Poll
  <2>3. CASE Goto(t, "poll", "self_deadlock")
    BY <1>10, <2>3 DEF Poll
  <2> QED BY <1>10, <2>1, <2>2, <2>3 DEF Poll
<1>11. ASSUME NEW t \in Threads, PromoteLeader(t)
      PROVE  SeatInv' /\ AtMostOneLeader'
  <2>1. \A u \in Threads : pc[u] \notin InFollow
    BY <1>11 DEF PromoteLeader
  <2>2. \A u \in Threads : IsLeading(u) <=> u = t
    BY <1>11 DEF PromoteLeader
  <2>3. \A u \in Threads : ~IsLeading(u)' /\ pc'[u] \notin InFollow
    <3>1. CASE pc' = [pc EXCEPT ![t] = "unlock_vectors"]
      BY <2>1, <2>2, <3>1
    <3>2. ASSUME NEW v \in Threads, pc[v] = "asleep",
                 pc' = [pc EXCEPT ![t] = "unlock_vectors", ![v] = "woken"]
          PROVE  \A u \in Threads : ~IsLeading(u)' /\ pc'[u] \notin InFollow
      BY <2>1, <2>2, <3>2, ZenonT(60)
    <3> QED BY <1>11, <3>1, <3>2 DEF PromoteLeader
  <2>4. has_leader' = FALSE
    BY <1>11 DEF PromoteLeader
  <2> QED BY <2>3, <2>4
<1>12. ASSUME NEW t \in Threads, UnlockVectors(t)
      PROVE  SeatInv' /\ AtMostOneLeader'
  BY <1>12 DEF UnlockVectors
<1>13. ASSUME NEW t \in Threads, CallHandler(t)
      PROVE  SeatInv' /\ AtMostOneLeader'
  BY <1>13 DEF CallHandler
<1>14. ASSUME NEW t \in Threads, HandlerRead(t)
      PROVE  SeatInv' /\ AtMostOneLeader'
  <2>1. CASE Return(t, "handler")
    BY <1>14, <2>1 DEF HandlerRead, Return
  <2>2. CASE Goto(t, "handler", "close")
    BY <1>14, <2>2 DEF HandlerRead
  <2>3. CASE Goto(t, "handler", "close_only")
    BY <1>14, <2>3 DEF HandlerRead
  <2>4. CASE UNCHANGED pc
    BY <1>14, <2>4 DEF HandlerRead
  <2> QED BY <1>14, <2>1, <2>2, <2>3, <2>4 DEF HandlerRead
<1>15. ASSUME NEW t \in Threads, HandlerClose(t)
      PROVE  SeatInv' /\ AtMostOneLeader'
  <2>1. CASE Return(t, "close_only")
    BY <1>15, <2>1 DEF HandlerClose, Return
  <2>2. CASE Goto(t, "close", "remove")
    BY <1>15, <2>2 DEF HandlerClose
  <2> QED BY <1>15, <2>1, <2>2 DEF HandlerClose
<1>16. ASSUME NEW t \in Threads, RemoveFd(t)
      PROVE  SeatInv' /\ AtMostOneLeader'
  BY <1>16 DEF RemoveFd, Return
<1>17. ASSUME NEW t \in Threads, SpuriousWakeup(t)
      PROVE  SeatInv' /\ AtMostOneLeader'
  BY <1>17 DEF SpuriousWakeup
<1>18. ASSUME NEW t \in Threads, CallUndefined(t)
      PROVE  SeatInv' /\ AtMostOneLeader'
  BY <1>18 DEF CallUndefined
<1>19. ASSUME NEW fd \in Fds, Accept(fd)
      PROVE  SeatInv' /\ AtMostOneLeader'
  BY <1>19 DEF Accept
<1>20. ASSUME NEW fd \in Fds, ClientSends(fd)
      PROVE  SeatInv' /\ AtMostOneLeader'
  BY <1>20 DEF ClientSends
<1>21. ASSUME AddFd
      PROVE  SeatInv' /\ AtMostOneLeader'
  BY <1>21 DEF AddFd
<1>22. ASSUME GreetClient
      PROVE  SeatInv' /\ AtMostOneLeader'
  BY <1>22 DEF GreetClient
<1>23. ASSUME StopRunning
      PROVE  SeatInv' /\ AtMostOneLeader'
  BY <1>23 DEF StopRunning
<1>24. ASSUME VacateSeat
      PROVE  SeatInv' /\ AtMostOneLeader'
  BY <1>24 DEF VacateSeat
<1>25. ASSUME NotifyAll
      PROVE  SeatInv' /\ AtMostOneLeader'
  BY <1>25 DEF NotifyAll
<1>26. ASSUME Join
      PROVE  SeatInv' /\ AtMostOneLeader'
  BY <1>26 DEF Join
<1>27. ASSUME UNCHANGED vars
      PROVE  SeatInv' /\ AtMostOneLeader'
  BY <1>27 DEF vars
<1> QED
  BY <1>1, <1>2, <1>3, <1>4, <1>5, <1>6, <1>7, <1>8, <1>9, <1>10, <1>11,
     <1>12, <1>13, <1>14, <1>15, <1>16, <1>17, <1>18, <1>19, <1>20, <1>21,
     <1>22, <1>23, <1>24, <1>25, <1>26, <1>27
  DEF Next, FollowStep, LeadStep, HandlerStep, Destructor

\* Whoever vacates the seat wakes a sleeper, and whoever finds the seat taken
\* before sleeping leaves a leader behind that will vacate it.
LEMMA WakeupStep ==
  ASSUME TypeOK, MutexInv, RunningInv, SeatInv, NoLostWakeup, [Next]_vars
  PROVE  NoLostWakeup'
<1> USE PoolAssumption, PCsAre
    DEF TypeOK, MutexInv, RunningInv, SeatInv, NoLostWakeup, IsLeading,
        Leading, InFollow, Arriving, MainPCs, Goto, flagVars,
        localVars, mainVars, kernelVars
<1>1. ASSUME NEW t \in Threads, LockLeader(t)
      PROVE  NoLostWakeup'
  BY <1>1 DEF LockLeader
<1>2. ASSUME NEW t \in Threads, FollowWhile(t)
      PROVE  NoLostWakeup'
  BY <1>2 DEF FollowWhile
<1>3. ASSUME NEW t \in Threads, CheckLeader(t)
      PROVE  NoLostWakeup'
  BY <1>3 DEF CheckLeader
<1>4. ASSUME NEW t \in Threads, Block(t)
      PROVE  NoLostWakeup'
  BY <1>4 DEF Block
<1>5. ASSUME NEW t \in Threads, Reacquire(t)
      PROVE  NoLostWakeup'
  BY <1>5 DEF Reacquire
<1>6. ASSUME NEW t \in Threads, Recheck(t)
      PROVE  NoLostWakeup'
  BY <1>6 DEF Recheck
<1>7. ASSUME NEW t \in Threads, TakeSeat(t)
      PROVE  NoLostWakeup'
  BY <1>7 DEF TakeSeat
<1>8. ASSUME NEW t \in Threads, LeadWhile(t)
      PROVE  NoLostWakeup'
  BY <1>8 DEF LeadWhile
<1>9. ASSUME NEW t \in Threads, LockVectors(t)
      PROVE  NoLostWakeup'
  BY <1>9 DEF LockVectors
<1>10. ASSUME NEW t \in Threads, Poll(t)
      PROVE  NoLostWakeup'
  BY <1>10 DEF Poll
<1>11. ASSUME NEW t \in Threads, PromoteLeader(t)
      PROVE  NoLostWakeup'
  BY <1>11 DEF PromoteLeader
<1>12. ASSUME NEW t \in Threads, UnlockVectors(t)
      PROVE  NoLostWakeup'
  BY <1>12 DEF UnlockVectors
<1>13. ASSUME NEW t \in Threads, CallHandler(t)
      PROVE  NoLostWakeup'
  BY <1>13 DEF CallHandler
<1>14. ASSUME NEW t \in Threads, HandlerRead(t)
      PROVE  NoLostWakeup'
  BY <1>14 DEF HandlerRead, Return
<1>15. ASSUME NEW t \in Threads, HandlerClose(t)
      PROVE  NoLostWakeup'
  BY <1>15 DEF HandlerClose, Return
<1>16. ASSUME NEW t \in Threads, RemoveFd(t)
      PROVE  NoLostWakeup'
  BY <1>16 DEF RemoveFd, Return
<1>17. ASSUME NEW t \in Threads, SpuriousWakeup(t)
      PROVE  NoLostWakeup'
  BY <1>17 DEF SpuriousWakeup
<1>18. ASSUME NEW t \in Threads, CallUndefined(t)
      PROVE  NoLostWakeup'
  BY <1>18 DEF CallUndefined
<1>19. ASSUME NEW fd \in Fds, Accept(fd)
      PROVE  NoLostWakeup'
  BY <1>19 DEF Accept
<1>20. ASSUME NEW fd \in Fds, ClientSends(fd)
      PROVE  NoLostWakeup'
  BY <1>20 DEF ClientSends
<1>21. ASSUME AddFd
      PROVE  NoLostWakeup'
  BY <1>21 DEF AddFd
<1>22. ASSUME GreetClient
      PROVE  NoLostWakeup'
  BY <1>22 DEF GreetClient
<1>23. ASSUME StopRunning
      PROVE  NoLostWakeup'
  BY <1>23 DEF StopRunning
<1>24. ASSUME VacateSeat
      PROVE  NoLostWakeup'
  BY <1>24 DEF VacateSeat
<1>25. ASSUME NotifyAll
      PROVE  NoLostWakeup'
  BY <1>25 DEF NotifyAll
<1>26. ASSUME Join
      PROVE  NoLostWakeup'
  BY <1>26 DEF Join
<1>27. ASSUME UNCHANGED vars
      PROVE  NoLostWakeup'
  BY <1>27 DEF vars
<1> QED
  BY <1>1, <1>2, <1>3, <1>4, <1>5, <1>6, <1>7, <1>8, <1>9, <1>10, <1>11,
     <1>12, <1>13, <1>14, <1>15, <1>16, <1>17, <1>18, <1>19, <1>20, <1>21,
     <1>22, <1>23, <1>24, <1>25, <1>26, <1>27
  DEF Next, FollowStep, LeadStep, HandlerStep, Destructor

\* Nobody changes pfds while the leader holds vectors_mutex.
LEMMA ScanStep ==
  ASSUME TypeOK, MutexInv, ScanStable, [Next]_vars
  PROVE  ScanStable'
<1> USE PoolAssumption, PCsAre
    DEF TypeOK, MutexInv, ScanStable, Scanning, Goto, flagVars,
        localVars, mainVars, kernelVars
<1>1. ASSUME NEW t \in Threads, LockLeader(t)
      PROVE  ScanStable'
  BY <1>1 DEF LockLeader
<1>2. ASSUME NEW t \in Threads, FollowWhile(t)
      PROVE  ScanStable'
  BY <1>2 DEF FollowWhile
<1>3. ASSUME NEW t \in Threads, CheckLeader(t)
      PROVE  ScanStable'
  BY <1>3 DEF CheckLeader
<1>4. ASSUME NEW t \in Threads, Block(t)
      PROVE  ScanStable'
  BY <1>4 DEF Block
<1>5. ASSUME NEW t \in Threads, Reacquire(t)
      PROVE  ScanStable'
  BY <1>5 DEF Reacquire
<1>6. ASSUME NEW t \in Threads, Recheck(t)
      PROVE  ScanStable'
  BY <1>6 DEF Recheck
<1>7. ASSUME NEW t \in Threads, TakeSeat(t)
      PROVE  ScanStable'
  BY <1>7 DEF TakeSeat
<1>8. ASSUME NEW t \in Threads, LeadWhile(t)
      PROVE  ScanStable'
  BY <1>8 DEF LeadWhile
<1>9. ASSUME NEW t \in Threads, LockVectors(t)
      PROVE  ScanStable'
  BY <1>9 DEF LockVectors
<1>10. ASSUME NEW t \in Threads, Poll(t)
      PROVE  ScanStable'
  BY <1>10, ScanFinds DEF Poll
<1>11. ASSUME NEW t \in Threads, PromoteLeader(t)
      PROVE  ScanStable'
  BY <1>11 DEF PromoteLeader
<1>12. ASSUME NEW t \in Threads, UnlockVectors(t)
      PROVE  ScanStable'
  BY <1>12 DEF UnlockVectors
<1>13. ASSUME NEW t \in Threads, CallHandler(t)
      PROVE  ScanStable'
  BY <1>13 DEF CallHandler
<1>14. ASSUME NEW t \in Threads, HandlerRead(t)
      PROVE  ScanStable'
  <2>0. pc[t] = "handler" /\ UNCHANGED <<vectors_mutex, pfds>>
    BY <1>14 DEF HandlerRead
  <2>1. CASE Return(t, "handler")
    BY <2>0, <2>1 DEF Return
  <2>2. CASE Goto(t, "handler", "close") /\ UNCHANGED localVars
    BY <2>0, <2>2
  <2>3. CASE Goto(t, "handler", "close_only") /\ UNCHANGED localVars
    BY <2>0, <2>3
  <2>4. CASE UNCHANGED <<pc, localVars>>
    BY <2>0, <2>4
  <2> QED BY <1>14, <2>1, <2>2, <2>3, <2>4 DEF HandlerRead
<1>15. ASSUME NEW t \in Threads, HandlerClose(t)
      PROVE  ScanStable'
  BY <1>15 DEF HandlerClose, Return
<1>16. ASSUME NEW t \in Threads, RemoveFd(t)
      PROVE  ScanStable'
  BY <1>16 DEF RemoveFd, Return
<1>17. ASSUME NEW t \in Threads, SpuriousWakeup(t)
      PROVE  ScanStable'
  BY <1>17 DEF SpuriousWakeup
<1>18. ASSUME NEW t \in Threads, CallUndefined(t)
      PROVE  ScanStable'
  BY <1>18 DEF CallUndefined
<1>19. ASSUME NEW fd \in Fds, Accept(fd)
      PROVE  ScanStable'
  BY <1>19 DEF Accept
<1>20. ASSUME NEW fd \in Fds, ClientSends(fd)
      PROVE  ScanStable'
  BY <1>20 DEF ClientSends
<1>21. ASSUME AddFd
      PROVE  ScanStable'
  BY <1>21 DEF AddFd
<1>22. ASSUME GreetClient
      PROVE  ScanStable'
  BY <1>22 DEF GreetClient
<1>23. ASSUME StopRunning
      PROVE  ScanStable'
  BY <1>23 DEF StopRunning
<1>24. ASSUME VacateSeat
      PROVE  ScanStable'
  BY <1>24 DEF VacateSeat
<1>25. ASSUME NotifyAll
      PROVE  ScanStable'
  BY <1>25 DEF NotifyAll
<1>26. ASSUME Join
      PROVE  ScanStable'
  BY <1>26 DEF Join
<1>27. ASSUME UNCHANGED vars
      PROVE  ScanStable'
  BY <1>27 DEF vars
<1> QED
  BY <1>1, <1>2, <1>3, <1>4, <1>5, <1>6, <1>7, <1>8, <1>9, <1>10, <1>11,
     <1>12, <1>13, <1>14, <1>15, <1>16, <1>17, <1>18, <1>19, <1>20, <1>21,
     <1>22, <1>23, <1>24, <1>25, <1>26, <1>27
  DEF Next, FollowStep, LeadStep, HandlerStep, Destructor

-----------------------------------------------------------------------------
LEMMA InitIInv == Init => IInv
<1> SUFFICES ASSUME Init PROVE IInv
  OBVIOUS
<1> USE PoolAssumption, PCsAre DEF Init
<1>1. TypeOK
  <2>1. pfds \in Seq(Fds)
    BY EmptySeq
  <2> QED BY <2>1 DEF TypeOK, MainPCs
<1>2. NoDuplicateFds
  BY DEF NoDuplicateFds, IsInjective
<1>3. MutexInv /\ ScanStable
  BY DEF MutexInv, ScanStable, InFollow, Scanning
<1>4. RunningInv
  BY DEF RunningInv
<1>5. SeatInv /\ AtMostOneLeader /\ NoLostWakeup
  BY DEF SeatInv, AtMostOneLeader, NoLostWakeup, IsLeading, Leading
<1> QED BY <1>1, <1>2, <1>3, <1>4, <1>5 DEF IInv

\* The inductive invariant holds in every state the pool can reach, whatever
\* the number of threads and descriptors and however handlers end.
THEOREM InvariantHolds == Spec => []IInv
<1>1. Init => IInv
  BY InitIInv
<1>2. IInv /\ [Next]_vars => IInv'
  <2> SUFFICES ASSUME IInv, [Next]_vars PROVE IInv'
    OBVIOUS
  <2>1. TypeOK' /\ NoDuplicateFds'
    BY TypeStep DEF IInv
  <2>2. MutexInv'
    BY MutexStep DEF IInv
  <2>3. RunningInv'
    BY RunningStep DEF IInv
  <2>4. SeatInv' /\ AtMostOneLeader'
    BY SeatStep DEF IInv
  <2>5. NoLostWakeup'
    BY WakeupStep DEF IInv
  <2>6. ScanStable'
    BY ScanStep DEF IInv
  <2> QED BY <2>1, <2>2, <2>3, <2>4, <2>5, <2>6 DEF IInv
<1> QED BY <1>1, <1>2, PTL DEF Spec

\* Every variable keeps its type, and a handler runs on a real descriptor.
THEOREM TypeCorrect == Spec => []TypeOK
<1>1. IInv => TypeOK
  BY DEF IInv
<1> QED BY <1>1, InvariantHolds, PTL

\* There is never a second leader, not even while the destructor clears
\* has_leader without leader_mutex.
THEOREM LeaderUnique == Spec => []AtMostOneLeader
<1>1. IInv => AtMostOneLeader
  BY DEF IInv
<1> QED BY <1>1, InvariantHolds, PTL

\* While the pool runs no follower sleeps in front of a vacant seat unless
\* another thread is on its way to it.
THEOREM WakeupsKept == Spec => []NoLostWakeup
<1>1. IInv => NoLostWakeup
  BY DEF IInv
<1> QED BY <1>1, InvariantHolds, PTL

\* No descriptor is ever registered twice.
THEOREM FdsUnique == Spec => []NoDuplicateFds
<1>1. IInv => NoDuplicateFds
  BY DEF IInv
<1> QED BY <1>1, InvariantHolds, PTL

\* The leader's index designates the descriptor it found, up to the unlock.
THEOREM ScanUndisturbed == Spec => []ScanStable
<1>1. IInv => ScanStable
  BY DEF IInv
<1> QED BY <1>1, InvariantHolds, PTL

-----------------------------------------------------------------------------
\* A step of a thread is a step of a worker or changes no role.
LEMMA PoolStep ==
  ASSUME IInv, [Next]_vars
  PROVE  [Pool!PoolNext]_(Pool!poolVars)
<1> USE PCsAre
    DEF IInv, TypeOK, SeatInv, IsLeading, Leading, Handling, roleBar, RoleAt,
        Goto,
        Pool!PoolNext, Pool!poolVars, Pool!Become, Pool!Elect,
        Pool!Dispatch, Pool!Finish, Pool!StepDown, Pool!Leave, Pool!Stop,
        flagVars, mainVars, localVars
<1>1. ASSUME NEW t \in Threads, LockLeader(t)
      PROVE  [Pool!PoolNext]_(Pool!poolVars)
  BY <1>1 DEF LockLeader
<1>2. ASSUME NEW t \in Threads, FollowWhile(t)
      PROVE  [Pool!PoolNext]_(Pool!poolVars)
  <2>0. UNCHANGED flagVars
    BY <1>2 DEF FollowWhile
  <2>1. CASE running /\ Goto(t, "while", "check")
    <3>1. \A u \in Threads : RoleAt(pc'[u]) = RoleAt(pc[u])
      BY <2>1
    <3>2. roleBar' = roleBar
      BY <3>1
    <3> QED BY <2>0, <3>2
  <2>2. CASE ~running /\ Goto(t, "while", "exited")
    <3>1. /\ \A u \in Threads : RoleAt(pc'[u]) = IF u = t THEN "gone"
                                                     ELSE RoleAt(pc[u])
          /\ roleBar[t] = "follower"
      BY <2>2
    <3>2. roleBar' = [roleBar EXCEPT ![t] = "gone"]
      BY <3>1
    <3>3. UNCHANGED ~running
      BY <2>0
    <3>4. Pool!Leave(t)
      BY <2>2, <3>1, <3>2, <3>3
    <3> QED BY <3>4
  <2> QED BY <1>2, <2>1, <2>2 DEF FollowWhile
<1>3. ASSUME NEW t \in Threads, CheckLeader(t)
      PROVE  [Pool!PoolNext]_(Pool!poolVars)
  BY <1>3 DEF CheckLeader
<1>4. ASSUME NEW t \in Threads, Block(t)
      PROVE  [Pool!PoolNext]_(Pool!poolVars)
  BY <1>4 DEF Block
<1>5. ASSUME NEW t \in Threads, Reacquire(t)
      PROVE  [Pool!PoolNext]_(Pool!poolVars)
  BY <1>5 DEF Reacquire
<1>6. ASSUME NEW t \in Threads, Recheck(t)
      PROVE  [Pool!PoolNext]_(Pool!poolVars)
  <2>1. CASE running /\ Goto(t, "recheck", "seat")
    BY <1>6, <2>1 DEF Recheck
  <2>2. CASE ~running /\ Goto(t, "recheck", "exited")
    <3>1. /\ \A u \in Threads : RoleAt(pc'[u]) = IF u = t THEN "gone"
                                                     ELSE RoleAt(pc[u])
          /\ roleBar[t] = "follower"
      BY <2>2
    <3>2. roleBar' = [roleBar EXCEPT ![t] = "gone"]
      BY <3>1
    <3>3. UNCHANGED ~running
      BY <1>6 DEF Recheck
    <3>4. Pool!Leave(t)
      BY <2>2, <3>1, <3>2, <3>3
    <3> QED BY <3>4
  <2> QED BY <1>6, <2>1, <2>2 DEF Recheck
<1>7. ASSUME NEW t \in Threads, TakeSeat(t)
      PROVE  [Pool!PoolNext]_(Pool!poolVars)
  BY <1>7, ZenonT(60) DEF TakeSeat
<1>8. ASSUME NEW t \in Threads, LeadWhile(t)
      PROVE  [Pool!PoolNext]_(Pool!poolVars)
  BY <1>8, ZenonT(60) DEF LeadWhile
<1>9. ASSUME NEW t \in Threads, LockVectors(t)
      PROVE  [Pool!PoolNext]_(Pool!poolVars)
  BY <1>9 DEF LockVectors
<1>10. ASSUME NEW t \in Threads, Poll(t)
      PROVE  [Pool!PoolNext]_(Pool!poolVars)
  <2>1. CASE Goto(t, "poll", "lead")
    BY <1>10, <2>1 DEF Poll
  <2>2. CASE Goto(t, "poll", "promote")
    BY <1>10, <2>2 DEF Poll
  <2>3. CASE Goto(t, "poll", "self_deadlock")
    BY <1>10, <2>3 DEF Poll
  <2> QED BY <1>10, <2>1, <2>2, <2>3 DEF Poll
<1>11. ASSUME NEW t \in Threads, PromoteLeader(t)
      PROVE  [Pool!PoolNext]_(Pool!poolVars)
  <2>1. CASE pc' = [pc EXCEPT ![t] = "unlock_vectors"]
    BY <1>11, <2>1, ZenonT(60) DEF PromoteLeader
  <2>2. ASSUME NEW v \in Threads, pc[v] = "asleep",
               pc' = [pc EXCEPT ![t] = "unlock_vectors", ![v] = "woken"]
        PROVE  [Pool!PoolNext]_(Pool!poolVars)
    <3>1. v # t /\ roleBar[t] = "leader" /\ UNCHANGED ~running
      BY <1>11, <2>2 DEF PromoteLeader
    <3>2. \A u \in Threads : RoleAt(pc'[u]) = IF u = t THEN "handler"
                                                     ELSE RoleAt(pc[u])
      BY <1>11, <2>2, <3>1 DEF PromoteLeader
    <3>3. roleBar' = [roleBar EXCEPT ![t] = "handler"]
      BY <3>2
    <3>4. Pool!Dispatch(t)
      BY <3>1, <3>3
    <3> QED BY <3>4
  <2> QED BY <1>11, <2>1, <2>2 DEF PromoteLeader
<1>12. ASSUME NEW t \in Threads, UnlockVectors(t)
      PROVE  [Pool!PoolNext]_(Pool!poolVars)
  BY <1>12 DEF UnlockVectors
<1>13. ASSUME NEW t \in Threads, CallHandler(t)
      PROVE  [Pool!PoolNext]_(Pool!poolVars)
  BY <1>13 DEF CallHandler
<1>14. ASSUME NEW t \in Threads, HandlerRead(t)
      PROVE  [Pool!PoolNext]_(Pool!poolVars)
  <2>1. CASE Return(t, "handler")
    BY <1>14, <2>1, ZenonT(60) DEF HandlerRead, Return
  <2>2. CASE Goto(t, "handler", "close")
    BY <1>14, <2>2 DEF HandlerRead
  <2>3. CASE Goto(t, "handler", "close_only")
    BY <1>14, <2>3 DEF HandlerRead
  <2>4. CASE UNCHANGED pc
    BY <1>14, <2>4 DEF HandlerRead
  <2> QED BY <1>14, <2>1, <2>2, <2>3, <2>4 DEF HandlerRead
<1>15. ASSUME NEW t \in Threads, HandlerClose(t)
      PROVE  [Pool!PoolNext]_(Pool!poolVars)
  <2>1. CASE Return(t, "close_only")
    BY <1>15, <2>1, ZenonT(60) DEF HandlerClose, Return
  <2>2. CASE Goto(t, "close", "remove")
    BY <1>15, <2>2 DEF HandlerClose
  <2> QED BY <1>15, <2>1, <2>2 DEF HandlerClose
<1>16. ASSUME NEW t \in Threads, RemoveFd(t)
      PROVE  [Pool!PoolNext]_(Pool!poolVars)
  BY <1>16, ZenonT(60) DEF RemoveFd, Return
<1>17. ASSUME NEW t \in Threads, SpuriousWakeup(t)
      PROVE  [Pool!PoolNext]_(Pool!poolVars)
  BY <1>17 DEF SpuriousWakeup
<1>18. ASSUME NEW t \in Threads, CallUndefined(t)
      PROVE  [Pool!PoolNext]_(Pool!poolVars)
  BY <1>18 DEF CallUndefined
<1>19. ASSUME NEW fd \in Fds, Accept(fd)
      PROVE  [Pool!PoolNext]_(Pool!poolVars)
  BY <1>19 DEF Accept
<1>20. ASSUME NEW fd \in Fds, ClientSends(fd)
      PROVE  [Pool!PoolNext]_(Pool!poolVars)
  BY <1>20 DEF ClientSends
<1>21. ASSUME AddFd
      PROVE  [Pool!PoolNext]_(Pool!poolVars)
  BY <1>21 DEF AddFd
<1>22. ASSUME GreetClient
      PROVE  [Pool!PoolNext]_(Pool!poolVars)
  BY <1>22 DEF GreetClient
<1>23. ASSUME StopRunning
      PROVE  [Pool!PoolNext]_(Pool!poolVars)
  BY <1>23 DEF StopRunning
<1>24. ASSUME VacateSeat
      PROVE  [Pool!PoolNext]_(Pool!poolVars)
  BY <1>24 DEF VacateSeat
<1>25. ASSUME NotifyAll
      PROVE  [Pool!PoolNext]_(Pool!poolVars)
  BY <1>25 DEF NotifyAll
<1>26. ASSUME Join
      PROVE  [Pool!PoolNext]_(Pool!poolVars)
  BY <1>26 DEF Join
<1>27. ASSUME UNCHANGED vars
      PROVE  [Pool!PoolNext]_(Pool!poolVars)
  BY <1>27 DEF vars
<1> QED
  BY <1>1, <1>2, <1>3, <1>4, <1>5, <1>6, <1>7, <1>8, <1>9, <1>10, <1>11,
     <1>12, <1>13, <1>14, <1>15, <1>16, <1>17, <1>18, <1>19, <1>20, <1>21,
     <1>22, <1>23, <1>24, <1>25, <1>26, <1>27
  DEF Next, FollowStep, LeadStep, HandlerStep, Destructor

\* The pool implements the abstract pool of workers: see ImplementsPool.
THEOREM Implements == Spec => ImplementsPool
<1>1. Init => Pool!PoolInit
  BY PCsAre DEF Init, Pool!PoolInit, roleBar, RoleAt, Leading, Handling
<1>2. IInv /\ [Next]_vars => [Pool!PoolNext]_(Pool!poolVars)
  BY PoolStep
<1> QED
  BY <1>1, <1>2, InvariantHolds, PTL DEF Spec, ImplementsPool, Pool!Spec

=============================================================================
