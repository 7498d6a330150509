------------------------- MODULE ActiveObjectProofs -------------------------
(***************************************************************************)
(* Proofs about ActiveObject, for every set of calls, both specialisations *)
(* of the template, methods that throw or not and callers that are late or *)
(* not: its safety properties, and that it implements SerialExecutor.      *)
(***************************************************************************)
EXTENDS ActiveObject, DataLemmas

\* An entry of a sequence is a member of the set of its entries.
LEMMA EntryInToSet ==
  ASSUME NEW S, NEW s \in Seq(S), NEW i \in 1..Len(s)
  PROVE  s[i] \in ToSet(s)
BY DEF ToSet

\* Popping the front: the queue is its front followed by the rest, and the
\* front is not in the rest when there are no duplicates.
LEMMA PopFront ==
  ASSUME NEW S, NEW s \in Seq(S), s # << >>, IsInjective(s)
  PROVE  /\ Head(s) \in S /\ Tail(s) \in Seq(S) /\ IsInjective(Tail(s))
         /\ s = <<Head(s)>> \o Tail(s)
         /\ Head(s) \in ToSet(s) /\ Head(s) \notin ToSet(Tail(s))
         /\ ToSet(s) = {Head(s)} \cup ToSet(Tail(s))
<1>1. /\ Head(s) \in S /\ Tail(s) \in Seq(S) /\ Len(Tail(s)) = Len(s) - 1
      /\ \A i \in 1..Len(Tail(s)) : Tail(s)[i] = s[i + 1]
  BY HeadTailProperties
<1>2. Len(s) \in Nat \ {0} /\ Head(s) = s[1]
  OBVIOUS
<1>3. \A a, b \in 1..Len(s) : s[a] = s[b] => a = b
  BY DEF IsInjective
<1>4. \A a, b \in 1..Len(Tail(s)) : Tail(s)[a] = Tail(s)[b] => a = b
  BY <1>1, <1>2, <1>3
<1>5. IsInjective(Tail(s))
  BY <1>1, <1>4 DEF IsInjective
<1>6. s = <<Head(s)>> \o Tail(s)
  OBVIOUS
<1>7. Head(s) \in ToSet(s)
  BY <1>2 DEF ToSet
<1>8. Head(s) \notin ToSet(Tail(s))
  <2>1. SUFFICES ASSUME NEW i \in 1..Len(Tail(s)), Tail(s)[i] = Head(s)
                 PROVE  FALSE
    BY <1>1 DEF ToSet
  <2> QED BY <2>1, <1>1, <1>2, <1>3
<1>9. ToSet(s) = {Head(s)} \cup ToSet(Tail(s))
  <2>1. \A i \in 1..Len(s) : s[i] = Head(s) \/ s[i] \in ToSet(Tail(s))
    <3>1. SUFFICES ASSUME NEW i \in 1..Len(s), i # 1
                   PROVE  s[i] \in ToSet(Tail(s))
      BY <1>2
    <3>2. i - 1 \in 1..Len(Tail(s)) /\ Tail(s)[i - 1] = s[i]
      BY <3>1, <1>1, <1>2
    <3> QED BY <3>2, <1>1, EntryInToSet
  <2>2. \A i \in 1..Len(Tail(s)) : i + 1 \in 1..Len(s) /\ s[i + 1] = Tail(s)[i]
    BY <1>1, <1>2
  <2>3. ToSet(Tail(s)) \subseteq ToSet(s)
    BY <2>2, <1>1 DEF ToSet
  <2> QED BY <2>1, <2>3, <1>7 DEF ToSet
<1> QED BY <1>1, <1>5, <1>6, <1>7, <1>8, <1>9

\* Appending adds the new element to the set of entries.
LEMMA AppendToSet ==
  ASSUME NEW S, NEW s \in Seq(S), NEW e \in S
  PROVE  ToSet(Append(s, e)) = ToSet(s) \cup {e}
<1>1. /\ Append(s, e) \in Seq(S) /\ Len(Append(s, e)) = Len(s) + 1
      /\ \A i \in 1..Len(s) : Append(s, e)[i] = s[i]
      /\ Append(s, e)[Len(s) + 1] = e
  BY AppendProperties
<1>2. \A i \in 1..(Len(s) + 1) :
        Append(s, e)[i] = e \/ (i \in 1..Len(s) /\ Append(s, e)[i] = s[i])
  BY <1>1
<1>3. ToSet(Append(s, e)) \subseteq ToSet(s) \cup {e}
  BY <1>1, <1>2 DEF ToSet
<1>4. ToSet(s) \subseteq ToSet(Append(s, e))
  BY <1>1 DEF ToSet
<1>5. e \in ToSet(Append(s, e))
  BY <1>1 DEF ToSet
<1> QED BY <1>3, <1>4, <1>5

\* Appending to a concatenation of calls appends to its second part.
LEMMA AppendToConcat ==
  \A s, t \in Seq(Calls), c \in Calls : Append(s \o t, c) = s \o Append(t, c)
<1> SUFFICES ASSUME NEW s \in Seq(Calls), NEW t \in Seq(Calls), NEW c \in Calls
             PROVE  Append(s \o t, c) = s \o Append(t, c)
  OBVIOUS
<1>1. <<c>> \in Seq(Calls) /\ s \o t \in Seq(Calls)
  BY ConcatProperties
<1>2. (s \o t) \o <<c>> = s \o (t \o <<c>>)
  BY <1>1, ConcatAssociative
<1> QED BY <1>1, <1>2, AppendIsConcat

\* A sequence is a prefix of whatever extends it.
LEMMA ConcatIsPrefix ==
  ASSUME NEW S, NEW s \in Seq(S), NEW t \in Seq(S)
  PROVE  IsPrefix(s, s \o t)
BY ConcatProperties DEF IsPrefix

-----------------------------------------------------------------------------
\* Types, one method object per unresolved call, no waiting on work, no
\* stranded future.
LEMMA CallStep ==
  ASSUME IInv, [Next]_vars
  PROVE  /\ TypeOK' /\ MethodObjectInv' /\ NoSleepOnWork'
         /\ NoStrandedFuture'
<1> USE ActiveObjectAssumption
    DEF IInv, TypeOK, PCs, Owners, MethodObjectInv, NoSleepOnWork,
        NoStrandedFuture
<1>1. ASSUME NEW c \in Calls, Invoke(c)
      PROVE  /\ TypeOK' /\ MethodObjectInv' /\ NoSleepOnWork'
             /\ NoStrandedFuture'
  <2>1. c \notin ToSet(queue) /\ c # obj /\ c \notin ToSet(ran)
    BY <1>1 DEF Invoke
  <2>2. /\ queue' \in Seq(Calls) /\ IsInjective(queue')
        /\ ToSet(queue') = ToSet(queue) \cup {c}
    BY <1>1, <2>1, AppendNewInjective, AppendToSet DEF Invoke
  <2> QED BY <1>1, <2>1, <2>2 DEF Invoke
<1>2. ASSUME NEW c \in Calls, InvokeDestroyed(c)
      PROVE  /\ TypeOK' /\ MethodObjectInv' /\ NoSleepOnWork'
             /\ NoStrandedFuture'
  BY <1>2 DEF InvokeDestroyed
<1>3. ASSUME While
      PROVE  /\ TypeOK' /\ MethodObjectInv' /\ NoSleepOnWork'
             /\ NoStrandedFuture'
  BY <1>3 DEF While
<1>4. ASSUME Lock
      PROVE  /\ TypeOK' /\ MethodObjectInv' /\ NoSleepOnWork'
             /\ NoStrandedFuture'
  <2>1. CASE queue # << >> /\ Take
    <3>1. /\ Head(queue) \in Calls /\ Tail(queue) \in Seq(Calls)
          /\ IsInjective(Tail(queue))
          /\ Head(queue) \in ToSet(queue)
          /\ Head(queue) \notin ToSet(Tail(queue))
          /\ ToSet(queue) = {Head(queue)} \cup ToSet(Tail(queue))
      BY <2>1, PopFront DEF IInv
    <3> QED BY <1>4, <2>1, <3>1 DEF Lock, Take
  <2>2. CASE queue = << >>
    BY <1>4, <2>2 DEF Lock
  <2> QED BY <1>4, <2>1, <2>2 DEF Lock
<1>5. ASSUME Timeout
      PROVE  /\ TypeOK' /\ MethodObjectInv' /\ NoSleepOnWork'
             /\ NoStrandedFuture'
  BY <1>5 DEF Timeout
<1>6. ASSUME Resume
      PROVE  /\ TypeOK' /\ MethodObjectInv' /\ NoSleepOnWork'
             /\ NoStrandedFuture'
  <2>1. CASE queue # << >> /\ Take
    <3>1. /\ Head(queue) \in Calls /\ Tail(queue) \in Seq(Calls)
          /\ IsInjective(Tail(queue))
          /\ Head(queue) \in ToSet(queue)
          /\ Head(queue) \notin ToSet(Tail(queue))
          /\ ToSet(queue) = {Head(queue)} \cup ToSet(Tail(queue))
      BY <2>1, PopFront DEF IInv
    <3> QED BY <1>6, <2>1, <3>1 DEF Resume, Take
  <2>2. CASE queue = << >>
    BY <1>6, <2>2 DEF Resume
  <2> QED BY <1>6, <2>1, <2>2 DEF Resume
<1>7. ASSUME Dispatch
      PROVE  /\ TypeOK' /\ MethodObjectInv' /\ NoSleepOnWork'
             /\ NoStrandedFuture'
  <2>1. ran' \in Seq(Calls) /\ ToSet(ran') = ToSet(ran) \cup {obj}
    BY <1>7, AppendToSet, AppendProperties DEF Dispatch
  <2>2. ToSet(ran) \subseteq Calls /\ ToSet(queue) \subseteq Calls
    BY DEF ToSet
  <2>3. /\ promise' \in [Calls -> {"none", "pending", "value", "broken"}]
        /\ promise'[obj] = IF Returns THEN "value" ELSE "broken"
        /\ \A c \in Calls : c # obj => promise'[c] = promise[c]
    BY <1>7 DEF Dispatch
  <2>4. /\ obj' = None /\ pc' = "while"
        /\ UNCHANGED <<done, queue, owner, log, crashed>>
    BY <1>7 DEF Dispatch
  <2> QED BY <1>7, <2>1, <2>2, <2>3, <2>4 DEF Dispatch
<1>8. ASSUME DispatchThrows
      PROVE  /\ TypeOK' /\ MethodObjectInv' /\ NoSleepOnWork'
             /\ NoStrandedFuture'
  BY <1>8 DEF DispatchThrows
<1>9. ASSUME SetDone
      PROVE  /\ TypeOK' /\ MethodObjectInv' /\ NoSleepOnWork'
             /\ NoStrandedFuture'
  BY <1>9 DEF SetDone
<1>10. ASSUME Join
      PROVE  /\ TypeOK' /\ MethodObjectInv' /\ NoSleepOnWork'
             /\ NoStrandedFuture'
  BY <1>10 DEF Join
<1>11. ASSUME DestroyMembers
      PROVE  /\ TypeOK' /\ MethodObjectInv' /\ NoSleepOnWork'
             /\ NoStrandedFuture'
  <2>1. ToSet(<< >>) = {} /\ IsInjective(<< >>) /\ << >> \in Seq(Calls)
    BY DEF ToSet, IsInjective
  <2>2. ToSet(ran) \subseteq Calls /\ ToSet(queue) \subseteq Calls
    BY DEF ToSet
  <2>3. /\ promise' \in [Calls -> {"none", "pending", "value", "broken"}]
        /\ \A c \in Calls : promise'[c] = IF c \in ToSet(queue) THEN "broken"
                                                            ELSE promise[c]
    BY <1>11 DEF DestroyMembers
  <2>4. /\ owner' = "gone" /\ pc = "exited" /\ queue' = << >>
        /\ UNCHANGED <<done, pc, obj, log, ran, crashed>>
    BY <1>11 DEF DestroyMembers
  <2> QED BY <2>1, <2>2, <2>3, <2>4
<1>12. ASSUME UNCHANGED vars
      PROVE  /\ TypeOK' /\ MethodObjectInv' /\ NoSleepOnWork'
             /\ NoStrandedFuture'
  BY <1>12 DEF vars
<1> QED
  BY <1>1, <1>2, <1>3, <1>4, <1>5, <1>6, <1>7, <1>8, <1>9, <1>10, <1>11, <1>12
  DEF Next, Dispatcher

\* The order in which calls run is the order in which they were enqueued.
LEMMA FifoStep ==
  ASSUME IInv, [Next]_vars
  PROVE  FifoOrder'
<1> USE ActiveObjectAssumption
    DEF IInv, TypeOK, FifoOrder, MethodObjectInv
<1>1. ASSUME NEW c \in Calls, Invoke(c)
      PROVE  FifoOrder'
  <2>1. queue \in Seq(Calls) /\ ran \in Seq(Calls) /\ InHand \in Seq(Calls)
    BY DEF InHand
  <2>2. Append(ran \o InHand \o queue, c) = ran \o InHand \o Append(queue, c)
    <3>1. ran \o InHand \in Seq(Calls)
      BY <2>1, ConcatProperties
    <3> HIDE DEF IInv, FifoOrder, TypeOK, MethodObjectInv
    <3> QED BY <2>1, <3>1, AppendToConcat
  <2> QED BY <1>1, <2>2 DEF Invoke, InHand
<1>2. ASSUME NEW c \in Calls, InvokeDestroyed(c)
      PROVE  FifoOrder'
  BY <1>2 DEF InvokeDestroyed, InHand
<1>3. ASSUME While
      PROVE  FifoOrder'
  BY <1>3 DEF While, InHand
<1>4. ASSUME Lock
      PROVE  FifoOrder'
  <2>1. CASE queue # << >> /\ Take
    <3>1. queue = <<Head(queue)>> \o Tail(queue)
      BY <2>1, PopFront
    <3>2. obj = None /\ InHand = << >> /\ InHand' = <<Head(queue)>>
      <4>1. Head(queue) \in Calls
        BY <2>1, PopFront
      <4> QED BY <1>4, <2>1, <4>1 DEF Take, InHand, Lock
    <3>3. ran \o InHand = ran
      BY <3>2, ConcatEmptySeq
    <3>4. ran \o (<<Head(queue)>> \o Tail(queue))
            = (ran \o <<Head(queue)>>) \o Tail(queue)
      <4>1. Head(queue) \in Calls /\ Tail(queue) \in Seq(Calls)
        BY <2>1, PopFront
      <4>2. <<Head(queue)>> \in Seq(Calls)
        BY <4>1
      <4> QED BY <4>1, <4>2, ConcatAssociative
    <3>5. log = (ran \o <<Head(queue)>>) \o Tail(queue)
      BY <1>4, <2>1, <3>1, <3>3, <3>4 DEF Lock
    <3> QED BY <1>4, <2>1, <3>2, <3>5 DEF Take, Lock
  <2>2. CASE queue = << >>
    BY <1>4, <2>2 DEF Lock, InHand
  <2> QED BY <1>4, <2>1, <2>2 DEF Lock
<1>5. ASSUME Timeout
      PROVE  FifoOrder'
  BY <1>5 DEF Timeout, InHand
<1>6. ASSUME Resume
      PROVE  FifoOrder'
  <2>1. CASE queue # << >> /\ Take
    <3>1. queue = <<Head(queue)>> \o Tail(queue)
      BY <2>1, PopFront
    <3>2. obj = None /\ InHand = << >> /\ InHand' = <<Head(queue)>>
      <4>1. Head(queue) \in Calls
        BY <2>1, PopFront
      <4> QED BY <1>6, <2>1, <4>1 DEF Take, InHand, Resume
    <3>3. ran \o InHand = ran
      BY <3>2, ConcatEmptySeq
    <3>4. ran \o (<<Head(queue)>> \o Tail(queue))
            = (ran \o <<Head(queue)>>) \o Tail(queue)
      <4>1. Head(queue) \in Calls /\ Tail(queue) \in Seq(Calls)
        BY <2>1, PopFront
      <4>2. <<Head(queue)>> \in Seq(Calls)
        BY <4>1
      <4> QED BY <4>1, <4>2, ConcatAssociative
    <3>5. log = (ran \o <<Head(queue)>>) \o Tail(queue)
      BY <1>6, <2>1, <3>1, <3>3, <3>4 DEF Resume
    <3> QED BY <1>6, <2>1, <3>2, <3>5 DEF Take, Resume
  <2>2. CASE queue = << >>
    BY <1>6, <2>2 DEF Resume, InHand
  <2> QED BY <1>6, <2>1, <2>2 DEF Resume
<1>7. ASSUME Dispatch
      PROVE  FifoOrder'
  <2>1. InHand = <<obj>> /\ InHand' = << >>
    BY <1>7 DEF Dispatch, InHand
  <2>2. ran' = ran \o <<obj>> /\ ran' \in Seq(Calls)
    BY <1>7, AppendIsConcat, AppendProperties DEF Dispatch
  <2>3. ran' \o InHand' = ran \o InHand
    BY <2>1, <2>2, ConcatEmptySeq
  <2> QED BY <1>7, <2>3 DEF Dispatch
<1>8. ASSUME DispatchThrows
      PROVE  FifoOrder'
  BY <1>8 DEF DispatchThrows, InHand
<1>9. ASSUME SetDone
      PROVE  FifoOrder'
  BY <1>9 DEF SetDone, InHand
<1>10. ASSUME Join
      PROVE  FifoOrder'
  BY <1>10 DEF Join, InHand
<1>11. ASSUME DestroyMembers
      PROVE  FifoOrder'
  <2>1. log = ran \o queue
    <3>1. InHand = << >>
      BY <1>11 DEF DestroyMembers, InHand
    <3> QED BY <1>11, <3>1, ConcatEmptySeq DEF DestroyMembers
  <2>2. IsPrefix(ran, ran \o queue)
    BY ConcatIsPrefix
  <2> QED BY <1>11, <2>1, <2>2 DEF DestroyMembers
<1>12. ASSUME UNCHANGED vars
      PROVE  FifoOrder'
  BY <1>12 DEF vars, InHand
<1> QED
  BY <1>1, <1>2, <1>3, <1>4, <1>5, <1>6, <1>7, <1>8, <1>9, <1>10, <1>11, <1>12
  DEF Next, Dispatcher

LEMMA InitIInv == Init => IInv
<1> SUFFICES ASSUME Init PROVE IInv
  OBVIOUS
<1>1. ToSet(<< >>) = {} /\ IsInjective(<< >>) /\ << >> \in Seq(Calls)
  BY DEF ToSet, IsInjective
<1>2. << >> \o << >> \o << >> = << >>
  OBVIOUS
<1> QED
  BY <1>1, <1>2, ActiveObjectAssumption
  DEF Init, IInv, TypeOK, PCs, Owners, FifoOrder, InHand, NoSleepOnWork,
      NoStrandedFuture, MethodObjectInv

\* The conjunction of the properties below with MethodObjectInv is inductive.
THEOREM InvariantHolds == Spec => []IInv
<1>1. IInv /\ [Next]_vars => IInv'
  BY CallStep, FifoStep DEF IInv
<1> QED BY <1>1, InitIInv, PTL DEF Spec

\* The variables keep their types; obj is set exactly during a dispatch.
THEOREM TypeCorrect == Spec => []TypeOK
<1>1. IInv => TypeOK
  BY DEF IInv
<1> QED BY <1>1, InvariantHolds, PTL

\* Calls run one at a time in the order in which they were enqueued.
THEOREM CallsInOrder == Spec => []FifoOrder
<1>1. IInv => FifoOrder
  BY DEF IInv
<1> QED BY <1>1, InvariantHolds, PTL

\* The dispatcher thread never waits while there is a call to run.
THEOREM NoMissedCall == Spec => []NoSleepOnWork
<1>1. IInv => NoSleepOnWork
  BY DEF IInv
<1> QED BY <1>1, InvariantHolds, PTL

\* Every unresolved future belongs to a call that is queued or running.
THEOREM FuturesOwned == Spec => []NoStrandedFuture
<1>1. IInv => NoStrandedFuture
  BY DEF IInv
<1> QED BY <1>1, InvariantHolds, PTL

-----------------------------------------------------------------------------
(* The active object implements the serial executor.                        *)

StateBar == [c \in Calls |-> IF promise[c] = "none" THEN "new"
                             ELSE IF c = obj THEN "running"
                             ELSE promise[c]]
StartedBar == Len(ran) + Len(InHand)
ResultsBar == IF Returns THEN {"value"} ELSE {"broken"}

\* Taking the front of the queue is the executor's Start.
LEMMA TakeStarts ==
  ASSUME IInv, queue # << >>, Take, obj = None, owner # "gone",
         UNCHANGED <<done, promise, owner, log, ran, crashed>>,
         NEW c \in Calls, c = Head(queue)
  PROVE  Executor!Start(c)
<1> USE ActiveObjectAssumption
<1>1. /\ queue \in Seq(Calls) /\ ran \in Seq(Calls) /\ IsInjective(queue)
      /\ promise \in [Calls -> {"none", "pending", "value", "broken"}]
      /\ obj' = c /\ \A d \in ToSet(queue) : promise[d] = "pending"
  BY DEF IInv, TypeOK, MethodObjectInv, Take
<1>2. c \in Calls /\ c \in ToSet(queue) /\ promise[c] = "pending"
  BY <1>1, PopFront
<1>3. InHand = << >> /\ InHand' = <<c>>
  BY <1>1, <1>2 DEF InHand
<1>4. log = ran \o queue
  <2>1. ran \o << >> = ran
    BY <1>1, ConcatEmptySeq
  <2> QED BY <2>1, <1>3 DEF IInv, FifoOrder
<1>5. Len(ran) \in Nat /\ Len(queue) \in Nat \ {0}
  BY <1>1
<1>6. Len(ran) < Len(log) /\ log[Len(ran) + 1] = queue[1]
  <2>1. Len(log) = Len(ran) + Len(queue)
    BY <1>1, <1>4, ConcatProperties
  <2>2. Len(ran) + 1 \in 1..(Len(ran) + Len(queue))
    BY <1>5
  <2>3. log[Len(ran) + 1] = queue[Len(ran) + 1 - Len(ran)]
    BY <1>1, <1>4, <1>5, <2>2, ConcatProperties
  <2> QED BY <1>5, <2>1, <2>3
<1>7. StartedBar = Len(ran) /\ StartedBar' = Len(ran) + 1
  BY <1>3, <1>5 DEF StartedBar
<1>8. queue[1] = c
  BY <1>1
<1>9. \A d \in Calls : StateBar[d] # "running"
  BY <1>1 DEF StateBar
<1>10. StateBar[c] = "pending" /\ StateBar' = [StateBar EXCEPT ![c] = "running"]
  <2>1. \A d \in Calls : d # c => StateBar'[d] = StateBar[d]
    BY <1>1 DEF StateBar
  <2>2. StateBar'[c] = "running" /\ StateBar[c] = "pending"
    BY <1>1, <1>2 DEF StateBar
  <2> QED BY <1>2, <2>1, <2>2 DEF StateBar
<1> QED
  BY <1>2, <1>6, <1>7, <1>8, <1>9, <1>10
  DEF Executor!Start, Executor!Idle, StateBar, StartedBar

\* Every step is a step of the executor or a stutter.
LEMMA ExecutorStep ==
  ASSUME IInv, [Next]_vars
  PROVE  [Executor!ExecNext]_(Executor!execVars)
<1> USE ActiveObjectAssumption
<1>t. TypeOK /\ MethodObjectInv /\ NoStrandedFuture
  BY DEF IInv
<1>r. Len(ran) \in Nat /\ Len(InHand) \in Nat
  BY <1>t DEF TypeOK, InHand
<1>s. ASSUME UNCHANGED <<promise, owner, log, ran, obj>>
      PROVE  UNCHANGED Executor!execVars
  BY <1>s DEF Executor!execVars, InHand
<1>1. ASSUME NEW c \in Calls, Invoke(c)
      PROVE  Executor!Submit(c)
  <2>1. InHand' = InHand /\ ran' = ran /\ promise[c] = "none"
    BY <1>1 DEF Invoke, InHand
  <2>2. c # obj
    BY <1>t, <2>1 DEF MethodObjectInv
  <2>3. StateBar[c] = "new" /\ StateBar' = [StateBar EXCEPT ![c] = "pending"]
    BY <1>1, <1>t, <2>2 DEF Invoke, StateBar, TypeOK
  <2>4. owner # "gone" /\ owner' = owner
    BY <1>1 DEF Invoke
  <2> QED BY <1>1, <2>1, <2>3, <2>4 DEF Invoke, StateBar, Executor!Submit
<1>2. ASSUME NEW c \in Calls, InvokeDestroyed(c)
      PROVE  UNCHANGED Executor!execVars
  BY <1>2, <1>s DEF InvokeDestroyed
<1>3. ASSUME While
      PROVE  UNCHANGED Executor!execVars
  BY <1>3, <1>s DEF While
<1>4. ASSUME Lock \/ Resume
      PROVE  [Executor!ExecNext]_(Executor!execVars)
  <2>1. obj = None /\ owner # "gone"
        /\ UNCHANGED <<done, promise, owner, log, ran, crashed>>
    BY <1>4, <1>t DEF Lock, Resume, TypeOK, MethodObjectInv
  <2>2. CASE queue # << >> /\ Take
    <3>1. PICK c \in Calls : c = Head(queue)
      BY <1>t, <2>2, PopFront DEF TypeOK, MethodObjectInv
    <3>2. Executor!Start(c)
      BY <2>1, <2>2, <3>1, TakeStarts
    <3> QED BY <3>2 DEF Executor!ExecNext
  <2>3. CASE UNCHANGED obj
    BY <2>1, <2>3, <1>s
  <2> QED BY <1>4, <2>2, <2>3 DEF Lock, Resume
<1>5. ASSUME Timeout
      PROVE  UNCHANGED Executor!execVars
  BY <1>5, <1>s DEF Timeout
<1>7. ASSUME Dispatch
      PROVE  \E c \in Calls : Executor!Finish(c)
  <2>1. obj \in Calls /\ promise[obj] = "pending" /\ owner' = owner
    BY <1>7, <1>t DEF Dispatch, TypeOK, MethodObjectInv
  <2>2. StateBar[obj] = "running"
    BY <2>1 DEF StateBar
  <2>3. \E r \in ResultsBar : StateBar' = [StateBar EXCEPT ![obj] = r]
    <3>1. promise'[obj] \in ResultsBar
          /\ \A c \in Calls : c # obj => promise'[c] = promise[c]
      BY <1>7, <1>t, <2>1 DEF Dispatch, TypeOK, ResultsBar
    <3>2. StateBar'[obj] = promise'[obj]
      BY <1>7, <2>1, <3>1 DEF Dispatch, StateBar, ResultsBar
    <3>3. \A c \in Calls : c # obj => StateBar'[c] = StateBar[c]
      BY <1>7, <3>1 DEF Dispatch, StateBar
    <3>4. StateBar' = [StateBar EXCEPT ![obj] = promise'[obj]]
      BY <2>1, <3>2, <3>3 DEF StateBar
    <3> QED BY <3>1, <3>4
  <2>4. StartedBar' = StartedBar
    <3>1. Len(InHand) = 1 /\ Len(InHand') = 0
      BY <1>7, <2>1 DEF Dispatch, InHand
    <3>2. Len(ran') = Len(ran) + 1
      BY <1>7, <1>t, <2>1, AppendProperties DEF Dispatch, TypeOK
    <3> QED BY <3>1, <3>2, <1>r DEF StartedBar
  <2>5. log' = log
    BY <1>7 DEF Dispatch
  <2>6. PICK c \in Calls : c = obj
    BY <2>1
  <2>7. Executor!Finish(c)
    BY <2>1, <2>2, <2>3, <2>4, <2>5, <2>6
    DEF Executor!Finish, StateBar, StartedBar, ResultsBar
  <2> QED BY <2>7
<1>8. ASSUME DispatchThrows
      PROVE  UNCHANGED Executor!execVars
  BY <1>8, <1>s DEF DispatchThrows
<1>9. ASSUME SetDone \/ Join
      PROVE  UNCHANGED Executor!execVars
  <2>1. UNCHANGED <<promise, log, ran, obj>> /\ owner # "gone" /\ owner' # "gone"
    BY <1>9 DEF SetDone, Join
  <2> QED BY <2>1 DEF Executor!execVars, InHand
<1>10. ASSUME DestroyMembers
       PROVE  Executor!Close
  <2>1. obj = None /\ InHand' = InHand /\ ran' = ran /\ log' = log
        /\ owner # "gone" /\ owner' = "gone"
    BY <1>10, <1>t DEF DestroyMembers, TypeOK, MethodObjectInv, InHand
  <2>2. \A c \in Calls : StateBar[c] # "running"
    BY <1>t, <2>1 DEF StateBar, TypeOK
  <2>3. \A c \in Calls : c \in ToSet(queue) <=> promise[c] = "pending"
    BY <1>t, <2>1 DEF MethodObjectInv, NoStrandedFuture
  <2>4. \A c \in Calls : StateBar[c] = "pending" <=> promise[c] = "pending"
    BY <2>1 DEF StateBar
  <2>5. \A c \in Calls :
          StateBar'[c] = IF StateBar[c] = "pending" THEN "broken"
                                                    ELSE StateBar[c]
    BY <1>10, <2>1, <2>3, <2>4 DEF DestroyMembers, StateBar
  <2>6. StateBar' = [c \in Calls |-> IF StateBar[c] = "pending" THEN "broken"
                                                                ELSE StateBar[c]]
    BY <2>5 DEF StateBar
  <2> QED BY <2>1, <2>2, <2>6 DEF Executor!Close, Executor!Idle, StateBar
<1>11. ASSUME UNCHANGED vars
       PROVE  UNCHANGED Executor!execVars
  BY <1>11, <1>s DEF vars
<1>12. ASSUME NEW c \in Calls, Invoke(c)
       PROVE  Executor!ExecNext
  BY <1>1, <1>12 DEF Executor!ExecNext
<1>13. ASSUME Dispatch
       PROVE  Executor!ExecNext
  BY <1>7, <1>13 DEF Executor!ExecNext
<1>14. ASSUME DestroyMembers
       PROVE  Executor!ExecNext
  BY <1>10, <1>14 DEF Executor!ExecNext
<1> QED
  BY <1>2, <1>3, <1>4, <1>5, <1>8, <1>9, <1>11, <1>12, <1>13, <1>14
  DEF Next, Dispatcher

\* ActiveObject implements SerialExecutor: calls are started in the order in
\* which they were accepted, one at a time, and resolved once.
THEOREM Implements == Spec => ImplementsExecutor
<1>1. Init => Executor!ExecInit
  BY ActiveObjectAssumption DEF Init, Executor!ExecInit, InHand
<1> QED
  BY <1>1, ExecutorStep, InvariantHolds, PTL
  DEF Spec, ImplementsExecutor, Executor!Spec

=============================================================================
