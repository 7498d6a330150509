--------------------------- MODULE SerialExecutor ---------------------------
(***************************************************************************)
(* What an active object promises its callers: the calls it accepts are    *)
(* executed one at a time in the order in which they were accepted, and    *)
(* every accepted call's future is resolved once, by a result or, when the *)
(* object is closed before the call's turn, as broken.                     *)
(***************************************************************************)
EXTENDS Integers, Sequences

CONSTANTS Calls,
          Results   \* how the future of an executed call may be resolved

VARIABLES
  log,       \* the accepted calls, in order
  started,   \* how many of them have been started
  state,     \* of each call: "new", "pending", "running", or how it ended
  closed

execVars == <<log, started, state, closed>>

Idle == \A c \in Calls : state[c] # "running"

Submit(c) ==
  /\ ~closed
  /\ state[c] = "new"
  /\ log' = Append(log, c)
  /\ state' = [state EXCEPT ![c] = "pending"]
  /\ UNCHANGED <<started, closed>>

Start(c) ==
  /\ Idle
  /\ started < Len(log) /\ log[started + 1] = c
  /\ state[c] = "pending"
  /\ state' = [state EXCEPT ![c] = "running"]
  /\ started' = started + 1
  /\ UNCHANGED <<log, closed>>

Finish(c) ==
  /\ state[c] = "running"
  /\ \E r \in Results : state' = [state EXCEPT ![c] = r]
  /\ UNCHANGED <<log, started, closed>>

Close ==
  /\ Idle
  /\ ~closed
  /\ closed' = TRUE
  /\ state' = [c \in Calls |-> IF state[c] = "pending" THEN "broken"
                                                       ELSE state[c]]
  /\ UNCHANGED <<log, started>>

ExecInit ==
  /\ log = << >>
  /\ started = 0
  /\ state = [c \in Calls |-> "new"]
  /\ closed = FALSE

ExecNext ==
  \/ \E c \in Calls : Submit(c) \/ Start(c) \/ Finish(c)
  \/ Close

Spec == ExecInit /\ [][ExecNext]_execVars

=============================================================================
