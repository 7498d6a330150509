----------------------------- MODULE WorkerPool -----------------------------
(***************************************************************************)
(* What a leader/follower pool promises, as leader_follower.hpp states it: *)
(* workers take turns in one leader's seat; the leader that finds an event *)
(* leaves the seat and handles the event; a worker gives up its turn, or   *)
(* leaves, only once the pool is being destroyed.                          *)
(***************************************************************************)
CONSTANT Workers

VARIABLES
  role,      \* "follower", "leader", "handler" or "gone", for each worker
  stopping   \* the pool is being destroyed

poolVars == <<role, stopping>>

Become(w, from, to) ==
  /\ role[w] = from
  /\ role' = [role EXCEPT ![w] = to]
  /\ UNCHANGED stopping

Elect(w) ==
  /\ \A v \in Workers : role[v] # "leader"
  /\ Become(w, "follower", "leader")

Dispatch(w) == Become(w, "leader", "handler")

Finish(w) == Become(w, "handler", "follower")

StepDown(w) == stopping /\ Become(w, "leader", "follower")

Leave(w) == stopping /\ Become(w, "follower", "gone")

Stop ==
  /\ ~stopping
  /\ stopping' = TRUE
  /\ UNCHANGED role

PoolInit ==
  /\ role = [w \in Workers |-> "follower"]
  /\ stopping = FALSE

PoolNext ==
  \/ \E w \in Workers :
       Elect(w) \/ Dispatch(w) \/ Finish(w) \/ StepDown(w) \/ Leave(w)
  \/ Stop

Spec == PoolInit /\ [][PoolNext]_poolVars

=============================================================================
