-------------------------- MODULE MCLeaderFollower --------------------------
(* Instances of LeaderFollower for TLC.                                      *)
EXTENDS LeaderFollower

CONSTANTS t1, t2, t3

TwoThreads   == {t1, t2}
ThreeThreads == {t1, t2, t3}

NoFds  == {}
OneFd  == 1..1
TwoFds == 1..2

\* The threads of the pool run the same code: sound for the safety runs.
Symmetry == Permutations(Threads)

=============================================================================
