----------------------------- MODULE MCReactor ------------------------------
(* Instances of Reactor for TLC.                                             *)
EXTENDS Reactor

TwoFds   == 1..2
ThreeFds == 1..3

=============================================================================
