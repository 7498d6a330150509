--------------------------- MODULE MCActiveObject ---------------------------
(* Instances of ActiveObject for TLC.                                        *)
EXTENDS ActiveObject

CONSTANTS c1, c2, c3, c4

FourCalls == {c1, c2, c3, c4}

=============================================================================
