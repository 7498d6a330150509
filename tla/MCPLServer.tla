----------------------------- MODULE MCPLServer ------------------------------
(* A small instance of PLServer.                                              *)
EXTENDS PLServer

NoEdgeWeight == 9

=============================================================================
