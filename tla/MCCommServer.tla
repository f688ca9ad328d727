---------------------------- MODULE MCCommServer ----------------------------
(* A server with two connections, of which one sends requests and the other  *)
(* only takes part in the limit of connections.                              *)
EXTENDS CommServer, TLC

CONSTANTS c1, c2

TwoRequests == c1 :> 2 @@ c2 :> 0
=============================================================================
