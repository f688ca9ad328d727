------------------------- MODULE MCDatagramService -------------------------
(* A datagram service, two datagrams and one handler thread. *)
EXTENDS DatagramService
=============================================================================
