------------------------------ MODULE MCPoller ------------------------------
(***************************************************************************)
(* One descriptor and timers, three nodes: enough for a list and a tree of *)
(* deadlines in every order, and for a descriptor that is deleted and      *)
(* added again while the thread has its old node in the batch.  With three *)
(* deadlines the list can be empty beside a tree whose first node is later *)
(* than a new one.                                                         *)
(***************************************************************************)
EXTENDS Poller
=============================================================================
