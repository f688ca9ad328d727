---------------------------- MODULE MCCommSched ----------------------------
(***************************************************************************)
(* Three targets with different limits for CommSched.                      *)
(***************************************************************************)
EXTENDS CommSched, TLC

CONSTANTS t1, t2, t3

ThreeTargets == t1 :> 1 @@ t2 :> 1 @@ t3 :> 2
=============================================================================
