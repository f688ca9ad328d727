---------------------------- MODULE MCCommClient ----------------------------
(***************************************************************************)
(* Requests to one target: three over a single connection, the other one   *)
(* having been closed before, or two over two connections, the third       *)
(* request having ended before.                                            *)
(***************************************************************************)
EXTENDS CommClient

CONSTANTS c2, s3

ClosedEntry == [NewEntry EXCEPT !.state = "closing", !.gone = 1]

OneOfThree == /\ entry = [c \in Conns |-> IF c = c2 THEN ClosedEntry ELSE NewEntry]
              /\ ses = [s \in Sessions |-> "new"]
TwoOfTwo == /\ entry = [c \in Conns |-> NewEntry]
            /\ ses = [s \in Sessions |-> IF s = s3 THEN "end" ELSE "new"]

MCInit == /\ OneOfThree \/ TwoOfTwo
          /\ idle = <<>> /\ tmutex = None /\ results = <<>> /\ stop = 0
          /\ pc = [t \in All |-> "idle"]
          /\ on = [t \in All |-> None] /\ at = [t \in All |-> None]

MCSpec == MCInit /\ [][Next]_vars /\ Fairness
=============================================================================
