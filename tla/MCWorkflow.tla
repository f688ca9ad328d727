----------------------------- MODULE MCWorkflow -----------------------------
(***************************************************************************)
(* A root series whose first task is a parallel of two series, one of      *)
(* which starts with a parallel of its own; its last task is an empty      *)
(* parallel.  Running tasks push a leaf and a parallel of one series.      *)
(* And a server for one connection, with the tasks of its requests: either *)
(* one client sends two requests while another one is turned away, or      *)
(* three connect at once.  A behaviour is about the graph or the server.   *)
(***************************************************************************)
EXTENDS Workflow, Server, TLC

VARIABLE part

CONSTANTS r, s1, s2, s3, s4, p1, p2, p3, p0, a, b, c, x, c1, c2, c3

MCSeries == {r, s1, s2, s3, s4}
MCTasks == {p1, p2, p3, p0, a, b, c, x}
MCParallels == {p1, p2, p3, p0}
MCFirst == r :> p1 @@ s1 :> a @@ s2 :> p2 @@ s3 :> b @@ s4 :> c
MCFinal == [s \in MCSeries |-> IF s = r THEN p0 ELSE NoTask]
MCSpare == {x, p3}
MCParts == p1 :> <<s1, s2>> @@ p2 :> <<s3>> @@ p3 :> <<s4>> @@ p0 :> <<>>

MCClients == {c1 :> 2 @@ c2 :> 0 @@ c3 :> -1, c1 :> 1 @@ c2 :> 0 @@ c3 :> 0}

PartsInit == /\ part \in {"graph", "server"} /\ Init /\ ServerInit
             /\ part = "graph" => clients = CHOOSE f \in Clients : TRUE

PartsNext == /\ UNCHANGED part
             /\ \/ part = "graph" /\ Next /\ UNCHANGED server_vars
                \/ part = "server" /\ ServerNext /\ UNCHANGED vars

(* The fairness of the component that the behaviour is about. *)
PartsFairness ==
  /\ WF_vars(part = "graph" /\ Next)
  /\ WF_server_vars(part = "server" /\ HandleUnbound)
  /\ WF_server_vars(part = "server" /\ WaitFinish)
  /\ WF_server_vars(part = "server" /\ WaitReturns)
  /\ WF_server_vars(part = "server" /\ Unbinds)
  /\ \A d \in Conns :
       /\ WF_server_vars(part = "server" /\ AcceptStep(d))
       /\ WF_server_vars(part = "server" /\ DrainsAll(d))
       /\ WF_server_vars(part = "server" /\ ~base /\ DeleteConnection(d))
       /\ \A i \in Sess : WF_server_vars(part = "server" /\ TaskStep(d, i))

PartsSpec == PartsInit /\ [][PartsNext]_<<part, vars, server_vars>> /\ PartsFairness
=============================================================================
