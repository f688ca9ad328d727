------------------------------ MODULE Service ------------------------------
(***************************************************************************)
(* What the communicator promises to the owner of a stream service, that   *)
(* is to WFServer and to its tasks: which callbacks come in which order,   *)
(* and while which connection exists.  Module CommServer is shown to       *)
(* implement it; module Server is built on it.                             *)
(***************************************************************************)
EXTENDS Naturals

CONSTANTS Conns, Sess      \* connections, and the numbers of their sessions

VARIABLES
  conn,      \* "none", "pending" (accepted, new_connection not yet called),
             \*   "open", "alive" (in alive_list), "closing", "closed"
  sess,      \* "none", "in" (new_session), "given" (in handle(TOREPLY)),
             \*   "ready", "busy" (reply called), "done" (over), "end" (deleted)
  base,      \* the service has the reference of its listening socket
  unbound    \* 1 when handle_unbound has been called

service_vars == <<conn, sess, base, unbound>>

ServiceInit ==
  /\ conn = [c \in Conns |-> "none"]
  /\ sess = [c \in Conns |-> [i \in Sess |-> "none"]]
  /\ base = TRUE /\ unbound = 0

(* The service is referred to by each connection until delete_connection and
   by each session until it is deleted.  The step that gives up the last of
   these references calls handle_unbound.                                  *)
Held(c) == \/ conn[c] \notin {"none", "closed"}
           \/ \E i \in Sess : sess[c][i] \notin {"none", "end"}
Settle == unbound' = IF base' \/ \E c \in Conns : Held(c)' THEN 0 ELSE 1

Move(c, from, to) == /\ conn[c] \in from
                     /\ conn' = [conn EXCEPT ![c] = to]
                     /\ UNCHANGED <<sess, base>> /\ Settle
Turn(c, i, from, to) == /\ sess[c][i] = from
                        /\ sess' = [sess EXCEPT ![c][i] = to]
                        /\ UNCHANGED base /\ Settle

Connect(c) == base /\ Move(c, {"none"}, "pending")
Admit(c) == Move(c, {"pending"}, "open")
Refuse(c) == Move(c, {"pending"}, "closed")
KeepAlive(c) == /\ base /\ \E i \in Sess : sess[c][i] = "busy"
                /\ Move(c, {"open"}, "alive")
LeaveAlive(c) == Move(c, {"alive"}, "open")
Drain(c) == Move(c, {"alive"}, "closing")
StartClose(c) == Move(c, {"open"}, "closing")

(* delete_connection comes after the callbacks of its sessions; a session in
   the hands of the application may outlive its connection.                *)
Close(c) == /\ \A i \in Sess : sess[c][i] \notin {"in", "given", "busy"}
            /\ Move(c, {"open", "closing"}, "closed")

(* One request at a time: the next one is received when the reply to the last
   one has been written, though its handle() may not have returned.        *)
NewSession(c, i) == /\ conn[c] = "open"
                    /\ \A j \in Sess : j < i => sess[c][j] \in {"busy", "done", "end"}
                    /\ UNCHANGED conn /\ Turn(c, i, "none", "in")

(* A callback of a session comes while its connection exists. *)
Callback(c, i, from, to) == /\ conn[c] # "closed"
                            /\ UNCHANGED conn /\ Turn(c, i, from, to)
Deliver(c, i) == Callback(c, i, "in", "given")
Delivered(c, i) == Callback(c, i, "given", "ready")
ReceiveFails(c, i) == Callback(c, i, "in", "end")

(* handle() with the outcome of the reply; the session is deleted in it or
   later.                                                                  *)
RepliedKept(c, i) == Callback(c, i, "busy", "done")
RepliedEnd(c, i) == Callback(c, i, "busy", "end")

MayClose(c) == \/ UNCHANGED conn
               \/ conn[c] = "open" /\ conn' = [conn EXCEPT ![c] = "closing"]
StartReply(c, i) == conn[c] = "open" /\ MayClose(c) /\ Turn(c, i, "ready", "busy")

(* reply finds the connection gone; shutdown is called in its place; the session
   is deleted without a reply.                                             *)
ReplyRefused(c, i) == UNCHANGED conn /\ Turn(c, i, "ready", "done")
ShutdownSession(c, i) == MayClose(c) /\ Turn(c, i, "ready", "done")
DropSession(c, i) == MayClose(c) /\ Turn(c, i, "ready", "end")
DeleteSession(c, i) == UNCHANGED conn /\ Turn(c, i, "done", "end")

(* shutdown_service has drained the service. *)
ReleaseBase == /\ base /\ \A c \in Conns : conn[c] # "alive"
               /\ base' = FALSE /\ UNCHANGED <<conn, sess>> /\ Settle

ServiceNext ==
  \/ \E c \in Conns :
       \/ Connect(c) \/ Admit(c) \/ Refuse(c) \/ KeepAlive(c) \/ LeaveAlive(c)
       \/ Drain(c) \/ StartClose(c) \/ Close(c)
       \/ \E i \in Sess :
            \/ NewSession(c, i) \/ Deliver(c, i) \/ Delivered(c, i) \/ ReceiveFails(c, i)
            \/ StartReply(c, i) \/ RepliedKept(c, i) \/ RepliedEnd(c, i)
            \/ ReplyRefused(c, i) \/ ShutdownSession(c, i) \/ DropSession(c, i) \/ DeleteSession(c, i)
  \/ ReleaseBase

ServiceSpec == ServiceInit /\ [][ServiceNext]_service_vars
=============================================================================
