-------------------------- MODULE DatagramService --------------------------
(***************************************************************************)
(* Datagram services of the communicator (src/kernel/Communicator.cc): a   *)
(* service whose socket does not listen.  The poller thread makes a target,*)
(* an entry and a session for each datagram and parses it at once; a       *)
(* handler thread hands the session over, and the application replies,     *)
(* shuts it down or deletes it.  The entry is not watched by the poller.   *)
(***************************************************************************)
EXTENDS Integers, Sequences

CONSTANTS Datagrams,     \* bound: datagrams that arrive
          Threads,       \* handler threads
          None

VARIABLES
  state,       \* of the entry: none, success, bad, idle, free
  passive,     \* of the session
  dses,        \* none, in, ready, done (may be deleted), end
  tref,        \* references of the target
  results, pc, on,
  sref, bound, unbound,
  refused      \* the sessions whose reply failed with EINVAL

vars == <<state, passive, dses, tref, results, pc, on, sref, bound, unbound, refused>>

Init ==
  /\ state = [d \in Datagrams |-> "none"] /\ passive = [d \in Datagrams |-> 0]
  /\ dses = [d \in Datagrams |-> "none"] /\ tref = [d \in Datagrams |-> 0]
  /\ results = <<>>
  /\ pc = [t \in Threads |-> "idle"] /\ on = [t \in Threads |-> None]
  /\ sref = 1 /\ bound = TRUE /\ unbound = 0 /\ refused = {}

DropService(n) == /\ sref' = sref - n
                  /\ unbound' = unbound + IF sref = n /\ n > 0 THEN 1 ELSE 0

(* n references of the target of d are given back. *)
DropTarget(d, n) == /\ tref' = [tref EXCEPT ![d] = @ - n]
                    /\ DropService(IF tref[d] = n THEN 1 ELSE 0)

Ends(t) == pc' = [pc EXCEPT ![t] = "idle"] /\ on' = [on EXCEPT ![t] = None]

-----------------------------------------------------------------------------
(* recv_request: the message is complete or not. *)
recv_request(d) ==
  /\ \E s \in {"success", "bad"} : state' = [state EXCEPT ![d] = s]
  /\ passive' = [passive EXCEPT ![d] = 1]
  /\ dses' = [dses EXCEPT ![d] = "in"]

(* recvfrom with accept, accept_conn and recv_request.  When one of them fails
   the datagram is dropped.                                                *)
Recvfrom(d) ==
  /\ bound /\ state[d] = "none"
  /\ \/ /\ state' = [state EXCEPT ![d] = "free"]
        /\ UNCHANGED <<passive, dses, tref, results, sref>>
     \/ /\ recv_request(d)
        /\ tref' = [tref EXCEPT ![d] = 2]          \* of the entry and of the session
        /\ results' = Append(results, d)
        /\ sref' = sref + 1
  /\ UNCHANGED <<pc, on, bound, unbound, refused>>

Get(t) ==
  /\ pc[t] = "idle" /\ results # <<>>
  /\ pc' = [pc EXCEPT ![t] = IF Head(results) = None THEN "shutdown" ELSE "recvfrom"]
  /\ on' = [on EXCEPT ![t] = Head(results)]
  /\ results' = Tail(results)
  /\ UNCHANGED <<state, passive, dses, tref, sref, bound, unbound, refused>>

(* handle_recvfrom_result: handle(TOREPLY), or handle(ERROR), in which the
   session is deleted.                                                     *)
HandleRequest(t) ==
  /\ pc[t] = "recvfrom" /\ state[on[t]] = "success"
  /\ state' = [state EXCEPT ![on[t]] = "idle"]
  /\ dses' = [dses EXCEPT ![on[t]] = "ready"]
  /\ Ends(t)
  /\ UNCHANGED <<passive, tref, results, sref, bound, unbound, refused>>

HandleError(t) ==
  /\ pc[t] = "recvfrom" /\ state[on[t]] = "bad"
  /\ dses' = [dses EXCEPT ![on[t]] = "end"]
  /\ DropTarget(on[t], 1)
  /\ pc' = [pc EXCEPT ![t] = "release"]
  /\ UNCHANGED <<state, passive, results, on, bound, refused>>

ReleaseConn(t) ==
  /\ pc[t] = "release"
  /\ state' = [state EXCEPT ![on[t]] = "free"]
  /\ DropTarget(on[t], 1)
  /\ Ends(t)
  /\ UNCHANGED <<passive, dses, results, bound, refused>>

-----------------------------------------------------------------------------
(* reply: reply_unreliable sends the message or fails to; handle(SUCCESS) or
   the caller finishes the session, and the entry is released either way.  *)
ReplyUnreliable(d) ==
  /\ passive' = [passive EXCEPT ![d] = 3]
  /\ IF state[d] = "idle"
     THEN state' = [state EXCEPT ![d] = "free"] /\ DropTarget(d, 1)
     ELSE UNCHANGED <<state, tref, sref, unbound>>
  /\ UNCHANGED refused

Refuse(d) == /\ refused' = refused \cup {d}
             /\ UNCHANGED <<state, passive, tref, sref, unbound>>

Reply(d) ==
  /\ dses[d] = "ready"
  /\ dses' = [dses EXCEPT ![d] = "done"]
  /\ IF passive[d] = 2 THEN ReplyUnreliable(d) ELSE Refuse(d)
  /\ UNCHANGED <<results, pc, on, bound>>

(* ~CommSession: CommServiceTarget::shutdown if nobody has replied, decref. *)
Delete(d) ==
  /\ dses[d] \in {"ready", "done"}
  /\ dses' = [dses EXCEPT ![d] = "end"]
  /\ IF passive[d] = 2 /\ state[d] = "idle"
     THEN state' = [state EXCEPT ![d] = "free"] /\ DropTarget(d, 2)
     ELSE DropTarget(d, 1) /\ UNCHANGED state
  /\ UNCHANGED <<passive, results, pc, on, bound, refused>>

Unbind ==
  /\ bound /\ bound' = FALSE
  /\ results' = Append(results, None)
  /\ UNCHANGED <<state, passive, dses, tref, pc, on, sref, unbound, refused>>

(* shutdown_service; alive_list is empty. *)
ShutdownService(t) ==
  /\ pc[t] = "shutdown"
  /\ DropService(1)
  /\ Ends(t)
  /\ UNCHANGED <<state, passive, dses, tref, results, bound, refused>>

Next ==
  \/ \E d \in Datagrams : Recvfrom(d) \/ Reply(d) \/ Delete(d)
  \/ \E t \in Threads : \/ Get(t) \/ HandleRequest(t) \/ HandleError(t) \/ ReleaseConn(t)
                        \/ ShutdownService(t)
  \/ Unbind

Spec == Init /\ [][Next]_vars
-----------------------------------------------------------------------------
(* A reply to a datagram whose entry waits in idle_list goes to the branch of
   reply that is marked for datagrams, reply_unreliable; it is not refused. *)
DatagramReplied == \A d \in refused : state[d] # "idle"
=============================================================================
