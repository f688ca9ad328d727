----------------------------- MODULE CommServer -----------------------------
(***************************************************************************)
(* Server connections of the communicator (src/kernel/Communicator.cc).    *)
(* A connection entry is watched by the poller thread, its results are     *)
(* handled by several handler threads, replies come from any thread, and   *)
(* the service drains idle connections when it is unbound.  The entry is   *)
(* freed by whoever gives back its last reference, its target when the     *)
(* entry and all sessions are gone, and the service is unbound when all    *)
(* targets are gone.                                                       *)
(*                                                                         *)
(* target->mutex and service->mutex are variables where a critical section *)
(* takes several steps; other sections are one step.  poller_del hands the *)
(* node to the poller thread (see Poller): the node is "deleted" until the *)
(* thread reports it, and the thread may be reading from it meanwhile.     *)
(* Datagram services are in DatagramService; Communicator::deinit is not    *)
(* part of the model.                                                      *)
(***************************************************************************)
EXTENDS Integers, Sequences, FiniteSets, SequencesExt

CONSTANTS Conns,       \* connections that may be accepted
          Threads,     \* handler threads
          Apps,        \* threads that reply
          MaxSess,     \* bound: sessions of each connection
          None

ASSUME ServerAssumption == MaxSess \in [Conns -> Nat] /\ Threads \cap Apps = {}

VARIABLES
  entry,      \* the fields of each entry and its poller node
  ses,        \* ses[c][i]: the i-th session of connection c
  results,    \* the message queue of poller results
  pc, on, at, \* control of each thread, its connection and its session
  victim,     \* the connection a thread is draining
  alive,      \* alive_list of the service
  smutex,     \* holder of service->mutex
  listening,  \* listen_fd >= 0
  bound,      \* whether the listening node is in the poller
  sref,       \* references of the service
  unbound     \* calls of handle_unbound

lists == <<alive, smutex>>
socket == <<listening, bound>>
refs == <<sref, unbound>>
service == <<lists, socket, refs>>
threads == <<pc, on, at, victim>>
vars == <<entry, ses, results, threads, service>>

All == Threads \cup Apps
MostSess == CHOOSE n \in Range(MaxSess) : \A m \in Range(MaxSess) : m <= n
Sess == 1..MostSess

(* state and ref as in CommConnEntry; node is what the poller watches; pol
   and msg are the poller thread inside the read handler; asked tells that the
   data it sees came after the whole reply; cur is the number of
   entry->session; tref, idle and tmutex belong to the target; gone counts
   __release_conn.                                                         *)
NewEntry == [state |-> "none", ref |-> 0, node |-> "none", pol |-> "idle",
             msg |-> FALSE, asked |-> FALSE, cur |-> 0, tref |-> 0, idle |-> FALSE,
             tmutex |-> None, gone |-> 0]

Init ==
  /\ entry = [c \in Conns |-> NewEntry]
  /\ ses = [c \in Conns |-> [i \in Sess |-> "none"]]
  /\ results = <<>>
  /\ pc = [t \in All |-> "idle"]
  /\ on = [t \in All |-> None] /\ at = [t \in All |-> 0]
  /\ victim = [t \in All |-> None]
  /\ alive = <<>> /\ smutex = None
  /\ listening = TRUE /\ bound = TRUE
  /\ sref = 1 /\ unbound = 0

Put(c, kind) == results' = Append(results, [on |-> c, kind |-> kind])
Goto(t, where) == pc' = [pc EXCEPT ![t] = where]
Rest(t) == Goto(t, "idle") /\ on' = [on EXCEPT ![t] = None] /\ at' = [at EXCEPT ![t] = 0]
Free(c) == entry[c].tmutex = None
DropAlive(c) == alive' = SelectSeq(alive, LAMBDA x : x # c)

(* mpoller_del: a node that is not watched any more is not found. *)
Deleted(node) == CASE node = "read" -> "deleted"
                   [] node = "write" -> "wdeleted"
                   [] OTHER -> node

(* decref of the target of c, and of the service with the last one. *)
DropTarget(r) ==
  IF r = 0 THEN /\ sref' = sref - 1
                /\ unbound' = unbound + IF sref = 1 THEN 1 ELSE 0
           ELSE UNCHANGED refs

-----------------------------------------------------------------------------
(* The poller thread. *)
Accept(c) ==
  /\ bound /\ entry[c].tref = 0 /\ entry[c].state = "none"
  /\ entry' = [entry EXCEPT ![c].tref = 1, ![c].state = "accepted"]
  /\ sref' = sref + 1
  /\ Put(c, "accept")
  /\ UNCHANGED <<ses, unbound, threads, lists, socket>>

NoFence(c) == FALSE               \* mutant: does not wait for the replier
NeedsFence(c) == entry[c].state = "idle"

(* Data for a new message: create_request. *)
CreateBegin(c) ==
  /\ entry[c].node \in {"read", "deleted"} /\ entry[c].pol = "idle" /\ ~entry[c].msg
  /\ entry[c].cur < MaxSess[c]
  /\ entry' = [entry EXCEPT
       ![c].pol = IF NeedsFence(c) THEN "fence" ELSE "create",
       ![c].asked = \/ entry[c].state = "keepalive"
                    \/ \E t \in All : pc[t] = "keep" /\ on[t] = c]
  /\ UNCHANGED <<ses, results, service, threads>>

CreateFence(c) ==
  /\ entry[c].pol = "fence" /\ Free(c)
  /\ entry' = [entry EXCEPT ![c].pol = "create"]
  /\ UNCHANGED <<ses, results, service, threads>>

NeverUnlinks(c) == FALSE          \* mutant: stays in alive_list
Unlinks(c) == entry[c].state = "keepalive"

CreateCheck(c) ==
  /\ entry[c].pol = "create" /\ smutex = None
  /\ IF Unlinks(c) THEN DropAlive(c) ELSE UNCHANGED alive
  /\ entry' = [entry EXCEPT ![c].pol =
                 IF entry[c].state \in {"keepalive", "connected"} THEN "new" ELSE "fail"]
  /\ UNCHANGED <<ses, results, smutex, threads, socket, refs>>

SessionRef == 1

(* A session and, if message_in returns one, its message are made. *)
CreateSession(c) ==
  /\ entry[c].pol = "new"
  /\ \E made \in BOOLEAN :
       entry' = [entry EXCEPT ![c].cur = @ + 1, ![c].state = "receiving",
                              ![c].tref = @ + SessionRef, ![c].msg = made,
                              ![c].pol = IF made THEN "idle" ELSE "fail",
                              ![c].asked = FALSE]
  /\ ses' = [ses EXCEPT ![c][entry[c].cur + 1] = "in"]
  /\ UNCHANGED <<results, service, threads>>

(* append_message finds the end of the message. *)
AppendEnd(c) ==
  /\ entry[c].node \in {"read", "deleted"} /\ entry[c].pol = "idle" /\ entry[c].msg
  /\ entry' = [entry EXCEPT ![c].state = "success", ![c].msg = FALSE]
  /\ Put(c, "success")
  /\ UNCHANGED <<ses, service, threads>>

(* The read ends: after create_request failed, or by an error of the parser
   or the peer, by the end of the stream or by a timeout.                  *)
ReadEnds(c) ==
  /\ entry[c].node = "read" /\ entry[c].pol \in {"idle", "fail"}
  /\ entry' = [entry EXCEPT ![c].node = "none", ![c].pol = "idle", ![c].msg = FALSE,
                            ![c].asked = FALSE]
  /\ Put(c, "error")
  /\ UNCHANGED <<ses, service, threads>>

(* The thread comes to the pipe, after the read handler. *)
ReportDeleted(c) ==
  /\ entry[c].node \in {"deleted", "wdeleted"} /\ entry[c].pol \in {"idle", "fail"}
  /\ entry' = [entry EXCEPT ![c].node = "none", ![c].pol = "idle", ![c].msg = FALSE,
                            ![c].asked = FALSE]
  /\ Put(c, IF entry[c].node = "deleted" THEN "stopped" ELSE "wstopped")
  /\ UNCHANGED <<ses, service, threads>>

WriteEnds(c) ==
  /\ entry[c].node = "write" /\ entry[c].pol \in {"idle", "fail"}
  /\ entry' = [entry EXCEPT ![c].node = "none", ![c].pol = "idle"]
  /\ \E kind \in {"wfinished", "werror"} : Put(c, kind)
  /\ UNCHANGED <<ses, service, threads>>

-----------------------------------------------------------------------------
(* Handler threads. *)
Get(t) ==
  /\ pc[t] = "idle" /\ results # <<>>
  /\ Goto(t, Head(results).kind)
  /\ on' = [on EXCEPT ![t] = Head(results).on]
  /\ results' = Tail(results)
  /\ UNCHANGED <<victim, entry, ses, at, service>>

(* handle_listen_result: accept_conn and mpoller_add, which may fail.  A new
   connection over the limit is refused unless one was drained for it.     *)
HandleAccept(t) ==
  LET c == on[t] IN
  /\ pc[t] \in {"accept", "drained"}
  /\ \/ /\ entry' = [entry EXCEPT ![c].state = "connected", ![c].ref = 1,
                                  ![c].node = "read"]
        /\ UNCHANGED refs
     \/ /\ entry' = [entry EXCEPT ![c].tref = 0, ![c].gone = 1, ![c].state = "closing"]
        /\ DropTarget(0)
  /\ Rest(t)
  /\ UNCHANGED <<victim, ses, results, lists, socket>>

StaysAnyway(c) == TRUE            \* mutant: idle though the connection has ended
Stays(c) == entry[c].state = "success"

(* handle_incoming_request, a complete request. *)
HandleSuccess(t) ==
  LET c == on[t] IN
  /\ pc[t] = "success" /\ Free(c)
  /\ entry' = IF Stays(c)
              THEN [entry EXCEPT ![c].ref = @ + 1, ![c].state = "idle", ![c].idle = TRUE]
              ELSE entry
  /\ ses' = [ses EXCEPT ![c][entry[c].cur] = "given"]     \* handle(TOREPLY)
  /\ at' = [at EXCEPT ![t] = entry[c].cur]
  /\ Goto(t, "process")
  /\ UNCHANGED <<victim, results, on, service>>

(* The process function returns: from now on the session may be replied. *)
ProcessReturns(t) ==
  /\ pc[t] = "process"
  /\ ses' = [ses EXCEPT ![on[t]][at[t]] = "ready"]
  /\ Goto(t, "deref")
  /\ UNCHANGED <<victim, results, on, at, entry, service>>

LeftToOther(s) == s = "success"   \* "only if handler_threads > 1"

IdleToo(s) == s \in {"failed", "receiving", "idle"}   \* mutant: idle, too
HasSession(s) == s \in {"failed", "receiving"}

(* handle_incoming_request, the end of the connection. *)
HandleEnd(t) ==
  LET c == on[t]
      s == entry[c].state
  IN
  /\ pc[t] \in {"error", "stopped"} /\ Free(c)
  /\ IF LeftToOther(s)
     THEN Rest(t)
     ELSE /\ at' = [at EXCEPT ![t] = entry[c].cur]
          /\ Goto(t, CASE s = "keepalive" -> "unlist"
                       [] HasSession(s) -> "handle"
                       [] OTHER -> "deref")
          /\ UNCHANGED on
  /\ entry' = CASE s = "keepalive" -> [entry EXCEPT ![c].tmutex = t]
                [] s = "idle" -> [entry EXCEPT ![c].idle = FALSE]
                [] s = "success" -> [entry EXCEPT ![c].state = "closing"]
                [] OTHER -> entry
  /\ UNCHANGED <<victim, ses, results, service>>

(* Lines 489-492, still under the mutex of the target. *)
HandleUnlist(t) ==
  LET c == on[t] IN
  /\ pc[t] = "unlist" /\ smutex = None
  /\ IF entry[c].state = "keepalive" THEN DropAlive(c) ELSE UNCHANGED alive
  /\ entry' = [entry EXCEPT ![c].tmutex = None]
  /\ Goto(t, "deref")
  /\ UNCHANGED <<victim, ses, results, on, at, smutex, socket, refs>>

(* session->handle with a final state.  The session is deleted in it, which
   gives back its reference of the target, or, when its callback has put more
   tasks into the series, later.                                           *)
EndSession(t) ==
  LET c == on[t]
      old == ses[c][at[t]]
  IN
  /\ pc[t] = "handle"
  /\ \/ /\ ses' = [ses EXCEPT ![c][at[t]] = IF old = "end" THEN "twice" ELSE "end"]
        /\ entry' = [entry EXCEPT ![c].tref = @ - 1]
        /\ DropTarget(entry[c].tref - 1)
     \/ /\ old = "busy"
        /\ ses' = [ses EXCEPT ![c][at[t]] = "shut"]
        /\ UNCHANGED <<entry, refs>>
  /\ Goto(t, "deref")
  /\ UNCHANGED <<victim, results, on, at, lists, socket>>

(* The end of every handler: __release_conn with the last reference. *)
Deref(t) ==
  LET c == on[t]
      last == entry[c].ref = 1
  IN
  /\ pc[t] = "deref"
  /\ entry' = [entry EXCEPT ![c].ref = @ - 1,
                            ![c].gone = @ + IF last THEN 1 ELSE 0,
                            ![c].tref = @ - IF last THEN 1 ELSE 0]
  /\ IF last THEN DropTarget(entry[c].tref - 1) ELSE UNCHANGED refs
  /\ Rest(t)
  /\ UNCHANGED <<victim, ses, results, lists, socket>>

(* handle_reply_result: the rest of a reply was written.  With keep-alive the
   connection is watched for reading again, if mpoller_add does not fail.  *)
HandleWritten(t) ==
  LET c == on[t] IN
  /\ pc[t] \in {"wfinished", "werror", "wstopped"}
  /\ at' = [at EXCEPT ![t] = entry[c].cur]
  /\ \/ Goto(t, "handle") /\ UNCHANGED entry
     \/ /\ pc[t] = "wfinished" /\ Free(c)
        /\ entry' = [entry EXCEPT ![c].ref = @ + 1, ![c].node = "read", ![c].tmutex = t]
        /\ Goto(t, "keep")
  /\ UNCHANGED <<victim, ses, results, on, service>>

Keeps == listening

(* Under both mutexes: into alive_list, or closed if the service is shutting
   down (lines 357-368 and 636-645).                                       *)
Keep(t) ==
  LET c == on[t] IN
  /\ pc[t] = "keep" /\ smutex = None
  /\ IF Keeps
     THEN /\ entry' = [entry EXCEPT ![c].state = "keepalive", ![c].tmutex = None]
          /\ alive' = Append(alive, c)
     ELSE /\ entry' = [entry EXCEPT ![c].state = "closing", ![c].tmutex = None,
                                    ![c].node = Deleted(@)]
          /\ UNCHANGED alive
  /\ Goto(t, "handle")
  /\ UNCHANGED <<victim, ses, results, on, at, smutex, socket, refs>>

-----------------------------------------------------------------------------
(* Replies: Communicator::reply for session i of connection c. *)
Ready(t, c, i) == pc[t] = "idle" /\ ses[c][i] = "ready" /\ Free(c)
Work(t, c, i) == /\ on' = [on EXCEPT ![t] = c]
                 /\ at' = [at EXCEPT ![t] = i]

(* The connection ended before: reply fails, and so does shutdown; the session
   is deleted later.                                                       *)
ReplyTooLate(t, c, i) ==
  /\ Ready(t, c, i) /\ ~entry[c].idle
  /\ ses' = [ses EXCEPT ![c][i] = "shut"]
  /\ UNCHANGED <<entry, results, threads, service>>

(* All of the message is written at once. *)
ReplySync(t, c, i) ==
  /\ Ready(t, c, i) /\ entry[c].idle
  /\ Work(t, c, i)
  /\ \/ /\ entry' = [entry EXCEPT ![c].idle = FALSE, ![c].ref = @ + 1, ![c].tmutex = t]
        /\ Goto(t, "keep")
     \/ /\ entry' = [entry EXCEPT ![c].idle = FALSE, ![c].ref = @ + 1,
                                  ![c].node = Deleted(@), ![c].state = "closing"]
        /\ Goto(t, "handle")
  /\ ses' = [ses EXCEPT ![c][i] = "busy"]
  /\ UNCHANGED <<victim, results, service>>

(* Part of it is left to the poller: the node is replaced.  If the read has
   just ended, its result finds the state receiving and ends the session.  *)
ReplyAsync(t, c, i) ==
  /\ Ready(t, c, i) /\ entry[c].idle
  /\ entry' = IF entry[c].node = "read"
              THEN [entry EXCEPT ![c].idle = FALSE, ![c].node = "write"]
              ELSE [entry EXCEPT ![c].idle = FALSE, ![c].state = "receiving"]
  /\ ses' = [ses EXCEPT ![c][i] = "busy"]
  /\ UNCHANGED <<results, service, threads>>

(* Encoding or writing fails: the end of the read ends the session. *)
ReplyFails(t, c, i) ==
  /\ Ready(t, c, i) /\ entry[c].idle
  /\ entry' = [entry EXCEPT ![c].idle = FALSE, ![c].node = Deleted(@),
                            ![c].state = "failed"]
  /\ ses' = [ses EXCEPT ![c][i] = "busy"]
  /\ UNCHANGED <<results, service, threads>>

(* CommServiceTarget::shutdown. *)
Shut(e) == IF e.idle THEN [e EXCEPT !.idle = FALSE, !.node = Deleted(@),
                                    !.state = "closing"]
                     ELSE e

(* The session is deleted without a reply: ~CommSession. *)
DropSession(t, c, i) ==
  /\ Ready(t, c, i)
  /\ entry' = [entry EXCEPT ![c] = [Shut(@) EXCEPT !.tref = @ - 1]]
  /\ ses' = [ses EXCEPT ![c][i] = "end"]
  /\ DropTarget(entry[c].tref - 1)
  /\ UNCHANGED <<results, threads, lists, socket>>

(* Communicator::shutdown of a session, which is deleted later. *)
ShutdownSession(t, c, i) ==
  /\ Ready(t, c, i) /\ entry[c].idle
  /\ entry' = [entry EXCEPT ![c] = Shut(@)]
  /\ ses' = [ses EXCEPT ![c][i] = "shut"]
  /\ UNCHANGED <<results, service, threads>>

DeleteSession(t, c, i) ==
  /\ pc[t] = "idle" /\ ses[c][i] = "shut"
  /\ ses' = [ses EXCEPT ![c][i] = "end"]
  /\ entry' = [entry EXCEPT ![c].tref = @ - 1]
  /\ DropTarget(entry[c].tref - 1)
  /\ UNCHANGED <<results, threads, lists, socket>>

-----------------------------------------------------------------------------
(* unbind and shutdown_service.  The deleted listening node comes back as a
   result, whose handler closes the socket, drains and gives up its
   reference of the service.                                               *)
Unbind ==
  /\ bound
  /\ bound' = FALSE
  /\ Put(None, "shutdown")
  /\ UNCHANGED <<entry, ses, listening, threads, lists, refs>>

ShutdownService(t) ==
  /\ pc[t] = "shutdown"
  /\ listening' = FALSE
  /\ Goto(t, "drain")
  /\ UNCHANGED <<victim, entry, ses, results, on, at, bound, lists, refs>>

CloseFirst(line, e) == IF line = 2 THEN [e EXCEPT !.node = Deleted(@)]   \* mutant: swapped
                                   ELSE [e EXCEPT !.state = "closing"]
DrainLine(line, e) == IF line = 1 THEN [e EXCEPT !.node = Deleted(@)]
                                  ELSE [e EXCEPT !.state = "closing"]

(* CommService::drain, one connection: first the node is deleted, then the
   state is set.  It is called to shut down, for all of alive_list, and by
   WFServerBase::new_connection over the limit, for one connection.        *)
DrainDel(t) ==
  LET c == Head(alive) IN
  /\ pc[t] \in {"drain", "accept"} /\ smutex = None /\ alive # <<>>
  /\ smutex' = t
  /\ alive' = Tail(alive)
  /\ victim' = [victim EXCEPT ![t] = c]
  /\ entry' = [entry EXCEPT ![c] = DrainLine(1, @)]
  /\ Goto(t, IF pc[t] = "drain" THEN "drain2" ELSE "limit2")
  /\ UNCHANGED <<ses, results, on, at, socket, refs>>

DrainClose(t) ==
  /\ pc[t] \in {"drain2", "limit2"}
  /\ entry' = [entry EXCEPT ![victim[t]] = DrainLine(2, @)]
  /\ victim' = [victim EXCEPT ![t] = None]
  /\ smutex' = None
  /\ Goto(t, IF pc[t] = "drain2" THEN "drain" ELSE "drained")
  /\ UNCHANGED <<ses, results, on, at, alive, socket, refs>>

DrainEnds(t) ==
  /\ pc[t] = "drain" /\ smutex = None /\ alive = <<>>
  /\ sref' = sref - 1
  /\ unbound' = unbound + IF sref = 1 THEN 1 ELSE 0
  /\ Rest(t)
  /\ UNCHANGED <<victim, entry, ses, results, lists, socket>>

-----------------------------------------------------------------------------
PollerThread == \E c \in Conns :
  \/ CreateBegin(c) \/ CreateFence(c) \/ CreateCheck(c) \/ CreateSession(c)
  \/ AppendEnd(c) \/ ReadEnds(c) \/ ReportDeleted(c) \/ WriteEnds(c)

Handler(t) ==
  \/ HandleAccept(t) \/ HandleSuccess(t) \/ ProcessReturns(t) \/ HandleEnd(t) \/ HandleUnlist(t)
  \/ HandleWritten(t) \/ EndSession(t) \/ Deref(t) \/ Keep(t)
  \/ ShutdownService(t) \/ DrainDel(t) \/ DrainClose(t) \/ DrainEnds(t)

Reply(t) == \E c \in Conns, i \in Sess :
  \/ ReplyTooLate(t, c, i) \/ ReplySync(t, c, i) \/ ReplyAsync(t, c, i)
  \/ ReplyFails(t, c, i) \/ DropSession(t, c, i)
  \/ ShutdownSession(t, c, i) \/ DeleteSession(t, c, i)

(* All is quiet after unbind: the server has stopped. *)
Finished ==
  /\ ~bound /\ results = <<>> /\ \A t \in All : pc[t] = "idle"
  /\ UNCHANGED vars

Next ==
  \/ \E c \in Conns : Accept(c)
  \/ PollerThread
  \/ \E t \in Threads : Get(t)
  \/ \E t \in All : Handler(t)
  \/ \E t \in Apps : Reply(t)
  \/ Unbind
  \/ Finished

Spec == Init /\ [][Next]_vars

(* Threads run, the poller goes on with what it has begun, writes end, the
   application answers each session or gives it up, and a read that has a
   timeout (all but those between a request and its reply) ends.           *)
TimedRead(c) == /\ entry[c].state \in {"connected", "receiving", "keepalive", "closing"}
                /\ ReadEnds(c)
Fairness ==
  /\ \A t \in Threads : WF_vars(Get(t) \/ Handler(t))
  /\ \A t \in Apps : WF_vars(Reply(t) \/ Handler(t))
  /\ \A c \in Conns :
       /\ WF_vars(CreateFence(c) \/ CreateCheck(c) \/ CreateSession(c))
       /\ WF_vars(ReportDeleted(c)) /\ WF_vars(WriteEnds(c))
       /\ WF_vars(entry[c].pol = "fail" /\ ReadEnds(c))
       /\ WF_vars(TimedRead(c))

LiveSpec == Spec /\ Fairness
-----------------------------------------------------------------------------
(* Properties *)

Kinds == {"accept", "success", "error", "stopped", "wfinished", "werror", "wstopped",
          "shutdown"}

(* Every variable keeps its type: the states of an entry, its node and the
   poller thread are those of the code, counters are natural numbers.      *)
TypeOK ==
  /\ entry \in [Conns -> [state : {"none", "accepted", "connected", "receiving",
                                   "success", "idle", "keepalive", "closing", "failed"},
                          ref : Nat, node : {"none", "read", "write", "deleted",
                                              "wdeleted"},
                          pol : {"idle", "fence", "create", "new", "fail"},
                          msg : BOOLEAN, asked : BOOLEAN, cur : 0..MostSess, tref : 0..(MostSess + 1),
                          idle : BOOLEAN, tmutex : All \cup {None}, gone : 0..1]]
  /\ ses \in [Conns -> [Sess -> {"none", "in", "given", "ready", "busy", "shut", "end"}]]
  /\ results \in Seq([on : Conns \cup {None}, kind : Kinds])
  /\ pc \in [All -> Kinds \cup {"idle", "process", "deref", "handle", "unlist", "keep", "drain",
                                "drain2", "limit2", "drained"}]
  /\ on \in [All -> Conns \cup {None}] /\ at \in [All -> 0..MostSess]
  /\ victim \in [All -> Conns \cup {None}]
  /\ alive \in Seq(Conns) /\ smutex \in All \cup {None}
  /\ listening \in BOOLEAN /\ bound \in BOOLEAN
  /\ sref \in 0..(Cardinality(Conns) + 1) /\ unbound \in 0..1

InUse(c) ==
  \/ entry[c].node # "none" \/ entry[c].pol # "idle" \/ entry[c].idle
  \/ entry[c].tmutex # None \/ c \in Range(alive)
  \/ \E k \in DOMAIN results : results[k].on = c
  \/ \E t \in All : victim[t] = c \/ (pc[t] # "idle" /\ on[t] = c)

(* When an entry is freed nothing refers to it any more: no node, no result
   in the queue, no list, no thread in the middle of a handler, a reply or a
   drain.  The references of the entry, given up by whichever of these comes
   last, see to that, with the help of the order of the lines in drain and of
   the recheck of the state under both mutexes.                            *)
NoUseAfterRelease == \A c \in Conns : entry[c].gone > 0 => ~InUse(c)

(* list_del is only applied to a linked entry: one that the poller thread or
   a handler finds KEEPALIVE under the mutex of the service is in alive_list,
   and one whose read has ended while it is IDLE is in idle_list.  What is in
   a list has the state that belongs to it.                                *)
ListsMatchState == \A c \in Conns :
  /\ c \in Range(alive) => entry[c].state = "keepalive" /\ entry[c].pol # "new"
  /\ entry[c].idle => entry[c].state = "idle"
  /\ /\ entry[c].state = "keepalive" /\ smutex = None
     /\ entry[c].pol = "create" \/ \E t \in Threads : pc[t] = "unlist" /\ on[t] = c
     => c \in Range(alive)
  /\ /\ entry[c].state = "idle" /\ Free(c)
     /\ \E t \in Threads : pc[t] \in {"error", "stopped"} /\ on[t] = c
     => entry[c].idle

(* The target lives as long as its entry and its sessions, the service as
   long as its targets and its binding: so handle_unbound, which lets the
   owner destroy the service, comes once and after all of them.            *)
ReferencesExact ==
  /\ \A c \in Conns :
       entry[c].tref = Cardinality({i \in Sess : ses[c][i] \notin {"none", "end"}})
                       + IF entry[c].state # "none" /\ entry[c].gone = 0 THEN 1 ELSE 0
  /\ unbound = 1 => ~bound /\ alive = <<>> /\ \A c \in Conns : entry[c].tref = 0

(* "DELETED seems not possible" (line 658): nothing deletes the node of a
   reply that is being written.                                            *)
WriteNeverDeleted ==
  \A c \in Conns : entry[c].node # "wdeleted"

(* Once shutdown_service has drained alive_list nothing is put there again,
   though listen_fd is set to -1 without the mutex: no idle connection is
   left to hold the service until it times out.                            *)
NoneKeptAfterDrain ==
  ~listening /\ (\A t \in Threads : pc[t] \notin {"drain", "drain2"}) => alive = <<>>

(* A connection that nothing refers to and that has no session was freed. *)
NothingLeaks == \A c \in Conns :
  entry[c].state \notin {"none", "accepted"} /\ ~InUse(c) => entry[c].gone = 1

(* What holds of the entries, lists and references of a service at every
   moment.                                                                 *)
EntryInv == TypeOK /\ ListsMatchState /\ ReferencesExact /\ WriteNeverDeleted
            /\ NoneKeptAfterDrain /\ NothingLeaks

(* A request that came after the whole reply to the last one is not refused
   as pipelined: the poller thread waits for the thread that has written the
   reply and has not yet set the state.  Only a closed connection refuses. *)
NextRequestAccepted == \A c \in Conns :
  entry[c].pol = "fail" /\ entry[c].asked => entry[c].state \in {"closing", "receiving"}

(* A service that is unbound tells its owner, however many connections were
   idle, receiving or waiting for a reply: WFServer::wait_finish returns.  *)
UnbindFinishes == []<>(bound \/ unbound = 1)

-----------------------------------------------------------------------------
Over(c) == IF entry[c].gone > 0 THEN "closed"
           ELSE IF c \in Range(alive) THEN "alive"
           ELSE IF \/ entry[c].state \in {"closing", "failed"}
                   \/ \E t \in Threads : victim[t] = c THEN "closing"
           ELSE "open"
HasBase == \/ bound
           \/ \E k \in DOMAIN results : results[k].kind = "shutdown"
           \/ \E t \in All : pc[t] \in {"shutdown", "drain", "drain2"}

Promised == INSTANCE Service WITH
  conn <- [c \in Conns |-> CASE entry[c].state = "none" -> "none"
                              [] entry[c].state = "accepted" -> "pending"
                              [] OTHER -> Over(c)],
  sess <- [c \in Conns |-> [i \in Sess |-> IF ses[c][i] = "shut" THEN "done"
                                                               ELSE ses[c][i]]],
  base <- HasBase

(* The communicator keeps what module Service promises to the owner of the
   service: every session is handed over once and ended once, is replied and
   ended only while its connection exists, no second request of a connection
   comes before the reply to the first, and handle_unbound is called exactly
   with the last reference.                                                *)
ImplementsService == Promised!ServiceSpec
=============================================================================
