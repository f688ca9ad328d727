----------------------------- MODULE CommClient -----------------------------
(***************************************************************************)
(* Client connections of the communicator (src/kernel/Communicator.cc) to  *)
(* one target.  A request takes an idle connection of the target or opens  *)
(* one; connecting, the rest of the writing and the reading of the reply   *)
(* are done by the poller, whose results the handler threads handle.       *)
(*                                                                         *)
(* Each session is one request, made by a thread of its own; its requester *)
(* may still be inside request() when the reply is handled.  Both mutexes, *)
(* of the target and of an entry, are variables; request_idle_conn and     *)
(* handle_incoming_reply take the second while they hold the first.  A     *)
(* deleted node is reported by the poller thread, which may be reading     *)
(* from it meanwhile, or at once if the poller has stopped (see Poller).   *)
(***************************************************************************)
EXTENDS Integers, Sequences, FiniteSets, Functions

CONSTANTS Conns,       \* connections that may be opened
          Threads,     \* handler threads
          Sessions,    \* requests
          None

(* The threads are distinct, None stands for no pointer, and there are finitely
   many threads and connections.                                           *)
ASSUME ClientAssumption ==
  /\ Threads \cap Sessions = {} /\ None \notin Threads \cup Sessions \cup Conns
  /\ IsFiniteSet(Threads) /\ IsFiniteSet(Conns)

VARIABLES
  entry,      \* the fields of each entry and its poller node
  idle,       \* idle_list of the target, the last one returned first
  tmutex,     \* holder of target->mutex
  ses,        \* "new", "busy" or "end"; the target is acquired while busy
  results,    \* the message queue of poller results
  pc, on, at, \* control of each thread, its connection and its session
  stop        \* 0, 1 when stop_flag is set, 2 when the poller has stopped

threads == <<pc, on, at>>
vars == <<entry, idle, tmutex, ses, results, threads, stop>>

All == Threads \cup Sessions

(* state, ref, session and mutex as in CommConnEntry; node is what the poller
   watches; pol and msg are the poller thread inside the read handler; asked
   tells that it sees data that came after the whole request; last that the
   reply allows no keep-alive; gone counts __release_conn.                 *)
NewEntry == [state |-> "none", ref |-> 0, session |-> None, mutex |-> None,
             node |-> "none", pol |-> "idle", msg |-> FALSE, asked |-> FALSE,
             last |-> FALSE, gone |-> 0]

Init ==
  /\ entry = [c \in Conns |-> NewEntry]
  /\ idle = <<>> /\ tmutex = None
  /\ ses = [s \in Sessions |-> "new"]
  /\ results = <<>>
  /\ pc = [t \in All |-> "idle"]
  /\ on = [t \in All |-> None] /\ at = [t \in All |-> None]
  /\ stop = 0

Result(c, kind) == [on |-> c, kind |-> kind]
Put(c, kind) == results' = Append(results, Result(c, kind))
Goto(t, where) == pc' = [pc EXCEPT ![t] = where]

(* idle_list after list_del, at whatever place the entry has in it. *)
Position(c) == CHOOSE k \in 1..Len(idle) : idle[k] = c
Without(c) ==
  [k \in 1..Len(idle) - 1 |-> IF k < Position(c) THEN idle[k] ELSE idle[k + 1]]

(* mpoller_del while the poller runs. *)
Deleted(node) == CASE node = "read" -> "deleted"
                   [] node = "write" -> "wdeleted"
                   [] OTHER -> node

-----------------------------------------------------------------------------
(* The requesting thread: Communicator::request and request_idle_conn. *)
Request(s) ==
  /\ pc[s] = "idle" /\ ses[s] = "new" /\ stop = 0
  /\ ses' = [ses EXCEPT ![s] = "busy"]
  /\ Goto(s, "take")
  /\ UNCHANGED <<entry, idle, tmutex, results, on, at, stop>>

StaysListed == idle               \* mutant: no list_del
Taken == Tail(idle)

TakeIdle(s) ==
  /\ pc[s] = "take" /\ tmutex = None
  /\ IF idle = <<>>
     THEN Goto(s, "launch") /\ UNCHANGED <<idle, tmutex, on>>
     ELSE /\ idle' = Taken
          /\ on' = [on EXCEPT ![s] = Head(idle)]
          /\ tmutex' = s
          /\ Goto(s, "lock")
  /\ UNCHANGED <<entry, ses, results, at, stop>>

LockEntry(s) ==
  /\ pc[s] = "lock" /\ entry[on[s]].mutex = None
  /\ entry' = [entry EXCEPT ![on[s]].mutex = s]
  /\ tmutex' = None
  /\ Goto(s, "check")
  /\ UNCHANGED <<idle, ses, results, on, at, stop>>

(* mpoller_set_timeout fails if the connection has just ended. *)
CheckEntry(s) ==
  LET c == on[s] IN
  /\ pc[s] = "check"
  /\ IF entry[c].node = "read"
     THEN entry' = [entry EXCEPT ![c].session = s] /\ Goto(s, "send")
     ELSE /\ entry' = [entry EXCEPT ![c].state = "closing", ![c].mutex = None]
          /\ Goto(s, "take")
  /\ UNCHANGED <<idle, tmutex, ses, results, on, at, stop>>

(* The whole request is written; the state is set after that. *)
SendSync(s) ==
  /\ pc[s] = "send"
  /\ Goto(s, "sent")
  /\ UNCHANGED <<entry, idle, tmutex, ses, results, on, at, stop>>

SetReceiving(s) ==
  /\ pc[s] = "sent"
  /\ entry' = [entry EXCEPT ![on[s]].state = "receiving"]
  /\ Goto(s, "unlock")
  /\ UNCHANGED <<idle, tmutex, ses, results, on, at, stop>>

(* The rest is left to the poller, unless the read has just ended: then the
   result of the read ends the session.                                    *)
SendAsync(s) ==
  LET c == on[s] IN
  /\ pc[s] = "send"
  /\ entry' = IF entry[c].node = "read" THEN [entry EXCEPT ![c].node = "write"]
                                        ELSE [entry EXCEPT ![c].state = "receiving"]
  /\ Goto(s, "unlock")
  /\ UNCHANGED <<idle, tmutex, ses, results, on, at, stop>>

KeepsState(c) == entry[c].state   \* mutant: the state stays IDLE
FailedState(c) == "failed"

SendFails(s) ==
  LET c == on[s] IN
  /\ pc[s] = "send"
  /\ entry' = [entry EXCEPT ![c].node = Deleted(@), ![c].state = FailedState(c)]
  /\ Goto(s, "unlock")
  /\ UNCHANGED <<idle, tmutex, ses, results, on, at, stop>>

Unlock(s) ==
  /\ pc[s] = "unlock"
  /\ entry' = [entry EXCEPT ![on[s]].mutex = None]
  /\ Goto(s, "idle")
  /\ UNCHANGED <<idle, tmutex, ses, results, on, at, stop>>

(* request_new_conn. *)
Launch(s, c) ==
  /\ pc[s] = "launch" /\ entry[c].state = "none"
  /\ entry' = [entry EXCEPT ![c].state = "connecting", ![c].ref = 1,
                            ![c].session = s, ![c].node = "connect"]
  /\ Goto(s, "idle")
  /\ UNCHANGED <<idle, tmutex, ses, results, on, at, stop>>

(* It fails: the caller of request() releases the target and ends. *)
LaunchFails(s) ==
  /\ pc[s] = "launch"
  /\ ses' = [ses EXCEPT ![s] = "end"]
  /\ Goto(s, "idle")
  /\ UNCHANGED <<entry, idle, tmutex, results, on, at, stop>>

-----------------------------------------------------------------------------
(* The result of a node that is deleted or stopped. *)
StoppedKind(node) == CASE node = "connect" -> "cerror"
                       [] node \in {"write", "wdeleted"} -> "werror"
                       [] OTHER -> "ended"

(* The poller thread, until it is stopped. *)
Connected(c) ==
  /\ stop < 2 /\ entry[c].node = "connect"
  /\ entry' = [entry EXCEPT ![c].node = "none"]
  /\ \E kind \in {"connected", "cerror"} : Put(c, kind)
  /\ UNCHANGED <<idle, tmutex, ses, threads, stop>>

Written(c) ==
  /\ stop < 2 /\ entry[c].node = "write" /\ entry[c].pol \in {"idle", "fail"}
  /\ entry' = [entry EXCEPT ![c].node = "none", ![c].pol = "idle"]
  /\ \E kind \in {"written", "werror"} : Put(c, kind)
  /\ UNCHANGED <<idle, tmutex, ses, threads, stop>>

Reading(c) == entry[c].node \in {"read", "deleted"} /\ entry[c].pol = "idle"

NoFence(c) == FALSE               \* mutant: does not wait for the requester
NeedsFence(c) == entry[c].state = "idle"

(* Data when no message is being read: create_reply. *)
CreateBegin(c) ==
  /\ stop < 2 /\ Reading(c) /\ ~entry[c].msg
  /\ entry' = [entry EXCEPT
       ![c].pol = IF NeedsFence(c) THEN "fence" ELSE "create",
       ![c].asked = \E s \in Sessions : pc[s] = "sent" /\ on[s] = c]
  /\ UNCHANGED <<idle, tmutex, ses, results, threads, stop>>

CreateFence(c) ==
  /\ entry[c].pol = "fence" /\ entry[c].mutex = None
  /\ entry' = [entry EXCEPT ![c].pol = "create"]
  /\ UNCHANGED <<idle, tmutex, ses, results, threads, stop>>

CreateReply(c) ==
  /\ entry[c].pol = "create"
  /\ \E made \in IF entry[c].state = "receiving" THEN BOOLEAN ELSE {FALSE} :
       entry' = [entry EXCEPT ![c].msg = made, ![c].pol = IF made THEN "idle" ELSE "fail"]
  /\ UNCHANGED <<idle, tmutex, ses, results, threads, stop>>

(* append_message finds the end of the reply; without keep-alive it deletes
   its own node.                                                           *)
AppendEnd(c) ==
  /\ stop < 2 /\ Reading(c) /\ entry[c].msg
  /\ \E last \in BOOLEAN :
       entry' = [entry EXCEPT ![c].state = "success", ![c].msg = FALSE, ![c].last = last,
                              ![c].node = IF last THEN Deleted(@) ELSE @]
  /\ Put(c, "success")
  /\ UNCHANGED <<idle, tmutex, ses, threads, stop>>

(* The read ends by an error, the end of the stream or a timeout. *)
ReadEnds(c) ==
  /\ stop < 2 /\ entry[c].node = "read" /\ entry[c].pol \in {"idle", "fail"}
  /\ entry' = [entry EXCEPT ![c].node = "none", ![c].pol = "idle", ![c].msg = FALSE]
  /\ Put(c, "ended")
  /\ UNCHANGED <<idle, tmutex, ses, threads, stop>>

ReportDeleted(c) ==
  /\ stop < 2 /\ entry[c].node \in {"deleted", "wdeleted"}
  /\ entry[c].pol \in {"idle", "fail"}
  /\ entry' = [entry EXCEPT ![c].node = "none", ![c].pol = "idle", ![c].msg = FALSE]
  /\ Put(c, StoppedKind(entry[c].node))
  /\ UNCHANGED <<idle, tmutex, ses, threads, stop>>

(* deinit: no request is being made.  The poller thread ends, and its nodes
   are called back as stopped, in some order.                              *)
SetStopFlag ==
  /\ stop = 0 /\ \A s \in Sessions : pc[s] = "idle"
  /\ stop' = 1
  /\ UNCHANGED <<entry, idle, tmutex, ses, results, threads>>

Watched == {c \in Conns : entry[c].node # "none"}

StopPoller ==
  /\ stop = 1 /\ \A c \in Conns : entry[c].pol \in {"idle", "fail"}
  /\ stop' = 2
  /\ \E left \in Bijection(1..Cardinality(Watched), Watched) :
       results' = results \o [k \in 1..Cardinality(Watched) |->
                                Result(left[k], StoppedKind(entry[left[k]].node))]
  /\ entry' = [c \in Conns |-> [entry[c] EXCEPT !.node = "none", !.pol = "idle",
                                                !.msg = FALSE]]
  /\ UNCHANGED <<idle, tmutex, ses, threads>>

-----------------------------------------------------------------------------
(* Handler threads. *)
Get(t) ==
  LET r == Head(results) IN
  /\ pc[t] = "idle" /\ results # <<>>
  /\ Goto(t, r.kind)
  /\ on' = [on EXCEPT ![t] = r.on]
  /\ at' = [at EXCEPT ![t] = IF r.kind = "ended" THEN None ELSE entry[r.on].session]
  /\ results' = Tail(results)
  /\ UNCHANGED <<entry, idle, tmutex, ses, stop>>

NoStopCheck == FALSE              \* mutant: stop_flag is not looked at after adding
MustDelete == stop > 0

(* mpoller_add of a node, and mpoller_del if the communicator is stopping:
   a poller that has stopped calls back at once.                           *)
Watch(c, e, node) ==
  LET now == MustDelete /\ stop = 2 IN
  /\ entry' = [entry EXCEPT ![c] = [e EXCEPT !.node =
       IF now THEN "none" ELSE IF MustDelete THEN Deleted(node) ELSE node]]
  /\ results' = IF now THEN Append(results, Result(c, StoppedKind(node))) ELSE results

Receiving(e) == [e EXCEPT !.state = "receiving"]

(* handle_connect_result: the request is sent, all of it and then read, or
   its first part and then written.                                        *)
HandleConnected(t) ==
  LET c == on[t] IN
  /\ pc[t] = "connected"
  /\ \/ Watch(c, Receiving(entry[c]), "read") /\ Goto(t, "idle")
     \/ Watch(c, entry[c], "write") /\ Goto(t, "idle")
     \/ Goto(t, "cerror") /\ UNCHANGED <<entry, results>>
  /\ UNCHANGED <<idle, tmutex, ses, on, at, stop>>

(* It fails: the session ends and the entry is freed. *)
HandleNotConnected(t) ==
  LET c == on[t] IN
  /\ pc[t] = "cerror"
  /\ ses' = [ses EXCEPT ![at[t]] = "end"]
  /\ entry' = [entry EXCEPT ![c].gone = @ + 1, ![c].ref = 0]
  /\ Goto(t, "idle")
  /\ UNCHANGED <<idle, tmutex, results, on, at, stop>>

(* handle_request_result *)
HandleWritten(t) ==
  LET c == on[t] IN
  /\ pc[t] = "written"
  /\ \/ Watch(c, Receiving(entry[c]), "read") /\ Goto(t, "idle")
     \/ Goto(t, "werror") /\ UNCHANGED <<entry, results>>
  /\ UNCHANGED <<idle, tmutex, ses, on, at, stop>>

NoWait(c) == TRUE                 \* mutant: does not wait for the requester
RequesterLeft(c) == entry[c].mutex = None

HandleNotWritten(t) ==
  /\ pc[t] = "werror"
  /\ ses' = [ses EXCEPT ![at[t]] = "end"]
  /\ Goto(t, "fence")
  /\ UNCHANGED <<entry, idle, tmutex, results, on, at, stop>>

HandleFence(t) ==
  /\ pc[t] = "fence" /\ RequesterLeft(on[t])
  /\ Goto(t, "deref")
  /\ UNCHANGED <<entry, idle, tmutex, ses, results, on, at, stop>>

Stays(c) == entry[c].state = "success"

(* handle_incoming_reply, the reply is complete. *)
HandleSuccess(t) ==
  LET c == on[t] IN
  /\ pc[t] = "success" /\ tmutex = None
  /\ IF Stays(c)
     THEN /\ entry' = [entry EXCEPT ![c].ref = @ + 1,
                                    ![c].state = IF entry[c].last THEN "closing" ELSE "idle"]
          /\ idle' = IF entry[c].last THEN idle ELSE <<c>> \o idle
     ELSE UNCHANGED <<entry, idle>>
  /\ Goto(t, "handle")
  /\ UNCHANGED <<tmutex, ses, results, on, at, stop>>

(* The end of the connection, under both mutexes. *)
HandleEnd(t) ==
  /\ pc[t] = "ended" /\ tmutex = None
  /\ tmutex' = t
  /\ Goto(t, "ended2")
  /\ UNCHANGED <<entry, idle, ses, results, on, at, stop>>

LeftToOther(state) == state = "success"   \* "only if handler_threads > 1"

HasSession(state) == state \in {"failed", "receiving"}

HandleEnd2(t) ==
  LET c == on[t]
      state == entry[c].state
  IN
  /\ pc[t] = "ended2" /\ entry[c].mutex = None
  /\ tmutex' = None
  /\ idle' = IF state = "idle" THEN Without(c) ELSE idle
  /\ entry' = [entry EXCEPT ![c].state = IF @ = "success" THEN "closing" ELSE @,
                            ![c].mutex = t]
  /\ at' = [at EXCEPT ![t] = entry[c].session]
  /\ Goto(t, CASE HasSession(state) -> "toHandle"
               [] LeftToOther(state) -> "toIdle"
               [] OTHER -> "toDeref")
  /\ UNCHANGED <<ses, results, on, stop>>

(* The mutex of the entry is unlocked after that of the target. *)
AfterUnlock == [toHandle |-> "handle", toIdle |-> "idle", toDeref |-> "deref"]
HandleUnlock(t) ==
  /\ pc[t] \in DOMAIN AfterUnlock
  /\ entry' = [entry EXCEPT ![on[t]].mutex = None]
  /\ Goto(t, AfterUnlock[pc[t]])
  /\ UNCHANGED <<idle, tmutex, ses, results, on, at, stop>>

(* target->release and session->handle. *)
EndSession(t) ==
  /\ pc[t] = "handle"
  /\ ses' = [ses EXCEPT ![at[t]] = "end"]
  /\ Goto(t, "deref")
  /\ UNCHANGED <<entry, idle, tmutex, results, on, at, stop>>

Deref(t) ==
  LET c == on[t] IN
  /\ pc[t] = "deref"
  /\ entry' = [entry EXCEPT ![c].ref = @ - 1,
                            ![c].gone = @ + IF entry[c].ref = 1 THEN 1 ELSE 0]
  /\ Goto(t, "idle")
  /\ UNCHANGED <<idle, tmutex, ses, results, on, at, stop>>

-----------------------------------------------------------------------------
Requester(s) ==
  \/ TakeIdle(s) \/ LockEntry(s) \/ CheckEntry(s) \/ SendSync(s) \/ SetReceiving(s)
  \/ SendAsync(s) \/ SendFails(s) \/ Unlock(s) \/ LaunchFails(s)
  \/ \E c \in Conns : Launch(s, c)

PollerThread(c) ==
  \/ Connected(c) \/ Written(c) \/ CreateBegin(c) \/ CreateFence(c) \/ CreateReply(c)
  \/ AppendEnd(c) \/ ReadEnds(c) \/ ReportDeleted(c)

Handler(t) ==
  \/ Get(t) \/ HandleConnected(t) \/ HandleNotConnected(t) \/ HandleWritten(t)
  \/ HandleNotWritten(t) \/ HandleFence(t) \/ HandleSuccess(t) \/ HandleEnd(t)
  \/ HandleEnd2(t) \/ HandleUnlock(t) \/ EndSession(t) \/ Deref(t)

Quiet == results = <<>> /\ \A t \in All : pc[t] = "idle"

(* After deinit nothing is left to do. *)
Finished == stop = 2 /\ Quiet /\ UNCHANGED vars

Next ==
  \/ \E s \in Sessions : Request(s) \/ Requester(s)
  \/ \E c \in Conns : PollerThread(c)
  \/ \E t \in Threads : Handler(t)
  \/ SetStopFlag \/ StopPoller
  \/ Finished

Spec == Init /\ [][Next]_vars

(* Threads run, connecting and writing end, and reading a reply ends, all of
   them at the latest by their timeouts.                                   *)
Fairness ==
  /\ \A s \in Sessions : WF_vars(Requester(s))
  /\ \A t \in Threads : WF_vars(Handler(t))
  /\ WF_vars(StopPoller)
  /\ \A c \in Conns :
       /\ WF_vars(Connected(c)) /\ WF_vars(Written(c)) /\ WF_vars(ReportDeleted(c))
       /\ WF_vars(CreateFence(c) \/ CreateReply(c))
       /\ WF_vars((entry[c].state = "receiving" \/ entry[c].pol = "fail") /\ ReadEnds(c))

LiveSpec == Spec /\ Fairness
-----------------------------------------------------------------------------
(* Properties *)

Kinds == {"connected", "cerror", "written", "werror", "success", "ended"}

Entries == [state : {"none", "connecting", "receiving", "success", "idle", "closing",
                     "failed"},
            ref : Nat, session : Sessions \cup {None}, mutex : All \cup {None},
            node : {"none", "connect", "write", "read", "deleted", "wdeleted"},
            pol : {"idle", "fence", "create", "fail"}, msg : BOOLEAN,
            asked : BOOLEAN, last : BOOLEAN, gone : 0..1]

(* Every variable keeps its type; an entry is freed at most once. *)
TypeOK ==
  /\ entry \in [Conns -> Entries]
  /\ idle \in Seq(Conns) /\ tmutex \in All \cup {None}
  /\ ses \in [Sessions -> {"new", "busy", "end"}]
  /\ results \in Seq([on : Conns, kind : Kinds])
  /\ pc \in [All -> Kinds \cup {"idle", "take", "lock", "check", "send", "sent",
                                "unlock", "launch", "fence", "ended2", "handle", "deref"}
                     \cup DOMAIN AfterUnlock]
  /\ on \in [All -> Conns \cup {None}] /\ at \in [All -> Sessions \cup {None}]
  /\ stop \in 0..2

InUse(c) ==
  \/ entry[c].node # "none" \/ entry[c].pol # "idle" \/ entry[c].mutex \in Sessions
  \/ c \in Range(idle)
  \/ \E k \in DOMAIN results : results[k].on = c
  \/ \E t \in Threads : pc[t] \notin {"idle", "toIdle"} /\ on[t] = c
  \/ \E s \in Sessions : pc[s] \in {"lock", "check", "send", "sent", "unlock"} /\ on[s] = c

(* When an entry is freed, no node, result, list or thread refers to it: also
   not a requester that is still inside request() after its request has
   already failed, for whom handle_request_result waits.  The one exception
   is the subject of UnlocksLiveMutex.                                     *)
NoUseAfterRelease == \A c \in Conns : entry[c].gone > 0 => ~InUse(c)

(* A handler that leaves an entry in the state SUCCESS to the handler of the
   complete reply ("This may happen only if handler_threads > 1", line 582, and
   entry = NULL) is done with the entry: in particular the entry is not freed
   before this handler has unlocked its mutex.                             *)
UnlocksLiveMutex == \A t \in Threads : pc[t] = "toIdle" => entry[on[t]].gone = 0

(* A connection that nothing refers to was freed. *)
NothingLeaks ==
  \A c \in Conns : entry[c].state # "none" /\ ~InUse(c) => entry[c].gone = 1

EndsFor(t, s) == pc[t] \in {"handle", "cerror", "werror"} /\ at[t] = s

(* Each request gets one outcome, by one thread: target->release and
   session->handle are called once for it, though the entry may already have
   been given to the next request when they are.                           *)
SessionEndsOnce == \A s \in Sessions, t \in Threads :
  EndsFor(t, s) => ses[s] = "busy" /\ \A u \in Threads \ {t} : ~EndsFor(u, s)

(* A connection carries one exchange at a time: an entry in idle_list has the
   state IDLE, no message is being read from it, and the request it carried
   last has its outcome or is about to get it.                             *)
IdleIsFree == \A c \in Range(idle) :
  /\ entry[c].state = "idle" /\ ~entry[c].msg
  /\ ses[entry[c].session] = "end"
       \/ \E t \in Threads : pc[t] = "handle" /\ at[t] = entry[c].session
  /\ \A k \in DOMAIN results : results[k].on = c => results[k].kind = "ended"

(* What holds of the entries and the idle list of a target at every moment. *)
EntryInv == TypeOK /\ IdleIsFree /\ NothingLeaks /\ SessionEndsOnce

(* A reply that came after the whole request is not refused though the
   requester has not set the state yet: the poller thread waits for it.    *)
ReplyAccepted == \A c \in Conns : entry[c].pol = "create" /\ entry[c].asked =>
  entry[c].state # "idle"

(* Every request gets its outcome: again and again none is under way. *)
EveryRequestEnds == []<>(\A s \in Sessions : ses[s] # "busy")

(* After deinit every connection is freed, those included whose next node was
   added by a handler while the poller was stopping.                       *)
StopFreesAll == []<>(stop > 0 =>
  \A c \in Conns : entry[c].state # "none" => entry[c].gone = 1)
=============================================================================
