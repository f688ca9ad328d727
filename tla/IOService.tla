----------------------------- MODULE IOService -----------------------------
(***************************************************************************)
(* Asynchronous file I/O: IOService of IOService_linux.cc, bound to the    *)
(* poller by Communicator::io_bind, and its owner __FileIOService.  The    *)
(* kernel puts a finished operation into the ring of io_ctx and counts it  *)
(* in the event descriptor; the poller thread takes it from the ring; a    *)
(* handler thread ends the session.  Whoever drops the last reference      *)
(* waits for the operations that are left and goes through the list of     *)
(* sessions without its mutex.                                             *)
(***************************************************************************)
EXTENDS Integers, Sequences, FiniteSets

CONSTANTS IoThreads,    \* handler threads
          IoApp,        \* the thread of the owner
          IoSessions,   \* sessions, each requested once
          IoNone

ASSUME IoAssumption == IoNone \notin IoSessions /\ IsFiniteSet(IoThreads)

VARIABLES
  event_fd,       \* 1 while service->event_fd is open
  io_ref,         \* service->ref
  io_list,        \* the sessions in the list
  io_mutex,       \* the session whose request holds service->mutex, or IoNone
  kernel, ring,   \* operations not finished; finished ones, oldest first
  counter, cnt,   \* of the event descriptor; what the poller has read of it
  node,           \* of the event descriptor: "watched", "deleted", "none"
  io_results,     \* the queue of the handler threads
  act, on_ses,    \* control of each thread and the session it works on
  io_phase,       \* of each session: "new", "linking", "out", "end"
  io_handled,     \* how often handle() of each session was called
  unbinding, poller_stopped,
  flag, deinited  \* flag_ of the owner; IOService::deinit has been called

io_service == <<event_fd, io_ref, io_list, io_mutex, flag, deinited>>
io_queues == <<kernel, ring, counter>>
io_poller == <<cnt, node, poller_stopped>>
io_threads == <<act, on_ses, unbinding>>
io_sessions == <<io_phase, io_handled>>
io_vars == <<io_service, io_queues, io_poller, io_results, io_threads, io_sessions>>

IoActors == IoThreads \cup {IoApp}

(* After get_io_service: the service is bound, with one reference. *)
IoInit ==
  /\ event_fd = 1 /\ io_ref = 1 /\ io_list = {} /\ io_mutex = IoNone
  /\ flag = FALSE /\ deinited = FALSE
  /\ kernel = {} /\ ring = <<>> /\ counter = 0
  /\ cnt = 0 /\ node = "watched" /\ poller_stopped = FALSE
  /\ io_results = <<>>
  /\ act = [t \in IoActors |-> "idle"] /\ on_ses = [t \in IoActors |-> IoNone]
  /\ unbinding = FALSE
  /\ io_phase = [s \in IoSessions |-> "new"]
  /\ io_handled = [s \in IoSessions |-> 0]

(* poller->callback, which is msgqueue_put. *)
IoPut(kind, s) == io_results' = Append(io_results, [kind |-> kind, on |-> s])
IoGoto(t, where) == act' = [act EXCEPT ![t] = where]
EndOf(s) == /\ io_handled' = [io_handled EXCEPT ![s] = @ + 1]
            /\ io_phase' = [io_phase EXCEPT ![s] = "end"]

-----------------------------------------------------------------------------
(* request refuses a session when the descriptor is closed or prepare or
   io_submit fails; IORequest::dispatch then ends it.                      *)
RequestRefused(s) ==
  /\ io_phase[s] = "new" /\ io_mutex = IoNone /\ ~deinited
  /\ EndOf(s)
  /\ UNCHANGED <<io_service, io_queues, io_poller, io_results, io_threads>>

(* io_submit: from here on the operation may finish. *)
Submit(s) ==
  /\ io_phase[s] = "new" /\ io_mutex = IoNone /\ event_fd = 1
  /\ io_mutex' = s
  /\ kernel' = kernel \cup {s}
  /\ io_phase' = [io_phase EXCEPT ![s] = "linking"]
  /\ UNCHANGED <<event_fd, io_ref, io_list, flag, deinited, ring, counter,
                 io_poller, io_results, io_threads, io_handled>>

(* list_add_tail, still under the mutex. *)
Link(s) ==
  /\ io_phase[s] = "linking"
  /\ io_list' = io_list \cup {s}
  /\ io_mutex' = IoNone
  /\ io_phase' = [io_phase EXCEPT ![s] = "out"]
  /\ UNCHANGED <<event_fd, io_ref, flag, deinited, io_queues, io_poller,
                 io_results, io_threads, io_handled>>

(* The kernel finishes an operation, in any order. *)
KernelDone(s) ==
  /\ s \in kernel
  /\ kernel' = kernel \ {s}
  /\ ring' = Append(ring, s)
  /\ counter' = counter + 1
  /\ UNCHANGED <<io_service, io_poller, io_results, io_threads, io_sessions>>

-----------------------------------------------------------------------------
(* The poller thread, __poller_handle_event: it reads the counter ... *)
HandleEvent ==
  /\ node # "none" /\ ~poller_stopped /\ cnt = 0 /\ counter > 0
  /\ cnt' = counter
  /\ counter' = 0
  /\ UNCHANGED <<io_service, kernel, ring, node, poller_stopped, io_results,
                 io_threads, io_sessions>>

EventRefNone == 0     \* mutant: aio_finish takes no reference
EventRef == 1

(* ... and takes one completion for each: io_getevents waits for it.  If
   there is no memory for the next result, the rest is written back and the
   descriptor is given up, unless it has been deleted in the meantime.     *)
aio_finish ==
  /\ cnt > 0 /\ ring # <<>>
  /\ ring' = Tail(ring)
  /\ io_ref' = io_ref + EventRef
  /\ LET result == [kind |-> "success", on |-> Head(ring)]
         error == [kind |-> "error", on |-> IoNone]
     IN \/ /\ cnt' = cnt - 1
           /\ io_results' = Append(io_results, result)
           /\ UNCHANGED <<counter, node>>
        \/ /\ cnt' = 0
           /\ counter' = counter + cnt - 1
           /\ io_results' = IF node = "watched"
                            THEN Append(Append(io_results, result), error)
                            ELSE Append(io_results, result)
           /\ node' = IF node = "watched" THEN "none" ELSE node
  /\ UNCHANGED <<event_fd, io_list, io_mutex, flag, deinited, kernel,
                 poller_stopped, io_threads, io_sessions>>

(* Reading the descriptor fails. *)
EventError ==
  /\ node = "watched" /\ ~poller_stopped /\ cnt = 0
  /\ node' = "none"
  /\ IoPut("error", IoNone)
  /\ UNCHANGED <<io_service, io_queues, cnt, poller_stopped, io_threads, io_sessions>>

(* The thread comes to the pipe, after the handler. *)
EventDeleted ==
  /\ node = "deleted" /\ cnt = 0
  /\ node' = "none"
  /\ IoPut("deleted", IoNone)
  /\ UNCHANGED <<io_service, io_queues, cnt, poller_stopped, io_threads, io_sessions>>

(* CommScheduler::deinit stops the poller, which returns every node. *)
PollerStop ==
  /\ ~poller_stopped /\ cnt = 0
  /\ poller_stopped' = TRUE
  /\ node' = "none"
  /\ CASE node = "watched" -> IoPut("stopped", IoNone)
       [] node = "deleted" -> IoPut("deleted", IoNone)
       [] OTHER -> UNCHANGED io_results
  /\ UNCHANGED <<io_service, io_queues, cnt, io_threads, io_sessions>>

-----------------------------------------------------------------------------
(* Handler threads, handle_aio_result. *)
IoGet(t) ==
  /\ t \in IoThreads /\ act[t] = "idle" /\ io_results # <<>>
  /\ io_results' = Tail(io_results)
  /\ IoGoto(t, Head(io_results).kind)
  /\ on_ses' = [on_ses EXCEPT ![t] = Head(io_results).on]
  /\ UNCHANGED <<io_service, io_queues, io_poller, unbinding, io_sessions>>

Locked == io_mutex = IoNone

HandleSuccess(t) ==
  /\ act[t] = "success" /\ Locked
  /\ io_list' = io_list \ {on_ses[t]}
  /\ IoGoto(t, "handle")
  /\ UNCHANGED <<event_fd, io_ref, io_mutex, flag, deinited, io_queues, io_poller,
                 io_results, on_ses, unbinding, io_sessions>>

HandleSession(t) ==
  /\ act[t] = "handle"
  /\ EndOf(on_ses[t])
  /\ IoGoto(t, "decref")
  /\ UNCHANGED <<io_service, io_queues, io_poller, io_results, on_ses, unbinding>>

(* shutdown_io_service, up to the decref. *)
shutdown_io_service(t) ==
  /\ act[t] = "deleted" /\ io_mutex = IoNone
  /\ event_fd' = 0
  /\ IoGoto(t, "decref")
  /\ UNCHANGED <<io_ref, io_list, io_mutex, flag, deinited, io_queues, io_poller,
                 io_results, on_ses, unbinding, io_sessions>>

LeaveRest(r) == "idle"      \* mutant: the last reference leaves the rest alone
AfterDecref(r) == IF r = 0 THEN "drain" ELSE "idle"

decref(t) ==
  /\ act[t] = "decref"
  /\ io_ref' = io_ref - 1
  /\ IoGoto(t, AfterDecref(io_ref - 1))
  /\ UNCHANGED <<event_fd, io_list, io_mutex, flag, deinited, io_queues, io_poller,
                 io_results, on_ses, unbinding, io_sessions>>

(* The last reference: io_getevents waits for any operation, whose session
   leaves the list and ends.                                               *)
DrainOne(t) ==
  /\ act[t] = "drain" /\ io_list # {} /\ ring # <<>>
  /\ ring' = Tail(ring)
  /\ io_list' = io_list \ {Head(ring)}
  /\ EndOf(Head(ring))
  /\ UNCHANGED <<event_fd, io_ref, io_mutex, flag, deinited, kernel, counter,
                 io_poller, io_results, io_threads>>

handle_unbound(t) ==
  /\ act[t] = "drain" /\ io_list = {}
  /\ flag' = TRUE
  /\ IoGoto(t, "idle")
  /\ UNCHANGED <<event_fd, io_ref, io_list, io_mutex, deinited, io_queues,
                 io_poller, io_results, on_ses, unbinding, io_sessions>>

(* io_unbind: mpoller_del finds the node or the service is shut down here. *)
io_unbind(t) ==
  /\ ~unbinding
  /\ unbinding' = TRUE
  /\ node' = IF node = "watched" THEN "deleted" ELSE node
  /\ IoGoto(t, IF node = "watched" THEN "idle" ELSE "deleted")

(* The owner unbinds, or handle_stop does it when the descriptor has failed
   or the poller has stopped; only one of them.  The service of WFGlobal only
   unbinds in handle_stop; the model also has the owner that did so before,
   whose handle_stop then has nothing to do.                               *)
OwnerUnbinds ==
  /\ act[IoApp] = "idle" /\ io_unbind(IoApp)
  /\ UNCHANGED <<io_service, io_queues, cnt, poller_stopped, io_results, on_ses,
                 io_sessions>>

handle_stop(t) ==
  /\ act[t] \in {"error", "stopped"}
  /\ \/ io_unbind(t)
     \/ unbinding /\ IoGoto(t, "idle") /\ UNCHANGED <<unbinding, node>>
  /\ UNCHANGED <<io_service, io_queues, cnt, poller_stopped, io_results, on_ses,
                 io_sessions>>

(* ~__CommManager: the handler threads are gone, deinit waits for flag_. *)
ServiceDeinit ==
  /\ poller_stopped /\ io_results = <<>> /\ \A t \in IoActors : act[t] = "idle"
  /\ flag /\ ~deinited
  /\ deinited' = TRUE
  /\ UNCHANGED <<event_fd, io_ref, io_list, io_mutex, flag, io_queues, io_poller,
                 io_results, io_threads, io_sessions>>

-----------------------------------------------------------------------------
IoRequest(s) == RequestRefused(s) \/ Submit(s) \/ Link(s)
IoPoller == HandleEvent \/ aio_finish \/ EventError \/ EventDeleted
IoHandler(t) ==
  \/ IoGet(t) \/ HandleSuccess(t) \/ HandleSession(t) \/ handle_stop(t)
  \/ shutdown_io_service(t) \/ decref(t) \/ DrainOne(t) \/ handle_unbound(t)

IoFinished == deinited /\ UNCHANGED io_vars

IoNext ==
  \/ \E s \in IoSessions : IoRequest(s) \/ KernelDone(s)
  \/ IoPoller \/ PollerStop
  \/ \E t \in IoActors : IoHandler(t)
  \/ OwnerUnbinds \/ ServiceDeinit \/ IoFinished

(* The kernel finishes what it was given, and the threads run. *)
IoFairness ==
  /\ \A s \in IoSessions : WF_io_vars(Link(s)) /\ WF_io_vars(KernelDone(s))
  /\ WF_io_vars(HandleEvent)
  /\ WF_io_vars(aio_finish) /\ WF_io_vars(EventDeleted)
  /\ \A t \in IoActors : WF_io_vars(IoHandler(t))

IoSpec == IoInit /\ [][IoNext]_io_vars /\ IoFairness

-----------------------------------------------------------------------------
Waiting(s) == \E i \in 1..Len(io_results) : io_results[i].on = s
InHand(s, w) == \E t \in IoActors : act[t] = w /\ on_ses[t] = s
Holders == {t \in IoActors : act[t] \in {"success", "handle", "deleted", "decref"}}
HasBase == event_fd = 1 /\ ~\E t \in IoActors : act[t] = "deleted"
Successes == {i \in 1..Len(io_results) : io_results[i].kind = "success"}

(* IoInv (IOService_linux.cc:270-328, Communicator.cc:914-947): no session is
   handled twice, and none is handled before its operation has finished; an
   operation under way has its session in the list or about to be linked; the
   reference count is what the threads, the queued results and the open
   descriptor hold; the thread with the last reference is alone with the list
   of sessions; the poller thread never waits in io_getevents; and when the
   handler threads are gone flag_ is set, so deinit does not wait for ever.  *)
IoInv ==
  /\ \A s \in IoSessions :
       /\ io_handled[s] = IF io_phase[s] = "end" THEN 1 ELSE 0
       /\ s \in io_list <=> io_phase[s] = "out" /\ ~InHand(s, "handle")
       /\ io_phase[s] \in {"out", "linking"} <=>
            \/ s \in kernel
            \/ \E i \in 1..Len(ring) : ring[i] = s
            \/ Waiting(s)
            \/ InHand(s, "success") \/ InHand(s, "handle")
  /\ io_ref = Cardinality(Successes) + Cardinality(Holders) + IF HasBase THEN 1 ELSE 0
  /\ \A t \in IoActors : act[t] = "drain" =>
       /\ io_mutex = IoNone /\ event_fd = 0 /\ io_ref = 0 /\ cnt = 0
       /\ \A u \in IoActors \ {t} : act[u] \in {"idle", "error", "stopped"}
       /\ ~flag
  /\ cnt <= Len(ring)
  /\ flag => io_list = {} /\ io_ref = 0 /\ Holders = {} /\ kernel = {}
  /\ poller_stopped /\ io_results = <<>> /\ (\A t \in IoActors : act[t] = "idle") => flag

(* IoEnds (IOService_linux.cc:270-302): every session that was accepted is
   handled, by the handlers or by the last reference, and the service that
   is being unbound, or whose poller has stopped, comes to handle_unbound:
   again and again none is left and none of this is outstanding.           *)
IoEnds ==
  []<>(/\ \A s \in IoSessions : io_phase[s] = "out" => io_handled[s] = 1
       /\ unbinding \/ poller_stopped => flag)
=============================================================================
