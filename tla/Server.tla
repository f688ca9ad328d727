------------------------------- MODULE Server -------------------------------
(***************************************************************************)
(* WFServerBase and WFServerTask (src/server/WFServer.cc, WFServer.h and    *)
(* src/factory/WFTask.inl) on top of what the communicator promises        *)
(* (module Service): the limit of connections, the start, the shutdown and *)
(* the end of a server, and the life of the task of each request with its  *)
(* series, which the process function, other tasks of the series and the   *)
(* callback may extend or cancel.                                          *)
(***************************************************************************)
EXTENDS Service, Integers, FiniteSets

CONSTANTS max_connections,
          Clients,      \* bound: the requests each connection may send, -1 for a
                        \*   connection that is never made; one of these is chosen
          MaxStarts,    \* bound: starts of the server
          MaxCalls      \* bound: calls of user code that change a task or a series

ASSUME ConnsAssumption == IsFiniteSet(Conns)
ASSUME LimitAssumption == max_connections \in Nat

VARIABLES
  conn_count,     \* the atomic counter
  acc,            \* where each connection is in new_connection, and whether a
                  \*   later one has drained it
  task,           \* the task of each session and its series
  server,         \* "off", "on", "stopping" (shutdown called), "unbound"
  waiter,         \* a thread in wait_finish
  unbind_finish,
  clients,        \* the member of Clients
  starts, ucalls  \* how often the server was started and user code called

owner_vars == <<clients, server, waiter, unbind_finish, starts, ucalls>>
server_vars == <<service_vars, conn_count, acc, task, owner_vars>>

(* at: none, new, process, pop, run (another task of the series), last (the
   task itself is dispatched), reply, callback or over.  reply: the state of
   the task is TOREPLY.  flag: processor.task.  last, queue, cancel and held
   are last, the length of the queue, canceled and task of the series; dels
   counts the deletions of the task.                                       *)
NoServerTask == [at |-> "none", reply |-> FALSE, flag |-> FALSE, last |-> FALSE, queue |-> 0,
           cancel |-> FALSE, held |-> FALSE, dels |-> 0]

ServerInit ==
  /\ conn = [c \in Conns |-> "none"]
  /\ sess = [c \in Conns |-> [i \in Sess |-> "none"]]
  /\ base = FALSE /\ unbound = 1
  /\ conn_count = 0
  /\ acc = [c \in Conns |-> "none"]
  /\ task = [c \in Conns |-> [i \in Sess |-> NoServerTask]]
  /\ server = "off" /\ waiter = "out" /\ unbind_finish = FALSE /\ starts = 0
  /\ ucalls = 0 /\ clients \in Clients

-----------------------------------------------------------------------------
(* The owner. *)
Start ==
  /\ server = "off" /\ starts < MaxStarts
  /\ starts' = starts + 1
  /\ server' = "on" /\ base' = TRUE /\ unbound' = 0
  /\ UNCHANGED <<conn, sess, conn_count, acc, task, clients, waiter, unbind_finish, ucalls>>

Shutdown ==
  /\ server = "on"
  /\ server' = "stopping"
  /\ UNCHANGED <<service_vars, conn_count, acc, task, clients, waiter, unbind_finish, starts, ucalls>>

OnlyIfWaiting(w) == w = "waiting"                   \* mutant: only notifies
Remembered(w) == TRUE

HandleUnbound ==
  /\ server = "stopping" /\ unbound = 1
  /\ server' = "unbound" /\ unbind_finish' = Remembered(waiter)
  /\ UNCHANGED <<service_vars, conn_count, acc, task, clients, waiter, starts, ucalls>>

(* wait_finish, in any thread, before or after shutdown; it returns with the
   server deinitialised, so that it can be started again.                  *)
WaitFinish ==
  /\ waiter = "out" /\ waiter' = "waiting"
  /\ UNCHANGED <<service_vars, conn_count, acc, task, clients, server, unbind_finish, starts,
                 ucalls>>

WaitReturns ==
  /\ waiter = "waiting" /\ unbind_finish
  /\ waiter' = "out" /\ server' = "off" /\ unbind_finish' = FALSE
  /\ UNCHANGED <<service_vars, conn_count, acc, task, clients, starts, ucalls>>

-----------------------------------------------------------------------------
(* Connections. *)
Apart == UNCHANGED <<task, owner_vars>>
Stage(c, s) == acc' = [acc EXCEPT ![c] = s]

Arrive(c) == clients[c] >= 0 /\ Connect(c) /\ UNCHANGED <<conn_count, acc>> /\ Apart

(* new_connection: the counter is taken first, so that two threads never pass
   with the same place.                                                    *)
NewConnection(c) ==
  /\ conn[c] = "pending" /\ acc[c] = "none"
  /\ conn_count' = conn_count + 1
  /\ Stage(c, IF conn_count + 1 <= max_connections THEN "in" ELSE "over")
  /\ UNCHANGED service_vars /\ Apart

(* drain(1), which takes an idle connection if there is one. *)
DrainsOne(c) ==
  /\ acc[c] = "over"
  /\ \E d \in Conns : Drain(d) /\ acc' = [acc EXCEPT ![c] = "in", ![d] = "drained"]
  /\ UNCHANGED conn_count /\ Apart
DrainsNone(c) ==
  /\ acc[c] = "over" /\ \A d \in Conns : conn[d] # "alive"
  /\ Stage(c, "refused")
  /\ UNCHANGED <<conn_count, service_vars>> /\ Apart

Refused(c) ==
  /\ acc[c] = "refused"
  /\ Refuse(c) /\ Stage(c, "out") /\ conn_count' = conn_count - 1 /\ Apart

(* The connection exists: it is added to the poller, or that fails and it is
   deleted.                                                                *)
Admitted(c) == acc[c] = "in" /\ Admit(c) /\ UNCHANGED <<conn_count, acc>> /\ Apart

(* delete_connection, here and below. *)
NotAdded(c) ==
  /\ acc[c] = "in"
  /\ Refuse(c) /\ Stage(c, "out") /\ conn_count' = conn_count - 1 /\ Apart

Idles(c) == KeepAlive(c) /\ UNCHANGED <<conn_count, acc>> /\ Apart
Resumes(c) == LeaveAlive(c) /\ UNCHANGED <<conn_count, acc>> /\ Apart
StartsClosing(c) == StartClose(c) /\ UNCHANGED <<conn_count, acc>> /\ Apart
DeleteConnection(c) == Close(c) /\ Stage(c, "out") /\ conn_count' = conn_count - 1 /\ Apart

(* shutdown_service. *)
DrainsAll(c) ==
  /\ server = "stopping" /\ base
  /\ Drain(c) /\ Stage(c, "drained") /\ UNCHANGED conn_count /\ Apart
Unbinds == server = "stopping" /\ ReleaseBase /\ UNCHANGED <<conn_count, acc>> /\ Apart

-----------------------------------------------------------------------------
(* The task of session i of connection c. *)
Rest == UNCHANGED <<conn_count, acc, owner_vars>>
Become(c, i, tk) == task' = [task EXCEPT ![c][i] = tk] /\ Rest

ServerTask(c, i) ==
  /\ i <= clients[c]
  /\ NewSession(c, i) /\ Become(c, i, [NoServerTask EXCEPT !.at = "new"])

(* handle: the request is incomplete and the task deletes itself, or it is
   complete and the task makes its series.                                 *)
HandleFailed(c, i) ==
  /\ ReceiveFails(c, i)
  /\ Become(c, i, [task[c][i] EXCEPT !.at = "over", !.dels = @ + 1])
HandleToReply(c, i) ==
  /\ Deliver(c, i)
  /\ Become(c, i, [task[c][i] EXCEPT !.at = "process", !.reply = TRUE, !.flag = TRUE,
                                     !.last = TRUE, !.held = TRUE])

(* What process, a task of the series or the callback may do; a series may be
   canceled at any time.                                                   *)
User(c, i, where, tk) ==
  /\ task[c][i].at \in where /\ ucalls < MaxCalls
  /\ task' = [task EXCEPT ![c][i] = tk]
  /\ ucalls' = ucalls + 1
  /\ UNCHANGED <<service_vars, conn_count, acc, clients, server, waiter, unbind_finish, starts>>
InUser == {"process", "run", "callback"}
NoReply(c, i) ==
  task[c][i].reply /\ User(c, i, InUser, [task[c][i] EXCEPT !.reply = FALSE])
PushBack(c, i) == User(c, i, InUser, [task[c][i] EXCEPT !.queue = @ + 1])
CancelSeries(c, i) ==
  ~task[c][i].cancel /\ User(c, i, InUser \cup {"pop", "reply"}, [task[c][i] EXCEPT !.cancel = TRUE])

(* Processor::dispatch goes on after process. *)
ProcessReturned(c, i) ==
  /\ Delivered(c, i)
  /\ Become(c, i, [task[c][i] EXCEPT !.at = "pop", !.flag = FALSE])

(* SeriesWork::pop.  A canceled series deletes its queue and the task if that
   is still its last; a series with nothing left is deleted, and deletes the
   task unless the destructor of the task came first.                      *)
KeepsTask(tk) == tk.held                            \* mutant: ~WFServerTask leaves it
AfterDelete(tk) == FALSE
PopDeletesLast(tk) ==
  IF tk.last THEN [tk EXCEPT !.last = FALSE, !.dels = @ + 1, !.held = AfterDelete(tk)]
             ELSE tk
SeriesDeleted(tk) ==
  [NoServerTask EXCEPT !.at = "over", !.dels = tk.dels + IF tk.held THEN 1 ELSE 0]
Popped(tk) ==
  CASE tk.cancel -> SeriesDeleted(PopDeletesLast(tk))
    [] ~tk.cancel /\ tk.queue > 0 -> [tk EXCEPT !.at = "run", !.queue = @ - 1]
    [] ~tk.cancel /\ tk.queue = 0 /\ tk.last -> [tk EXCEPT !.at = "last", !.last = FALSE]
    [] OTHER -> SeriesDeleted(tk)

(* The next task of the series, or its end, after process or another task. *)
PopNext(c, i) ==
  LET tk == Popped(task[c][i]) IN
  /\ task[c][i].at \in {"pop", "run"}
  /\ Become(c, i, tk)
  /\ IF tk.at = "over" THEN DropSession(c, i) \/ DeleteSession(c, i)
                       ELSE UNCHANGED service_vars

(* WFServerTask::dispatch. *)
DispatchReply(c, i) ==
  /\ task[c][i].at = "last" /\ task[c][i].reply
  /\ StartReply(c, i)
  /\ Become(c, i, [task[c][i] EXCEPT !.at = "reply", !.flag = TRUE])

DispatchFails(c, i) ==
  /\ task[c][i].at = "last" /\ task[c][i].reply
  /\ ReplyRefused(c, i)
  /\ Become(c, i, [task[c][i] EXCEPT !.at = "callback", !.reply = FALSE,
                                     !.flag = FALSE])
DispatchShutdown(c, i) ==
  /\ task[c][i].at = "last" /\ ~task[c][i].reply
  /\ ShutdownSession(c, i)
  /\ Become(c, i, [task[c][i] EXCEPT !.at = "callback"])

(* handle with the outcome of the reply. *)
HandleReplied(c, i) ==
  /\ task[c][i].at = "reply"
  /\ Become(c, i, [task[c][i] EXCEPT !.at = "callback", !.reply = FALSE])
  /\ UNCHANGED service_vars

(* WFServerTask::done: after the callback the series goes on, and deletes the
   task at its end.                                                        *)
Done(c, i) ==
  LET tk == Popped(task[c][i]) IN
  /\ task[c][i].at = "callback"
  /\ Become(c, i, tk)
  /\ CASE tk.at = "over" -> RepliedEnd(c, i) \/ DeleteSession(c, i)
       [] tk.at # "over" /\ sess[c][i] = "busy" -> RepliedKept(c, i)
       [] OTHER -> UNCHANGED service_vars

-----------------------------------------------------------------------------
TaskStep(c, i) ==
  \/ HandleFailed(c, i) \/ HandleToReply(c, i) \/ ProcessReturned(c, i) \/ PopNext(c, i)
  \/ DispatchReply(c, i) \/ DispatchFails(c, i) \/ DispatchShutdown(c, i)
  \/ HandleReplied(c, i) \/ Done(c, i)
UserStep(c, i) == NoReply(c, i) \/ PushBack(c, i) \/ CancelSeries(c, i)
AcceptStep(c) ==
  NewConnection(c) \/ DrainsOne(c) \/ DrainsNone(c) \/ Refused(c) \/ Admitted(c) \/ NotAdded(c)

(* Nothing but wait_finish is left to happen. *)
ServerFinished ==
  /\ server \in {"off", "unbound"} /\ waiter = "waiting"
  /\ UNCHANGED server_vars

ServerNext ==
  \/ Start \/ Shutdown \/ HandleUnbound \/ WaitFinish \/ WaitReturns \/ Unbinds
  \/ \E c \in Conns :
       \/ Arrive(c) \/ AcceptStep(c) \/ Idles(c) \/ Resumes(c) \/ StartsClosing(c)
       \/ DeleteConnection(c) \/ DrainsAll(c)
       \/ \E i \in Sess : ServerTask(c, i) \/ TaskStep(c, i) \/ UserStep(c, i)
  \/ ServerFinished

(* The threads run, handle_unbound and wait_finish are called, shutdown_service
   drains what is idle, and the connections of a service without its listening
   socket end, by a timeout if not before.                                 *)
ServerFairness ==
  /\ WF_server_vars(HandleUnbound) /\ WF_server_vars(WaitFinish)
  /\ WF_server_vars(WaitReturns) /\ WF_server_vars(Unbinds)
  /\ \A c \in Conns :
       /\ WF_server_vars(AcceptStep(c)) /\ WF_server_vars(DrainsAll(c))
       /\ WF_server_vars(~base /\ DeleteConnection(c))
       /\ \A i \in Sess : WF_server_vars(TaskStep(c, i))

ServerSpec == ServerInit /\ [][ServerNext]_server_vars /\ ServerFairness
-----------------------------------------------------------------------------
Counted == {c \in Conns : acc[c] \in {"over", "refused", "in", "drained"}}

(* conn_count is exact though the handler threads change it one by one, and
   the connections that are not being drained never exceed the limit.      *)
CountExact == /\ conn_count = Cardinality(Counted)
              /\ Cardinality({c \in Conns : acc[c] = "in"}) <= max_connections

(* The task of a request is deleted once, by itself, by the canceled series or
   by the end of its series, exactly when the communicator loses the session. *)
DeletedOnce == \A c \in Conns, i \in Sess :
  /\ task[c][i].dels = IF sess[c][i] = "end" THEN 1 ELSE 0
  /\ task[c][i].at = "over" <=> sess[c][i] = "end"

(* get_connection, in process and in the callback, returns a connection that
   exists or none.                                                         *)
ConnectionExists == \A c \in Conns, i \in Sess :
  task[c][i].at \in {"process", "callback"} /\ task[c][i].flag => conn[c] # "closed"

(* When wait_finish may return, and while the server is off, no connection, task
   or series is left and the counter is zero: the server may be destroyed or
   started again.                                                          *)
NothingAfterFinish ==
  server \in {"off", "unbound"} =>
    /\ conn_count = 0
    /\ \A c \in Conns : /\ conn[c] \in {"none", "closed"}
                        /\ \A i \in Sess : task[c][i].at \in {"none", "over"}

(* What holds of a server at every moment. *)
ServerInv == CountExact /\ DeletedOnce /\ ConnectionExists /\ NothingAfterFinish

(* A server that is shut down ends, whatever its connections and tasks are
   doing: wait_finish returns.                                             *)
ServerStops == []<>(server \in {"off", "on"})
=============================================================================
