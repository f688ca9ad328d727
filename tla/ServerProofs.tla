---------------------------- MODULE ServerProofs ----------------------------
(***************************************************************************)
(* ServerInv holds for every finite set of connections, any numbering of   *)
(* their sessions and every limit: the counter is exact, every task is     *)
(* deleted once, get_connection is safe and nothing outlives wait_finish.  *)
(***************************************************************************)
EXTENDS Server, FiniteSetTheorems, TLAPS

TaskAt == {"none", "new", "process", "pop", "run", "last", "reply", "callback", "over"}
TaskType == [at : TaskAt, reply : BOOLEAN, flag : BOOLEAN, last : BOOLEAN, queue : Nat,
             cancel : BOOLEAN, held : BOOLEAN, dels : Nat]

ServerTypeOK ==
  /\ conn \in [Conns -> {"none", "pending", "open", "alive", "closing", "closed"}]
  /\ sess \in [Conns -> [Sess -> {"none", "in", "given", "ready", "busy", "done", "end"}]]
  /\ acc \in [Conns -> {"none", "over", "refused", "in", "drained", "out"}]
  /\ task \in [Conns -> [Sess -> TaskType]]
  /\ base \in BOOLEAN /\ unbound \in {0, 1}

(* Where a task is, against what the communicator knows of its session s: the
   task is still the last one of its series only before the reply, the series
   holds the task until the end, and the flag of the processor is set only
   while the communicator is calling the task back.                        *)
Fits(tk, s) ==
  /\ tk.dels = IF s = "end" THEN 1 ELSE 0
  /\ tk.at = "none" <=> s = "none"
  /\ tk.at = "new" <=> s = "in"
  /\ tk.at = "process" <=> s = "given"
  /\ tk.at = "over" <=> s = "end"
  /\ tk.at \in {"pop", "last"} => s = "ready"
  /\ tk.at = "run" => s \in {"ready", "done"}
  /\ tk.at = "reply" => s = "busy"
  /\ tk.at = "callback" => s \in {"busy", "done"}
  /\ tk.at \notin {"none", "new", "over"} => tk.held
  /\ tk.at = "last" => ~tk.last
  /\ tk.last => s \in {"given", "ready"}
  /\ tk.flag => s # "ready"
  /\ tk.flag /\ tk.at = "callback" => s = "busy"

TasksFit == \A c \in Conns, i \in Sess : Fits(task[c][i], sess[c][i])

(* A session in the hands of the communicator has its connection. *)
SessionsHaveConnections == \A c \in Conns, i \in Sess :
  sess[c][i] \in {"in", "given", "busy"} => conn[c] \in {"open", "alive", "closing"}

(* Which connections the counter counts; an idle one is never being drained. *)
PlaceFits(a, k) ==
  /\ k = "none" => a = "none"
  /\ k = "pending" => a \in {"none", "over", "refused", "in"}
  /\ k \in {"open", "alive"} => a = "in"
  /\ k = "closing" => a \in {"in", "drained"}
  /\ k = "closed" => a = "out"

PlacesFit == \A c \in Conns : PlaceFits(acc[c], conn[c])

(* handle_unbound comes when nothing is left, and the server is over after it. *)
OwnerFits ==
  /\ unbound = 1 => ~base /\ \A c \in Conns : ~Held(c)
  /\ server \in {"off", "unbound"} => unbound = 1
  /\ unbind_finish => server = "unbound"

ServerIInv == /\ ServerTypeOK /\ TasksFit /\ SessionsHaveConnections /\ PlacesFit
              /\ OwnerFits /\ CountExact

-----------------------------------------------------------------------------
(* A step of the server is one of its owner, or the owner does nothing and it
   is a step that module Service allows or none of the service at all.     *)
ServiceStep == (ServiceNext \/ UNCHANGED service_vars) /\ UNCHANGED <<server, unbind_finish>>

LEMMA ServerUsesService ==
  ASSUME [ServerNext]_server_vars
  PROVE  Start \/ Shutdown \/ HandleUnbound \/ WaitReturns \/ ServiceStep
<1>1. CASE Unbinds
  BY <1>1 DEF Unbinds, Apart, owner_vars, ServiceNext, ServiceStep
<1>2. ASSUME NEW c \in Conns,
             \/ Arrive(c) \/ AcceptStep(c) \/ Idles(c) \/ Resumes(c) \/ StartsClosing(c)
             \/ DeleteConnection(c) \/ DrainsAll(c)
      PROVE  ServiceStep
  BY <1>2 DEF Arrive, AcceptStep, NewConnection, DrainsOne, DrainsNone, Refused, Admitted,
     NotAdded, Idles, Resumes, StartsClosing, DeleteConnection, DrainsAll, Apart, owner_vars,
     ServiceNext, ServiceStep
<1>3. ASSUME NEW c \in Conns, NEW i \in Sess,
             ServerTask(c, i) \/ TaskStep(c, i) \/ UserStep(c, i)
      PROVE  ServiceStep
  <2>1. CASE ServerTask(c, i)
    BY <2>1 DEF ServerTask, Become, Rest, owner_vars, ServiceNext, ServiceStep
  <2>2. CASE UserStep(c, i)
    BY <2>2 DEF UserStep, NoReply, PushBack, CancelSeries, User, ServiceStep
  <2>3. CASE TaskStep(c, i)
    <3>1. UNCHANGED <<server, unbind_finish>>
      BY <2>3 DEF TaskStep, HandleFailed, HandleToReply, ProcessReturned, PopNext,
         DispatchReply, DispatchFails, DispatchShutdown, HandleReplied, Done, Become, Rest,
         owner_vars
    <3>2. ServiceNext \/ UNCHANGED service_vars
      BY <2>3 DEF TaskStep, HandleFailed, HandleToReply, ProcessReturned, PopNext,
         DispatchReply, DispatchFails, DispatchShutdown, HandleReplied, Done, ServiceNext
    <3> QED BY <3>1, <3>2 DEF ServiceStep
  <2> QED BY <1>3, <2>1, <2>2, <2>3
<1>4. CASE UNCHANGED server_vars \/ WaitFinish \/ ServerFinished
  BY <1>4 DEF WaitFinish, ServerFinished, server_vars, owner_vars, ServiceStep
<1> QED BY <1>1, <1>2, <1>3, <1>4 DEF ServerNext

(* Every step of a service may call handle_unbound, and none is possible after
   that.                                                                   *)
LEMMA ServiceSettles ==
  ASSUME ServerTypeOK, OwnerFits, ServiceNext
  PROVE  unbound = 0 /\ Settle
<1>1. Settle
  BY DEF ServiceNext, Connect, Admit, Refuse, KeepAlive, LeaveAlive, Drain, StartClose, Close,
     NewSession, Deliver, Delivered, ReceiveFails, StartReply, RepliedKept, RepliedEnd,
     ReplyRefused, ShutdownSession, DropSession, DeleteSession, ReleaseBase, Callback, Move,
     Turn
<1>2. ASSUME unbound = 1 PROVE FALSE
  <2>1. ~base /\ \A c \in Conns : /\ conn[c] \in {"none", "closed"}
                                  /\ \A i \in Sess : sess[c][i] \in {"none", "end"}
    BY <1>2 DEF OwnerFits, Held
  <2>2. ASSUME NEW c \in Conns,
               \/ Connect(c) \/ Admit(c) \/ Refuse(c) \/ KeepAlive(c) \/ LeaveAlive(c)
               \/ Drain(c) \/ StartClose(c) \/ Close(c)
        PROVE  FALSE
    BY <2>1, <2>2 DEF Connect, Admit, Refuse, KeepAlive, LeaveAlive, Drain, StartClose, Close,
       Move
  <2>3. ASSUME NEW c \in Conns, NEW i \in Sess,
               \/ NewSession(c, i) \/ Deliver(c, i) \/ Delivered(c, i) \/ ReceiveFails(c, i)
               \/ StartReply(c, i) \/ RepliedKept(c, i) \/ RepliedEnd(c, i)
               \/ ReplyRefused(c, i) \/ ShutdownSession(c, i) \/ DropSession(c, i)
               \/ DeleteSession(c, i)
        PROVE  FALSE
    BY <2>1, <2>3 DEF NewSession, Deliver, Delivered, ReceiveFails, StartReply, RepliedKept,
       RepliedEnd, ReplyRefused, ShutdownSession, DropSession, DeleteSession, Callback, Turn
  <2>4. ~ReleaseBase
    BY <2>1 DEF ReleaseBase
  <2> QED BY <2>2, <2>3, <2>4 DEF ServiceNext
<1> QED BY <1>1, <1>2 DEF ServerTypeOK

(* OwnerFits: the owner is told of the end when there is nothing left. *)
LEMMA OwnerStep ==
  ASSUME ServerTypeOK, OwnerFits, [ServerNext]_server_vars
  PROVE  OwnerFits'
<1>1. CASE Start
  BY <1>1 DEF OwnerFits, Start
<1>2. CASE ServiceNext /\ UNCHANGED <<server, unbind_finish>>
  <2>1. unbound = 0 /\ Settle
    BY <1>2, ServiceSettles
  <2>2. unbound' = 1 => ~base' /\ \A c \in Conns : ~Held(c)'
    BY <2>1 DEF Settle
  <2> QED BY <1>2, <2>1, <2>2 DEF OwnerFits
<1>3. CASE UNCHANGED service_vars
           /\ (UNCHANGED <<server, unbind_finish>> \/ Shutdown \/ HandleUnbound \/ WaitReturns)
  <2>1. \A c \in Conns : Held(c)' = Held(c)
    BY <1>3 DEF Held, service_vars
  <2> QED BY <1>3, <2>1 DEF OwnerFits, service_vars, Shutdown, HandleUnbound, WaitReturns,
             Remembered
<1> QED BY Zenon, <1>1, <1>2, <1>3, ServerUsesService DEF ServiceStep, Shutdown, HandleUnbound,
           WaitReturns

(* What Turn does to the sessions. *)
LEMMA TurnEffect ==
  ASSUME ServerTypeOK, NEW c \in Conns, NEW i \in Sess, NEW from,
         NEW to \in {"none", "in", "given", "ready", "busy", "done", "end"},
         Turn(c, i, from, to)
  PROVE  /\ sess' \in [Conns -> [Sess -> {"none", "in", "given", "ready", "busy", "done", "end"}]]
         /\ sess[c][i] = from
         /\ sess'[c][i] = to
         /\ \A d \in Conns, j \in Sess : d # c \/ j # i => sess'[d][j] = sess[d][j]
         /\ UNCHANGED base /\ Settle
BY DEF Turn, ServerTypeOK

(* A step of the service keeps the types of its variables, and a connection
   that has a session in the hands of the communicator.                    *)
LEMMA ServiceKeeps ==
  ASSUME ServerTypeOK, SessionsHaveConnections, ServiceNext
  PROVE  /\ conn' \in [Conns -> {"none", "pending", "open", "alive", "closing", "closed"}]
         /\ sess' \in [Conns -> [Sess -> {"none", "in", "given", "ready", "busy", "done", "end"}]]
         /\ base' \in BOOLEAN /\ unbound' \in {0, 1}
         /\ SessionsHaveConnections'
<1>1. ASSUME NEW c \in Conns,
             \/ Connect(c) \/ Admit(c) \/ Refuse(c) \/ KeepAlive(c) \/ LeaveAlive(c)
             \/ Drain(c) \/ StartClose(c)
      PROVE  /\ conn' \in [Conns -> {"none", "pending", "open", "alive", "closing", "closed"}]
             /\ UNCHANGED <<sess, base>> /\ Settle
             /\ SessionsHaveConnections'
  BY Zenon, <1>1 DEF Connect, Admit, Refuse, KeepAlive, LeaveAlive, Drain, StartClose, Move,
     ServerTypeOK, SessionsHaveConnections
<1>2. ASSUME NEW c \in Conns, Close(c)
      PROVE  /\ conn' \in [Conns -> {"none", "pending", "open", "alive", "closing", "closed"}]
             /\ UNCHANGED <<sess, base>> /\ Settle
             /\ SessionsHaveConnections'
  BY <1>2 DEF Close, Move, ServerTypeOK, SessionsHaveConnections
<1>3. ASSUME NEW c \in Conns, NEW i \in Sess,
             \/ NewSession(c, i) \/ Deliver(c, i) \/ Delivered(c, i) \/ ReceiveFails(c, i)
             \/ RepliedKept(c, i) \/ RepliedEnd(c, i) \/ ReplyRefused(c, i)
             \/ DeleteSession(c, i)
      PROVE  /\ sess' \in [Conns -> [Sess -> {"none", "in", "given", "ready", "busy", "done", "end"}]]
             /\ UNCHANGED <<conn, base>> /\ Settle
             /\ SessionsHaveConnections'
  <2>1. /\ UNCHANGED conn
        /\ \E from, to \in {"none", "in", "given", "ready", "busy", "done", "end"} :
             /\ Turn(c, i, from, to)
             /\ to \in {"in", "given", "busy"} => \/ from \in {"in", "given", "busy"}
                                                 \/ conn[c] = "open"
    BY <1>3 DEF NewSession, Deliver, Delivered, ReceiveFails, RepliedKept, RepliedEnd,
       ReplyRefused, DeleteSession, Callback
  <2> QED BY <2>1, TurnEffect DEF SessionsHaveConnections
<1>4. ASSUME NEW c \in Conns, NEW i \in Sess,
             StartReply(c, i) \/ ShutdownSession(c, i) \/ DropSession(c, i)
      PROVE  /\ conn' \in [Conns -> {"none", "pending", "open", "alive", "closing", "closed"}]
             /\ sess' \in [Conns -> [Sess -> {"none", "in", "given", "ready", "busy", "done", "end"}]]
             /\ UNCHANGED base /\ Settle
             /\ SessionsHaveConnections'
  <2>1. /\ MayClose(c)
        /\ \E to \in {"busy", "done", "end"} :
             Turn(c, i, "ready", to) /\ (to = "busy" => conn[c] = "open")
    BY <1>4 DEF StartReply, ShutdownSession, DropSession
  <2>2. PICK to \in {"busy", "done", "end"} :
          Turn(c, i, "ready", to) /\ (to = "busy" => conn[c] = "open")
    BY <2>1
  <2>3. /\ conn' \in [Conns -> {"none", "pending", "open", "alive", "closing", "closed"}]
        /\ \A d \in Conns : conn'[d] = conn[d] \/ (conn[d] = "open" /\ conn'[d] = "closing")
    <3>1. conn \in [Conns -> {"none", "pending", "open", "alive", "closing", "closed"}]
      BY DEF ServerTypeOK
    <3>2. CASE UNCHANGED conn
      BY <3>1, <3>2
    <3>3. CASE conn[c] = "open" /\ conn' = [conn EXCEPT ![c] = "closing"]
      BY <3>1, <3>3
    <3> QED BY <2>1, <3>2, <3>3 DEF MayClose
  <2>4. /\ sess' \in [Conns -> [Sess -> {"none", "in", "given", "ready", "busy", "done", "end"}]]
        /\ sess'[c][i] = to
        /\ \A d \in Conns, j \in Sess : d # c \/ j # i => sess'[d][j] = sess[d][j]
        /\ UNCHANGED base /\ Settle
    BY <2>2, TurnEffect
  <2>5. SessionsHaveConnections'
    BY <2>2, <2>3, <2>4 DEF SessionsHaveConnections
  <2> QED BY <2>3, <2>4, <2>5
<1>5. CASE ReleaseBase
  BY Zenon, <1>5 DEF ReleaseBase, Settle, ServerTypeOK, SessionsHaveConnections
<1>6. Settle => unbound' \in {0, 1}
  BY DEF Settle
<1> QED BY <1>1, <1>2, <1>3, <1>4, <1>5, <1>6 DEF ServiceNext, ServerTypeOK

(* SeriesWork::pop (Workflow.cc:105-118) deletes the task at the end of the
   series, once, or goes on with what is queued or with the task itself.   *)
LEMMA PoppedFits ==
  ASSUME NEW tk \in TaskType, NEW s, Fits(tk, s), tk.at \in {"pop", "run", "callback"}
  PROVE  /\ Popped(tk) \in TaskType
         /\ \/ Popped(tk).at = "over" /\ Fits(Popped(tk), "end")
            \/ Popped(tk).at = "run" /\ Fits(Popped(tk), IF s = "busy" THEN "done" ELSE s)
            \/ Popped(tk).at = "last" /\ s = "ready" /\ Fits(Popped(tk), s)
<1> DEFINE over == [NoServerTask EXCEPT !.at = "over", !.dels = 1]
<1>1. over \in TaskType /\ over.at = "over" /\ Fits(over, "end")
  <2>1. /\ NoServerTask \in TaskType
        /\ NoServerTask.last = FALSE /\ NoServerTask.flag = FALSE
    BY DEF NoServerTask, TaskType, TaskAt
  <2>2. over \in TaskType
    BY <2>1, Zenon DEF TaskType, TaskAt
  <2>3. over.at = "over" /\ over.dels = 1 /\ over.last = FALSE /\ over.flag = FALSE
    BY <2>1 DEF TaskType
  <2>4. Fits(over, "end")
    <3> HIDE DEF over
    <3> QED BY <2>3 DEF Fits
  <2> QED BY <2>2, <2>3, <2>4
<1>2. tk.dels = 0 /\ tk.held
  BY DEF Fits
<1>b. SeriesDeleted(tk) = over
  <2>1. tk.dels + (IF tk.held THEN 1 ELSE 0) = 1
    BY <1>2
  <2> QED BY Zenon, <2>1 DEF SeriesDeleted
<1>3. CASE tk.cancel
  <2>1. Popped(tk) = SeriesDeleted(PopDeletesLast(tk))
    BY <1>3 DEF Popped
  <2>2. CASE tk.last
    <3>1. PopDeletesLast(tk).dels = 1 /\ PopDeletesLast(tk).held = FALSE
      BY <1>2, <2>2 DEF PopDeletesLast, AfterDelete, TaskType
    <3>2. PopDeletesLast(tk).dels + (IF PopDeletesLast(tk).held THEN 1 ELSE 0) = 1
      BY <3>1
    <3>3. SeriesDeleted(PopDeletesLast(tk)) = over
      BY Zenon, <3>2 DEF SeriesDeleted
    <3> QED BY <1>1, <2>1, <3>3
  <2>3. CASE ~tk.last
    <3>1. PopDeletesLast(tk) = tk
      BY <2>3 DEF PopDeletesLast
    <3> QED BY Zenon, <1>1, <1>b, <2>1, <3>1
  <2> QED BY <2>2, <2>3
<1>4. CASE ~tk.cancel /\ tk.queue > 0
  <2> DEFINE p == [tk EXCEPT !.at = "run", !.queue = tk.queue - 1]
  <2>1. Popped(tk) = p
    BY <1>4 DEF Popped
  <2>2. p \in TaskType
    <3>1. tk.queue - 1 \in Nat
      BY <1>4 DEF TaskType
    <3> QED BY <3>1, Zenon DEF TaskType, TaskAt
  <2>3. p.at = "run" /\ p.dels = tk.dels /\ p.held = tk.held /\ p.last = tk.last
        /\ p.flag = tk.flag
    BY DEF TaskType
  <2>4. Fits(p, IF s = "busy" THEN "done" ELSE s)
    <3> HIDE DEF p
    <3> QED BY <2>3 DEF Fits
  <2> QED BY <2>1, <2>2, <2>3, <2>4
<1>5. CASE ~tk.cancel /\ tk.queue = 0 /\ tk.last
  <2> DEFINE p == [tk EXCEPT !.at = "last", !.last = FALSE]
  <2>1. Popped(tk) = p
    BY <1>5 DEF Popped
  <2>2. p \in TaskType
    BY Zenon DEF TaskType, TaskAt
  <2>3. p.at = "last" /\ p.dels = tk.dels /\ p.held = tk.held /\ p.last = FALSE
        /\ p.flag = tk.flag
    BY DEF TaskType
  <2>4. s = "ready" /\ Fits(p, s)
    <3> HIDE DEF p
    <3> QED BY <1>5, <2>3 DEF Fits
  <2> QED BY <2>1, <2>2, <2>3, <2>4
<1>6. CASE ~tk.cancel /\ tk.queue = 0 /\ ~tk.last
  <2>1. Popped(tk) = SeriesDeleted(tk)
    BY <1>6 DEF Popped
  <2> QED BY <1>1, <1>b, <2>1
<1> QED BY <1>3, <1>4, <1>5, <1>6 DEF TaskType

(* A step of one task, with what becomes of its session: the others still fit. *)
LEMMA OneTask ==
  ASSUME ServerTypeOK, TasksFit, NEW c \in Conns, NEW i \in Sess, NEW p \in TaskType,
         task' = [task EXCEPT ![c][i] = p],
         Fits(p, sess'[c][i]),
         \A d \in Conns, j \in Sess : d # c \/ j # i => sess'[d][j] = sess[d][j]
  PROVE  task' \in [Conns -> [Sess -> TaskType]] /\ TasksFit'
<1>1. task \in [Conns -> [Sess -> TaskType]]
  BY DEF ServerTypeOK
<1>2. /\ task' \in [Conns -> [Sess -> TaskType]]
      /\ task'[c][i] = p
      /\ \A d \in Conns, j \in Sess : d # c \/ j # i => task'[d][j] = task[d][j]
  BY <1>1
<1>3. ASSUME NEW d \in Conns, NEW j \in Sess PROVE Fits(task'[d][j], sess'[d][j])
  <2>1. CASE d = c /\ j = i
    BY <1>2, <2>1
  <2>2. CASE d # c \/ j # i
    <3>1. task'[d][j] = task[d][j] /\ sess'[d][j] = sess[d][j]
      BY <1>2, <2>2
    <3> QED BY <3>1 DEF TasksFit
  <2> QED BY <2>1, <2>2
<1> QED BY <1>2, <1>3 DEF TasksFit

(* What dispatching, process or the callback of one WFServerTask leaves of all
   the tasks of the server.                                                 *)
LEMMA TurnTask ==
  ASSUME ServerTypeOK, TasksFit, NEW c \in Conns, NEW i \in Sess, NEW p \in TaskType,
         NEW from, NEW to \in {"none", "in", "given", "ready", "busy", "done", "end"},
         task' = [task EXCEPT ![c][i] = p],
         Turn(c, i, from, to),
         Fits(p, to)
  PROVE  task' \in [Conns -> [Sess -> TaskType]] /\ TasksFit'
<1>1. /\ sess'[c][i] = to
      /\ \A d \in Conns, j \in Sess : d # c \/ j # i => sess'[d][j] = sess[d][j]
  BY TurnEffect
<1>2. Fits(p, sess'[c][i])
  BY <1>1
<1> QED BY Zenon, <1>1, <1>2, OneTask

(* The steps of WFServerTask, its processor and its series keep the task in
   agreement with its session.                                             *)
LEMMA TaskSteps ==
  ASSUME ServerTypeOK, TasksFit, NEW c \in Conns, NEW i \in Sess,
         ServerTask(c, i) \/ TaskStep(c, i) \/ UserStep(c, i)
  PROVE  task' \in [Conns -> [Sess -> TaskType]] /\ TasksFit'
<1> DEFINE tk == task[c][i]
           s == sess[c][i]
<1>1. tk \in TaskType /\ Fits(tk, s)
  BY DEF ServerTypeOK, TasksFit
<1> HIDE DEF tk, s
<1>2. CASE ServerTask(c, i)
  <2> DEFINE p == [NoServerTask EXCEPT !.at = "new"]
  <2>1. task' = [task EXCEPT ![c][i] = p] /\ Turn(c, i, "none", "in")
    BY <1>2 DEF ServerTask, Become, NewSession
  <2>2. /\ NoServerTask \in TaskType /\ NoServerTask.dels = 0
        /\ NoServerTask.last = FALSE /\ NoServerTask.flag = FALSE
    BY DEF NoServerTask, TaskType, TaskAt
  <2>3. p \in TaskType /\ p.at = "new" /\ p.dels = 0 /\ p.last = FALSE /\ p.flag = FALSE
    BY <2>2 DEF TaskType, TaskAt
  <2> HIDE DEF p
  <2>4. Fits(p, "in")
    BY <2>3 DEF Fits
  <2> QED BY Zenon, <2>1, <2>3, <2>4, TurnTask
<1>3. CASE HandleFailed(c, i)
  <2> DEFINE p == [tk EXCEPT !.at = "over", !.dels = tk.dels + 1]
  <2>1. task' = [task EXCEPT ![c][i] = p] /\ Turn(c, i, "in", "end")
    BY <1>3 DEF HandleFailed, ReceiveFails, Callback, Become, tk
  <2>2. s = "in"
    BY <2>1, TurnEffect DEF s
  <2>3. tk.dels + 1 = 1 /\ ~tk.last
    BY <1>1, <2>2 DEF Fits
  <2>4. p \in TaskType
    <3>1. tk.dels + 1 \in Nat
      BY <2>3
    <3> QED BY <1>1, <3>1, Zenon DEF TaskType, TaskAt
  <2>5. p.at = "over" /\ p.dels = 1 /\ p.last = tk.last
    BY <1>1, <2>3 DEF TaskType
  <2> HIDE DEF p
  <2>6. Fits(p, "end")
    BY <2>3, <2>5 DEF Fits
  <2> QED BY Zenon, <2>1, <2>4, <2>6, TurnTask
<1>4. CASE HandleToReply(c, i)
  <2> DEFINE p == [tk EXCEPT !.at = "process", !.reply = TRUE, !.flag = TRUE, !.last = TRUE,
                             !.held = TRUE]
  <2>1. task' = [task EXCEPT ![c][i] = p] /\ Turn(c, i, "in", "given")
    BY <1>4 DEF HandleToReply, Deliver, Callback, Become, tk
  <2>2. tk.dels = 0
    BY <1>1, <2>1, TurnEffect DEF Fits, s
  <2>3. p \in TaskType
    BY Zenon, <1>1 DEF TaskType, TaskAt
  <2>4. p.at = "process" /\ p.held = TRUE /\ p.dels = tk.dels
    BY <1>1 DEF TaskType
  <2> HIDE DEF p
  <2>5. Fits(p, "given")
    BY <2>2, <2>4 DEF Fits
  <2> QED BY Zenon, <2>1, <2>3, <2>5, TurnTask
<1>5. CASE ProcessReturned(c, i)
  <2> DEFINE p == [tk EXCEPT !.at = "pop", !.flag = FALSE]
  <2>1. task' = [task EXCEPT ![c][i] = p] /\ Turn(c, i, "given", "ready")
    BY <1>5 DEF ProcessReturned, Delivered, Callback, Become, tk
  <2>2. tk.dels = 0 /\ tk.held
    BY <1>1, <2>1, TurnEffect DEF Fits, s
  <2>3. p \in TaskType
    BY Zenon, <1>1 DEF TaskType, TaskAt
  <2>4. p.at = "pop" /\ p.flag = FALSE /\ p.held = tk.held /\ p.dels = tk.dels
    BY <1>1 DEF TaskType
  <2> HIDE DEF p
  <2>5. Fits(p, "ready")
    BY <2>2, <2>4 DEF Fits
  <2> QED BY Zenon, <2>1, <2>3, <2>5, TurnTask
<1>6. CASE PopNext(c, i)
  <2> DEFINE p == Popped(tk)
  <2>1. /\ tk.at \in {"pop", "run"}
        /\ task' = [task EXCEPT ![c][i] = p]
        /\ p.at = "over" => Turn(c, i, "ready", "end") \/ Turn(c, i, "done", "end")
        /\ p.at # "over" => UNCHANGED sess
    BY <1>6 DEF PopNext, Become, DropSession, DeleteSession, service_vars, tk
  <2>2. s # "busy"
    BY <1>1, <2>1 DEF Fits
  <2>3. /\ p \in TaskType
        /\ p.at = "over" => Fits(p, "end")
        /\ p.at # "over" => Fits(p, s)
    BY <1>1, <2>1, <2>2, PoppedFits
  <2> HIDE DEF p
  <2>4. CASE p.at = "over"
    BY Zenon, <2>1, <2>3, <2>4, TurnTask
  <2>5. CASE p.at # "over"
    <3>1. Fits(p, sess'[c][i])
      BY <2>1, <2>3, <2>5 DEF s
    <3> QED BY Zenon, <2>1, <2>3, <2>5, <3>1, OneTask
  <2> QED BY <2>4, <2>5
<1>7. CASE DispatchReply(c, i)
  <2> DEFINE p == [tk EXCEPT !.at = "reply", !.flag = TRUE]
  <2>1. tk.at = "last" /\ task' = [task EXCEPT ![c][i] = p] /\ Turn(c, i, "ready", "busy")
    BY <1>7 DEF DispatchReply, StartReply, Become, tk
  <2>2. tk.dels = 0 /\ tk.held /\ ~tk.last
    BY <1>1, <2>1 DEF Fits
  <2>3. p \in TaskType
    BY Zenon, <1>1 DEF TaskType, TaskAt
  <2>4. p.at = "reply" /\ p.last = tk.last /\ p.held = tk.held /\ p.dels = tk.dels
    BY <1>1 DEF TaskType
  <2> HIDE DEF p
  <2>5. Fits(p, "busy")
    BY <2>2, <2>4 DEF Fits
  <2> QED BY Zenon, <2>1, <2>3, <2>5, TurnTask
<1>8. CASE DispatchFails(c, i)
  <2> DEFINE p == [tk EXCEPT !.at = "callback", !.reply = FALSE, !.flag = FALSE]
  <2>1. tk.at = "last" /\ task' = [task EXCEPT ![c][i] = p] /\ Turn(c, i, "ready", "done")
    BY <1>8 DEF DispatchFails, ReplyRefused, Become, tk
  <2>2. tk.dels = 0 /\ tk.held /\ ~tk.last
    BY <1>1, <2>1 DEF Fits
  <2>3. p \in TaskType
    BY Zenon, <1>1 DEF TaskType, TaskAt
  <2>4. p.at = "callback" /\ p.flag = FALSE /\ p.last = tk.last /\ p.held = tk.held
        /\ p.dels = tk.dels
    BY <1>1 DEF TaskType
  <2> HIDE DEF p
  <2>5. Fits(p, "done")
    BY <2>2, <2>4 DEF Fits
  <2> QED BY Zenon, <2>1, <2>3, <2>5, TurnTask
<1>9. CASE DispatchShutdown(c, i)
  <2> DEFINE p == [tk EXCEPT !.at = "callback"]
  <2>1. tk.at = "last" /\ task' = [task EXCEPT ![c][i] = p] /\ Turn(c, i, "ready", "done")
    BY <1>9 DEF DispatchShutdown, ShutdownSession, Become, tk
  <2>2. tk.dels = 0 /\ tk.held /\ ~tk.last /\ ~tk.flag
    BY <1>1, <2>1 DEF Fits
  <2>3. p \in TaskType
    BY <1>1 DEF TaskType, TaskAt
  <2>4. p.at = "callback" /\ p.flag = tk.flag /\ p.last = tk.last /\ p.held = tk.held
        /\ p.dels = tk.dels
    BY <1>1 DEF TaskType
  <2> HIDE DEF p
  <2>5. Fits(p, "done")
    BY <2>2, <2>4 DEF Fits
  <2> QED BY Zenon, <2>1, <2>3, <2>5, TurnTask
<1>10. CASE HandleReplied(c, i)
  <2> DEFINE p == [tk EXCEPT !.at = "callback", !.reply = FALSE]
  <2>1. tk.at = "reply" /\ task' = [task EXCEPT ![c][i] = p] /\ UNCHANGED sess
    BY <1>10 DEF HandleReplied, Become, service_vars, tk
  <2>2. tk.dels = 0 /\ tk.held /\ ~tk.last /\ s = "busy"
    BY <1>1, <2>1 DEF Fits
  <2>3. p \in TaskType
    BY Zenon, <1>1 DEF TaskType, TaskAt
  <2>4. p.at = "callback" /\ p.last = tk.last /\ p.held = tk.held /\ p.dels = tk.dels
    BY <1>1 DEF TaskType
  <2> HIDE DEF p
  <2>5. Fits(p, sess'[c][i])
    BY <2>1, <2>2, <2>4 DEF Fits, s
  <2> QED BY Zenon, <2>1, <2>3, <2>5, OneTask
<1>11. CASE Done(c, i)
  <2> DEFINE p == Popped(tk)
  <2>1. /\ tk.at = "callback"
        /\ task' = [task EXCEPT ![c][i] = p]
        /\ p.at = "over" => Turn(c, i, "busy", "end") \/ Turn(c, i, "done", "end")
        /\ p.at # "over" /\ s = "busy" => Turn(c, i, "busy", "done")
        /\ p.at # "over" /\ s # "busy" => UNCHANGED sess
    BY <1>11 DEF Done, Become, RepliedEnd, RepliedKept, DeleteSession, Callback, service_vars,
       tk, s
  <2>2. s \in {"busy", "done"}
    BY <1>1, <2>1 DEF Fits
  <2>3. /\ p \in TaskType
        /\ p.at = "over" => Fits(p, "end")
        /\ p.at # "over" => Fits(p, "done")
    BY <1>1, <2>1, <2>2, PoppedFits
  <2> HIDE DEF p
  <2>4. CASE p.at = "over"
    BY Zenon, <2>1, <2>3, <2>4, TurnTask
  <2>5. CASE p.at # "over" /\ s = "busy"
    BY Zenon, <2>1, <2>3, <2>5, TurnTask
  <2>6. CASE p.at # "over" /\ s # "busy"
    <3>1. Fits(p, sess'[c][i])
      BY <2>1, <2>2, <2>3, <2>6 DEF s
    <3> QED BY Zenon, <2>1, <2>3, <2>6, <3>1, OneTask
  <2> QED BY <2>4, <2>5, <2>6
<1>12. CASE UserStep(c, i)
  <2>1. PICK p : /\ task' = [task EXCEPT ![c][i] = p] /\ UNCHANGED sess
                 /\ \/ p = [tk EXCEPT !.reply = FALSE]
                    \/ p = [tk EXCEPT !.queue = tk.queue + 1]
                    \/ p = [tk EXCEPT !.cancel = TRUE]
    BY Zenon, <1>12 DEF UserStep, NoReply, PushBack, CancelSeries, User, service_vars, tk
  <2>2. tk.queue + 1 \in Nat
    BY <1>1 DEF TaskType
  <2>3. p \in TaskType
    BY Zenon, <1>1, <2>1, <2>2 DEF TaskType, TaskAt
  <2>4. p.at = tk.at /\ p.flag = tk.flag /\ p.last = tk.last /\ p.held = tk.held
        /\ p.dels = tk.dels
    BY <1>1, <2>1 DEF TaskType
  <2>5. Fits(p, sess'[c][i])
    BY <1>1, <2>1, <2>4 DEF Fits, s
  <2> QED BY Zenon, <2>1, <2>3, <2>5, OneTask
<1> QED BY <1>2, <1>3, <1>4, <1>5, <1>6, <1>7, <1>8, <1>9, <1>10, <1>11, <1>12 DEF TaskStep

(* The steps of connections and of the owner leave tasks and sessions alone. *)
LEMMA OtherSteps ==
  ASSUME ServerTypeOK, TasksFit, [ServerNext]_server_vars
  PROVE  task' \in [Conns -> [Sess -> TaskType]] /\ TasksFit'
<1>1. CASE UNCHANGED <<task, sess>>
  BY <1>1 DEF ServerTypeOK, TasksFit
<1>2. CASE \E c \in Conns, i \in Sess : ServerTask(c, i) \/ TaskStep(c, i) \/ UserStep(c, i)
  BY <1>2, TaskSteps
<1>3. ASSUME NEW c \in Conns,
             \/ Arrive(c) \/ AcceptStep(c) \/ Idles(c) \/ Resumes(c) \/ StartsClosing(c)
             \/ DeleteConnection(c) \/ DrainsAll(c)
      PROVE  UNCHANGED <<task, sess>>
  BY <1>3 DEF Arrive, AcceptStep, NewConnection, DrainsOne, DrainsNone, Refused, Admitted,
     NotAdded, Idles, Resumes, StartsClosing, DeleteConnection, DrainsAll, Apart, Connect,
     Admit, Refuse, KeepAlive, LeaveAlive, Drain, StartClose, Close, Move, service_vars
<1>4. Start \/ Shutdown \/ HandleUnbound \/ WaitFinish \/ WaitReturns \/ Unbinds
      \/ ServerFinished \/ UNCHANGED server_vars => UNCHANGED <<task, sess>>
  BY DEF Start, Shutdown, HandleUnbound, WaitFinish, WaitReturns, Unbinds, Apart, ReleaseBase,
     ServerFinished, server_vars, service_vars
<1> QED BY <1>1, <1>2, <1>3, <1>4 DEF ServerNext

-----------------------------------------------------------------------------
Inside == {c \in Conns : acc[c] = "in"}

(* What a step may do to the counter and the places that it counts. *)
SamePlaces == UNCHANGED conn_count /\ Counted' = Counted /\ Inside' \subseteq Inside
GivesBack(c) == /\ c \in Counted /\ conn_count' = conn_count - 1
                /\ Counted' = Counted \ {c} /\ Inside' \subseteq Inside
Takes(c) == /\ c \notin Counted /\ conn_count' = conn_count + 1
            /\ Counted' = Counted \cup {c}
            /\ ~(conn_count + 1 <= max_connections) => Inside' \subseteq Inside
Swaps(c, d) == /\ c \notin Inside /\ d \in Inside /\ UNCHANGED conn_count
               /\ Counted' = Counted /\ Inside' = (Inside \ {d}) \cup {c}
PlacesMove == SamePlaces \/ \E c \in Conns : \/ GivesBack(c) \/ Takes(c)
                                           \/ \E d \in Conns : Swaps(c, d)

(* Each of these keeps the counter exact and the limit. *)
LEMMA CountStep ==
  ASSUME CountExact, PlacesMove
  PROVE  CountExact'
<1>1. /\ IsFiniteSet(Counted) /\ IsFiniteSet(Inside) /\ Inside \subseteq Counted
      /\ Inside' \subseteq Counted'
  BY ConnsAssumption, FS_Subset DEF Counted, Inside
<1>2. /\ conn_count = Cardinality(Counted) /\ conn_count \in Nat
      /\ Cardinality(Inside) <= max_connections /\ Cardinality(Inside) \in Nat
  BY <1>1, FS_CardinalityType DEF CountExact, Inside
<1>3. SUFFICES conn_count' = Cardinality(Counted') /\ Cardinality(Inside') <= max_connections
  BY DEF CountExact, Inside
<1>4. ASSUME Inside' \subseteq Inside PROVE Cardinality(Inside') <= max_connections
  <2>1. Cardinality(Inside') \in Nat /\ Cardinality(Inside') <= Cardinality(Inside)
    BY <1>1, <1>4, FS_Subset, FS_CardinalityType
  <2> QED BY <1>2, <2>1, LimitAssumption
<1>5. CASE SamePlaces
  BY <1>2, <1>4, <1>5 DEF SamePlaces
<1>6. ASSUME NEW c \in Conns, GivesBack(c)
      PROVE  conn_count' = Cardinality(Counted') /\ Cardinality(Inside') <= max_connections
  BY Zenon, <1>1, <1>2, <1>4, <1>6, FS_RemoveElement DEF GivesBack
<1>7. ASSUME NEW c \in Conns, Takes(c)
      PROVE  conn_count' = Cardinality(Counted') /\ Cardinality(Inside') <= max_connections
  <2>1. conn_count' = Cardinality(Counted') /\ IsFiniteSet(Counted')
    BY <1>1, <1>2, <1>7, FS_AddElement DEF Takes
  <2>2. CASE ~(conn_count + 1 <= max_connections)
    BY <1>4, <1>7, <2>1, <2>2 DEF Takes
  <2>3. CASE conn_count + 1 <= max_connections
    <3>1. /\ Cardinality(Inside') \in Nat
          /\ Cardinality(Inside') <= Cardinality(Counted')
      BY <1>1, <2>1, FS_Subset, FS_CardinalityType
    <3> QED BY <1>2, <1>7, <2>1, <2>3, <3>1, LimitAssumption DEF Takes
  <2> QED BY <2>2, <2>3
<1>8. ASSUME NEW c \in Conns, NEW d \in Conns, Swaps(c, d)
      PROVE  conn_count' = Cardinality(Counted') /\ Cardinality(Inside') <= max_connections
  <2>1. /\ IsFiniteSet(Inside \ {d})
        /\ Cardinality(Inside \ {d}) = Cardinality(Inside) - 1
    BY <1>1, <1>8, FS_RemoveElement DEF Swaps
  <2>2. Cardinality((Inside \ {d}) \cup {c}) = Cardinality(Inside \ {d}) + 1
    BY <1>8, <2>1, FS_AddElement DEF Swaps
  <2> QED BY <1>2, <1>8, <2>1, <2>2 DEF Swaps
<1> QED BY <1>5, <1>6, <1>7, <1>8 DEF PlacesMove

(* The steps that leave acc and conn_count alone: the connection goes on to a
   state in which it has the same place.                                   *)
LEMMA KeepPlaces ==
  ASSUME ServerTypeOK, PlacesFit, UNCHANGED <<acc, conn_count>>,
         \A c \in Conns : PlaceFits(acc[c], conn'[c])
  PROVE  acc' \in [Conns -> {"none", "over", "refused", "in", "drained", "out"}]
         /\ PlacesFit' /\ PlacesMove
BY DEF ServerTypeOK, PlacesFit, PlacesMove, SamePlaces, Counted, Inside

(* The steps of new_connection, delete_connection and drain. *)
LEMMA AcceptSteps ==
  ASSUME ServerTypeOK, PlacesFit, NEW c \in Conns,
         \/ Arrive(c) \/ AcceptStep(c) \/ Idles(c) \/ Resumes(c) \/ StartsClosing(c)
         \/ DeleteConnection(c) \/ DrainsAll(c)
  PROVE  acc' \in [Conns -> {"none", "over", "refused", "in", "drained", "out"}]
         /\ PlacesFit' /\ PlacesMove
<1>1. /\ conn \in [Conns -> {"none", "pending", "open", "alive", "closing", "closed"}]
      /\ acc \in [Conns -> {"none", "over", "refused", "in", "drained", "out"}]
      /\ \A d \in Conns : PlaceFits(acc[d], conn[d])
  BY DEF ServerTypeOK, PlacesFit
<1>2. CASE Arrive(c) \/ Admitted(c) \/ Idles(c) \/ Resumes(c) \/ StartsClosing(c)
  <2>1. UNCHANGED <<acc, conn_count>>
    BY <1>2 DEF Arrive, Admitted, Idles, Resumes, StartsClosing
  <2>2. \A d \in Conns : PlaceFits(acc[d], conn'[d])
    BY <1>1, <1>2 DEF Arrive, Admitted, Idles, Resumes, StartsClosing, Connect, Admit,
       KeepAlive, LeaveAlive, StartClose, Move, PlaceFits
  <2> QED BY <2>1, <2>2, KeepPlaces
<1>3. CASE NewConnection(c)
  <2>1. /\ conn[c] = "pending" /\ acc[c] = "none" /\ UNCHANGED conn
        /\ conn_count' = conn_count + 1
        /\ acc' = [acc EXCEPT ![c] = IF conn_count + 1 <= max_connections THEN "in" ELSE "over"]
    BY <1>3 DEF NewConnection, Stage, service_vars
  <2>2. PICK a \in {"in", "over"} : /\ acc' = [acc EXCEPT ![c] = a]
                                    /\ conn_count + 1 <= max_connections \/ a = "over"
    BY Zenon, <2>1
  <2>3. PlacesFit'
    BY <1>1, <2>1, <2>2 DEF PlacesFit, PlaceFits
  <2>4. /\ c \notin Counted /\ Counted' = Counted \cup {c}
        /\ a = "over" => Inside' \subseteq Inside
    BY <1>1, <2>1, <2>2 DEF Counted, Inside
  <2> QED BY <1>1, <2>1, <2>2, <2>3, <2>4 DEF PlacesMove, Takes
<1>4. CASE DrainsOne(c)
  <2>1. PICK d \in Conns : Drain(d) /\ acc' = [acc EXCEPT ![c] = "in", ![d] = "drained"]
    BY Zenon, <1>4 DEF DrainsOne
  <2>2. /\ acc[c] = "over" /\ conn[c] = "pending" /\ UNCHANGED conn_count
        /\ conn[d] = "alive" /\ acc[d] = "in" /\ c # d
        /\ conn' = [conn EXCEPT ![d] = "closing"]
    BY Zenon, <1>1, <1>4, <2>1 DEF DrainsOne, Drain, Move, PlaceFits
  <2>3. PlacesFit'
    BY <1>1, <2>1, <2>2 DEF PlacesFit, PlaceFits
  <2>4. Swaps(c, d)
    BY <1>1, <2>1, <2>2 DEF Swaps, Counted, Inside
  <2> QED BY <1>1, <2>1, <2>3, <2>4 DEF PlacesMove
<1>5. CASE DrainsNone(c)
  <2>1. /\ acc[c] = "over" /\ acc' = [acc EXCEPT ![c] = "refused"]
        /\ UNCHANGED <<conn, conn_count>>
    BY <1>5 DEF DrainsNone, Stage, service_vars
  <2>2. PlacesFit'
    BY <1>1, <2>1 DEF PlacesFit, PlaceFits
  <2>3. SamePlaces
    BY <1>1, <2>1 DEF SamePlaces, Counted, Inside
  <2> QED BY <1>1, <2>1, <2>2, <2>3 DEF PlacesMove
<1>6. CASE Refused(c) \/ NotAdded(c) \/ DeleteConnection(c)
  <2>1. /\ acc[c] \in {"refused", "in", "drained"} /\ acc' = [acc EXCEPT ![c] = "out"]
        /\ conn' = [conn EXCEPT ![c] = "closed"] /\ conn_count' = conn_count - 1
    BY <1>1, <1>6 DEF Refused, NotAdded, DeleteConnection, Refuse, Close, Move, Stage, PlaceFits
  <2>2. PlacesFit'
    BY <1>1, <2>1 DEF PlacesFit, PlaceFits
  <2>3. GivesBack(c)
    BY <1>1, <2>1 DEF GivesBack, Counted, Inside
  <2> QED BY <1>1, <2>1, <2>2, <2>3 DEF PlacesMove
<1>7. CASE DrainsAll(c)
  <2>1. /\ conn[c] = "alive" /\ acc[c] = "in" /\ acc' = [acc EXCEPT ![c] = "drained"]
        /\ conn' = [conn EXCEPT ![c] = "closing"] /\ UNCHANGED conn_count
    BY <1>1, <1>7 DEF DrainsAll, Drain, Move, Stage, PlaceFits
  <2>2. PlacesFit'
    BY <1>1, <2>1 DEF PlacesFit, PlaceFits
  <2>3. SamePlaces
    BY <1>1, <2>1 DEF SamePlaces, Counted, Inside
  <2> QED BY <1>1, <2>1, <2>2, <2>3 DEF PlacesMove
<1> QED BY <1>2, <1>3, <1>4, <1>5, <1>6, <1>7 DEF AcceptStep

(* The other steps leave the places alone: at most a reply or a shutdown makes
   an open connection a closing one.                                       *)
LEMMA PlaceSteps ==
  ASSUME ServerTypeOK, PlacesFit, [ServerNext]_server_vars
  PROVE  acc' \in [Conns -> {"none", "over", "refused", "in", "drained", "out"}]
         /\ PlacesFit' /\ PlacesMove
<1>1. CASE UNCHANGED <<conn, acc, conn_count>>
  BY <1>1, KeepPlaces DEF PlacesFit
<1>2. ASSUME NEW c \in Conns, NEW i \in Sess,
             ServerTask(c, i) \/ TaskStep(c, i) \/ UserStep(c, i)
      PROVE  \/ UNCHANGED <<conn, acc, conn_count>>
             \/ UNCHANGED <<acc, conn_count>> /\ MayClose(c)
  <2>1. UNCHANGED <<acc, conn_count>>
    BY SMTT(30), <1>2 DEF ServerTask, TaskStep, HandleFailed, HandleToReply, ProcessReturned, PopNext,
       DispatchReply, DispatchFails, DispatchShutdown, HandleReplied, Done, Become, Rest,
       UserStep, NoReply, PushBack, CancelSeries, User
  <2>2. UNCHANGED conn \/ MayClose(c)
    BY <1>2 DEF ServerTask, NewSession, TaskStep, HandleFailed, ReceiveFails, HandleToReply,
       Deliver, ProcessReturned, Delivered, PopNext, DropSession, DeleteSession,
       DispatchReply, StartReply, DispatchFails, ReplyRefused, DispatchShutdown,
       ShutdownSession, HandleReplied, Done, RepliedKept, RepliedEnd, Callback,
       UserStep, NoReply, PushBack, CancelSeries, User, service_vars
  <2> QED BY SMTT(30), <2>1, <2>2
<1>3. ASSUME NEW c \in Conns, UNCHANGED <<acc, conn_count>>, MayClose(c)
      PROVE  acc' \in [Conns -> {"none", "over", "refused", "in", "drained", "out"}]
             /\ PlacesFit' /\ PlacesMove
  <2>1. \A d \in Conns : PlaceFits(acc[d], conn'[d])
    BY <1>3 DEF MayClose, PlacesFit, PlaceFits, ServerTypeOK
  <2> QED BY <1>3, <2>1, KeepPlaces
<1>4. Start \/ Shutdown \/ HandleUnbound \/ WaitFinish \/ WaitReturns \/ Unbinds
      \/ ServerFinished \/ UNCHANGED server_vars => UNCHANGED <<conn, acc, conn_count>>
  BY DEF Start, Shutdown, HandleUnbound, WaitFinish, WaitReturns, Unbinds, ReleaseBase,
     ServerFinished, server_vars, service_vars
<1> QED BY <1>1, <1>2, <1>3, <1>4, AcceptSteps DEF ServerNext

-----------------------------------------------------------------------------
(* A server that was never started satisfies the invariant. *)
LEMMA ServerInitial == ServerInit => ServerIInv
<1> SUFFICES ASSUME ServerInit PROVE ServerIInv
  OBVIOUS
<1>1. NoServerTask \in TaskType /\ Fits(NoServerTask, "none")
  BY DEF NoServerTask, TaskType, TaskAt, Fits
<1>2. ServerTypeOK /\ TasksFit
  BY Zenon, <1>1 DEF ServerInit, ServerTypeOK, TasksFit
<1>3. SessionsHaveConnections /\ PlacesFit
  BY DEF ServerInit, SessionsHaveConnections, PlacesFit, PlaceFits
<1>4. OwnerFits
  BY DEF ServerInit, OwnerFits, Held
<1>5. Counted = {} /\ {c \in Conns : acc[c] = "in"} = {}
  BY DEF ServerInit, Counted
<1>6. CountExact
  BY <1>5, FS_EmptySet, LimitAssumption DEF ServerInit, CountExact
<1> QED BY <1>2, <1>3, <1>4, <1>6 DEF ServerIInv

(* Every step keeps it. *)
LEMMA ServerStep == ServerIInv /\ [ServerNext]_server_vars => ServerIInv'
<1> SUFFICES ASSUME ServerIInv, [ServerNext]_server_vars PROVE ServerIInv'
  OBVIOUS
<1> USE DEF ServerIInv
<1>1. OwnerFits'
  BY OwnerStep
<1>2. task' \in [Conns -> [Sess -> TaskType]] /\ TasksFit'
  BY OtherSteps
<1>3. /\ acc' \in [Conns -> {"none", "over", "refused", "in", "drained", "out"}]
      /\ PlacesFit' /\ CountExact'
  BY PlaceSteps, CountStep
<1>4. /\ conn' \in [Conns -> {"none", "pending", "open", "alive", "closing", "closed"}]
      /\ sess' \in [Conns -> [Sess -> {"none", "in", "given", "ready", "busy", "done", "end"}]]
      /\ base' \in BOOLEAN /\ unbound' \in {0, 1}
      /\ SessionsHaveConnections'
  <2>1. CASE ServiceNext
    BY <2>1, ServiceKeeps
  <2>2. CASE UNCHANGED service_vars
    BY <2>2 DEF service_vars, ServerTypeOK, SessionsHaveConnections
  <2>3. CASE Start
    BY <2>3 DEF Start, ServerTypeOK, SessionsHaveConnections
  <2> QED BY Zenon, <2>1, <2>2, <2>3, ServerUsesService DEF ServiceStep, Shutdown, HandleUnbound,
             WaitReturns
<1> QED BY <1>1, <1>2, <1>3, <1>4 DEF ServerTypeOK

(* It implies what the owner and the tasks of a server rely on. *)
LEMMA ServerEnough == ServerIInv => ServerInv
<1> SUFFICES ASSUME ServerIInv PROVE ServerInv
  OBVIOUS
<1> USE DEF ServerIInv
<1>1. DeletedOnce
  BY DEF DeletedOnce, TasksFit, Fits
<1>2. ConnectionExists
  <2> SUFFICES ASSUME NEW c \in Conns, NEW i \in Sess, task[c][i].flag,
                      task[c][i].at \in {"process", "callback"}
               PROVE  conn[c] # "closed"
    BY DEF ConnectionExists
  <2>1. sess[c][i] \in {"given", "busy"}
    BY DEF TasksFit, Fits
  <2> QED BY <2>1 DEF SessionsHaveConnections
<1>3. NothingAfterFinish
  <2> SUFFICES ASSUME server \in {"off", "unbound"}
               PROVE  /\ conn_count = 0
                      /\ \A c \in Conns : /\ conn[c] \in {"none", "closed"}
                                          /\ \A i \in Sess : task[c][i].at \in {"none", "over"}
    BY DEF NothingAfterFinish
  <2>1. \A c \in Conns : /\ conn[c] \in {"none", "closed"}
                         /\ \A i \in Sess : sess[c][i] \in {"none", "end"}
    BY Zenon DEF OwnerFits, Held
  <2>2. \A c \in Conns, i \in Sess : task[c][i].at \in {"none", "over"}
    BY <2>1 DEF TasksFit, Fits
  <2>3. Counted = {}
    BY <2>1 DEF PlacesFit, PlaceFits, Counted
  <2>4. conn_count = 0
    BY <2>3, FS_EmptySet DEF CountExact
  <2> QED BY <2>1, <2>2, <2>4
<1> QED BY <1>1, <1>2, <1>3 DEF ServerInv

(* For every finite set of connections, any sessions and every limit: the
   counter of WFServerBase::new_connection (WFServer.cc:112-124) is exact and
   its limit kept, WFServerTask is deleted once (WFTask.inl:123), its
   connection exists whenever get_connection returns one, and nothing is left
   when wait_finish (WFServer.cc:190-198) may return.                          *)
THEOREM ServerSafe == ServerSpec => []ServerInv
<1>1. ServerSpec => []ServerIInv
  BY ServerInitial, ServerStep, PTL DEF ServerSpec
<1> QED BY <1>1, ServerEnough, PTL
=============================================================================
