------------------------------ MODULE Executor ------------------------------
(***************************************************************************)
(* The executor of src/kernel/Executor.cc: sessions wait in named          *)
(* ExecQueues; a queue with sessions has a routine task in the thread pool *)
(* that takes one session, reschedules itself if more are waiting, and     *)
(* executes the session.  Deinit destroys the pool, which hands the        *)
(* routine tasks left in it to executor_cancel.                            *)
(*                                                                         *)
(* The pool is what module ThrdPool shows it to be: a FIFO of tasks, each  *)
(* run by one worker or, after the workers have left, given to pending().  *)
(***************************************************************************)
EXTENDS Naturals, Sequences, FiniteSets, SequencesExt

CONSTANTS Threads,      \* the workers of the pool
          Queues,       \* the ExecQueues
          Sessions,     \* the sessions, each requested once
          NoSession,    \* an entry pointer that points to no session
          NoQueue

ASSUME NoSessionAssumption == NoSession \notin Sessions
ASSUME NoQueueAssumption == NoQueue \notin Queues

VARIABLES session_list,  \* session_list[q]: the sessions waiting in queue q
          tasks,         \* the pool's queue: one queue per routine task in it
          exec_pc,       \* what each worker does next
          exec_queue,    \* exec_queue[t]: the context of the routine t runs
          entry,         \* entry[t]: the session of the entry t works on
          phase,         \* deinit: "up", "down", "cancel", "handle", "off"
          cancel_queue,  \* the queue executor_cancel works on, or NoQueue
          pos, tmp,      \* the cursors of list_for_each_safe in executor_cancel
          new,           \* history: sessions not yet requested
          accepted,      \* history: accepted[q]: sessions in order of request
          taken,         \* history: taken[q]: sessions in order of removal
          handled        \* handled[s]: the states handle() was called with

worker == <<exec_pc, exec_queue, entry>>
cancel == <<phase, cancel_queue, pos, tmp>>
exec_vars == <<session_list, tasks, worker, cancel, new, accepted, taken, handled>>

First(q) == IF session_list[q] = <<>> THEN NoSession ELSE Head(session_list[q])

ExecInit ==
  /\ session_list = [q \in Queues |-> <<>>]
  /\ tasks = <<>>
  /\ exec_pc = [t \in Threads |-> "idle"]
  /\ exec_queue = [t \in Threads |-> NoQueue]
  /\ entry = [t \in Threads |-> NoSession]
  /\ phase = "up" /\ cancel_queue = NoQueue /\ pos = NoSession /\ tmp = NoSession
  /\ new = Sessions
  /\ accepted = [q \in Queues |-> <<>>]
  /\ taken = [q \in Queues |-> <<>>]
  /\ handled = [s \in Sessions |-> <<>>]

-----------------------------------------------------------------------------
(* Executor::request, called by ExecRequest::dispatch.  Before deinit every
   thread may call it; afterwards only the callbacks of sessions do: execute()
   and handle() on the workers, handle() inside executor_cancel.            *)
MayRequest == \/ phase = "up"
              \/ phase = "handle"
              \/ \E t \in Threads : exec_pc[t] \in {"execute", "handle"}

AddTail(l, s) == Append(l, s)

ScheduleAlways(q) == TRUE           \* mutant: the test of line 106 is left out

(* Line 106: the entry just added is the first of its list. *)
MustSchedule(q) == session_list[q] = <<>>

(* The section under queue->mutex is one step: with sessions waiting it only
   appends, with none waiting no routine of this queue is running.          *)
Request(s, q) ==
  /\ MayRequest
  /\ s \in new
  /\ new' = new \ {s}
  /\ session_list' = [session_list EXCEPT ![q] = AddTail(@, s)]
  /\ tasks' = IF MustSchedule(q) THEN Append(tasks, q) ELSE tasks
  /\ accepted' = [accepted EXCEPT ![q] = Append(@, s)]
  /\ UNCHANGED <<worker, cancel, taken, handled>>

(* A failed allocation: lines 109-113 undo the insertion, request returns -1
   and dispatch calls handle(ES_STATE_ERROR).                               *)
RequestFails(s) ==
  /\ MayRequest
  /\ s \in new
  /\ new' = new \ {s}
  /\ handled' = [handled EXCEPT ![s] = Append(@, "ERROR")]
  /\ UNCHANGED <<session_list, tasks, worker, cancel, accepted, taken>>

-----------------------------------------------------------------------------
(* executor_thread_routine *)

TakeTask(t) ==
  /\ exec_pc[t] = "idle"
  /\ tasks # <<>>
  /\ tasks' = Tail(tasks)
  /\ exec_queue' = [exec_queue EXCEPT ![t] = Head(tasks)]
  /\ exec_pc' = [exec_pc EXCEPT ![t] = "read"]
  /\ UNCHANGED <<session_list, entry, cancel, new, accepted, taken, handled>>

(* Line 62 reads the head of the list without the mutex. *)
ReadHead(t) ==
  /\ exec_pc[t] = "read"
  /\ entry' = [entry EXCEPT ![t] = First(exec_queue[t])]
  /\ exec_pc' = [exec_pc EXCEPT ![t] = "del"]
  /\ UNCHANGED <<session_list, tasks, exec_queue, cancel, new, accepted, taken, handled>>

NeverReschedule(q, s) == "execute"  \* mutant: lines 69-73 are left out

AfterDelete(q, s) == IF Remove(session_list[q], s) = <<>> THEN "execute" ELSE "next"

(* Lines 63-66. *)
DeleteEntry(t) ==
  LET q == exec_queue[t]  s == entry[t] IN
  /\ exec_pc[t] = "del"
  /\ session_list' = [session_list EXCEPT ![q] = Remove(@, s)]
  /\ taken' = [taken EXCEPT ![q] = Append(@, s)]
  /\ exec_pc' = [exec_pc EXCEPT ![t] = AfterDelete(q, s)]
  /\ UNCHANGED <<tasks, exec_queue, entry, cancel, new, accepted, handled>>

(* Line 72: the entry becomes the task, so this cannot fail. *)
ScheduleNext(t) ==
  /\ exec_pc[t] = "next"
  /\ tasks' = Append(tasks, exec_queue[t])
  /\ exec_pc' = [exec_pc EXCEPT ![t] = "execute"]
  /\ UNCHANGED <<session_list, exec_queue, entry, cancel, new, accepted, taken, handled>>

Execute(t) ==
  /\ exec_pc[t] = "execute"
  /\ exec_pc' = [exec_pc EXCEPT ![t] = "handle"]
  /\ UNCHANGED <<session_list, tasks, exec_queue, entry, cancel, new, accepted,
                 taken, handled>>

Handle(t) ==
  /\ exec_pc[t] = "handle"
  /\ handled' = [handled EXCEPT ![entry[t]] = Append(@, "FINISHED")]
  /\ exec_pc' = [exec_pc EXCEPT ![t] = "idle"]
  /\ exec_queue' = [exec_queue EXCEPT ![t] = NoQueue]
  /\ entry' = [entry EXCEPT ![t] = NoSession]
  /\ UNCHANGED <<session_list, tasks, cancel, new, accepted, taken>>

-----------------------------------------------------------------------------
(* Executor::deinit and executor_cancel *)

Deinit ==
  /\ phase = "up"
  /\ phase' = "down"
  /\ UNCHANGED <<session_list, tasks, worker, cancel_queue, pos, tmp, new,
                 accepted, taken, handled>>

(* A worker that finds the pool terminating leaves, tasks or no tasks. *)
WorkerExits(t) ==
  /\ phase = "down"
  /\ exec_pc[t] = "idle"
  /\ exec_pc' = [exec_pc EXCEPT ![t] = "gone"]
  /\ UNCHANGED <<session_list, tasks, exec_queue, entry, cancel, new, accepted,
                 taken, handled>>

AllGone == \A t \in Threads : exec_pc[t] = "gone"

(* The session after s in queue q, the end of the list being NoSession. *)
After(q, s) ==
  LET l == session_list[q] IN
  IF s = NoSession \/ s = Last(l) THEN NoSession
  ELSE l[(CHOOSE i \in DOMAIN l : l[i] = s) + 1]

(* pending(): executor_cancel starts on a routine task left in the pool. *)
CancelStart ==
  LET q == Head(tasks) IN
  /\ phase = "down" /\ AllGone
  /\ tasks # <<>>
  /\ tasks' = Tail(tasks)
  /\ phase' = "cancel"
  /\ cancel_queue' = q
  /\ pos' = First(q)
  /\ tmp' = After(q, First(q))
  /\ UNCHANGED <<session_list, worker, new, accepted, taken, handled>>

(* Lines 87-92: handle() may request sessions before the loop goes on. *)
CancelOne ==
  /\ phase = "cancel"
  /\ pos # NoSession
  /\ session_list' = [session_list EXCEPT ![cancel_queue] = Remove(@, pos)]
  /\ taken' = [taken EXCEPT ![cancel_queue] = Append(@, pos)]
  /\ handled' = [handled EXCEPT ![pos] = Append(@, "CANCELED")]
  /\ phase' = "handle"
  /\ UNCHANGED <<tasks, worker, cancel_queue, pos, tmp, new, accepted>>

CancelNext ==
  /\ phase = "handle"
  /\ phase' = "cancel"
  /\ pos' = tmp
  /\ tmp' = After(cancel_queue, tmp)
  /\ UNCHANGED <<session_list, tasks, worker, cancel_queue, new, accepted,
                 taken, handled>>

CancelEnd ==
  /\ phase = "cancel"
  /\ pos = NoSession
  /\ phase' = "down"
  /\ cancel_queue' = NoQueue
  /\ UNCHANGED <<session_list, tasks, worker, pos, tmp, new, accepted, taken, handled>>

DeinitReturns ==
  /\ phase = "down" /\ AllGone
  /\ tasks = <<>>
  /\ phase' = "off"
  /\ UNCHANGED <<session_list, tasks, worker, cancel_queue, pos, tmp, new,
                 accepted, taken, handled>>

-----------------------------------------------------------------------------
RoutineStep(t) == TakeTask(t) \/ ReadHead(t) \/ DeleteEntry(t) \/ ScheduleNext(t)
                 \/ Execute(t) \/ Handle(t) \/ WorkerExits(t)

DeinitStep == CancelStart \/ CancelOne \/ CancelNext \/ CancelEnd \/ DeinitReturns

ExecNext == \/ \E s \in Sessions : RequestFails(s) \/ \E q \in Queues : Request(s, q)
        \/ \E t \in Threads : RoutineStep(t)
        \/ Deinit \/ DeinitStep

(* The workers and the thread inside deinit are scheduled, callbacks return. *)
ExecFairness == /\ \A t \in Threads : WF_exec_vars(RoutineStep(t))
                /\ WF_exec_vars(DeinitStep)

ExecSpec == ExecInit /\ [][ExecNext]_exec_vars /\ ExecFairness

-----------------------------------------------------------------------------
ExecTypeOK ==
  /\ session_list \in [Queues -> Seq(Sessions)]
  /\ tasks \in Seq(Queues)
  /\ exec_pc \in [Threads -> {"idle", "read", "del", "next", "execute", "handle", "gone"}]
  /\ exec_queue \in [Threads -> Queues \cup {NoQueue}]
  /\ entry \in [Threads -> Sessions \cup {NoSession}]
  /\ phase \in {"up", "down", "cancel", "handle", "off"}
  /\ cancel_queue \in Queues \cup {NoQueue}
  /\ {pos, tmp} \subseteq Sessions \cup {NoSession}
  /\ new \subseteq Sessions
  /\ accepted \in [Queues -> Seq(Sessions)]
  /\ taken \in [Queues -> Seq(Sessions)]
  /\ handled \in [Sessions -> Seq({"FINISHED", "ERROR", "CANCELED"})]

(* The routine tasks of queue q: in the pool, or in the hands of a worker that
   has not yet given it up.                                                 *)
Routines(q) ==
  Cardinality({i \in DOMAIN tasks : tasks[i] = q})
  + Cardinality({t \in Threads : exec_pc[t] \in {"read", "del", "next"} /\ exec_queue[t] = q})

(* A queue with sessions waiting has exactly one routine task and an idle one
   has none.  Lines 69-75 and 106 keep it so between them, and line 62 reads
   the list without the mutex because of it.  Inside executor_cancel the
   queue it works on is being emptied without one.                          *)
OneRoutinePerQueue ==
  \A q \in Queues :
    q # cancel_queue => Routines(q) = IF session_list[q] = <<>> THEN 0 ELSE 1

(* What line 62 read without the mutex is still the head of the list when
   line 64 removes it.                                                      *)
HeadStillFirst ==
  \A t \in Threads : exec_pc[t] = "del" => entry[t] = First(exec_queue[t])

(* Sessions leave a queue in the order in which they were requested, whether
   workers take them or executor_cancel does, and none is lost.             *)
QueueIsFifo == \A q \in Queues : accepted[q] = taken[q] \o session_list[q]

(* handle() is called once for every session requested: never twice, and by
   the time deinit returns no session is left without it, those included
   that a callback requests while the executor is going down.               *)
HandledOnce ==
  /\ \A s \in Sessions : Len(handled[s]) <= 1
  /\ phase = "off" => \A s \in Sessions \ new : Len(handled[s]) = 1

(* What holds of the queues at every moment, lets executor_thread_routine read
   the head of its queue without the mutex (line 62), and gives every session
   its one handle().                                                        *)
QueueInv == ExecTypeOK /\ OneRoutinePerQueue /\ HeadStillFirst /\ QueueIsFifo /\ HandledOnce

(* Every session requested is handled, whether the executor keeps running or
   is deinitialised: again and again none is left.                          *)
EverySessionHandled == []<>(\A s \in Sessions \ new : handled[s] # <<>>)
=============================================================================
