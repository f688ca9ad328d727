----------------------------- MODULE MCThreads ------------------------------
(***************************************************************************)
(* The threads of a process and those who count on them: the thread pool   *)
(* itself, the executor and the handler threads as users of one, and the   *)
(* I/O service whose results the handlers take.  A behaviour is about one. *)
(***************************************************************************)
EXTENDS ThrdPool, Executor, SyncOperation, IOService

VARIABLE part            \* the component the behaviour is about

all_vars == <<part, vars, exec_vars, sync_vars, io_vars>>

PartsInit == /\ part \in {"pool", "executor", "sync", "io"}
             /\ Init /\ ExecInit /\ SyncInit /\ IoInit

PartsNext ==
  /\ UNCHANGED part
  /\ \/ part = "pool" /\ Next /\ UNCHANGED <<exec_vars, sync_vars, io_vars>>
     \/ part = "executor" /\ ExecNext /\ UNCHANGED <<vars, sync_vars, io_vars>>
     \/ part = "sync" /\ SyncNext /\ UNCHANGED <<vars, exec_vars, io_vars>>
     \/ part = "io" /\ IoNext /\ UNCHANGED <<vars, exec_vars, sync_vars>>

(* The fairness of the component that the behaviour is about. *)
PartsFairness ==
  /\ \A a \in Actors : WF_vars(part = "pool" /\ Step(a))
  /\ \A w \in Workers : WF_vars(part = "pool" /\ WorkerStep(w))
  /\ \A t \in Threads : WF_exec_vars(part = "executor" /\ RoutineStep(t))
  /\ WF_exec_vars(part = "executor" /\ DeinitStep)
  /\ WF_sync_vars(part = "sync" /\ increase_handler_thread)
  /\ WF_sync_vars(part = "sync" /\ WakeUpSync)
  /\ WF_sync_vars(part = "sync" /\ sync_operation_end)
  /\ WF_sync_vars(part = "sync" /\ decrease_handler_thread)
  /\ WF_sync_vars(part = "sync" /\ EndReturns)
  /\ WF_sync_vars(part = "sync" /\ HandlerExits)
  /\ \A s \in IoSessions : /\ WF_io_vars(part = "io" /\ Link(s))
                            /\ WF_io_vars(part = "io" /\ KernelDone(s))
  /\ WF_io_vars(part = "io" /\ HandleEvent)
  /\ WF_io_vars(part = "io" /\ aio_finish)
  /\ WF_io_vars(part = "io" /\ EventDeleted)
  /\ \A t \in IoActors : WF_io_vars(part = "io" /\ IoHandler(t))

PartsSpec == PartsInit /\ [][PartsNext]_all_vars /\ PartsFairness
=============================================================================
