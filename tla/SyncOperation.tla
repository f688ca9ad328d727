--------------------------- MODULE SyncOperation ---------------------------
(***************************************************************************)
(* Synchronous operations on handler threads, of WFGlobal.cc: a callback   *)
(* that waits blocks its handler thread, so sync_operation_begin starts a  *)
(* further thread when more of them wait than ever since the last shrink,  *)
(* and sync_operation_end gives back half of the threads when less than    *)
(* half of them are needed.  Both change the counters under the mutex and  *)
(* the threads after it.  The threads are alike, so the state counts how   *)
(* many are at each step.                                                  *)
(***************************************************************************)
EXTENDS Integers

CONSTANTS HandlerThreads,   \* handler_threads of the settings
          MaxSyncs,         \* bound: operations begun
          MaxFails          \* bound: failed increases

ASSUME HandlerAssumption == HandlerThreads \in Nat \ {0}

VARIABLES
  sync_count, sync_max,   \* under sync_mutex_
  growing,      \* threads between the mutex and increase_handler_thread
  waiting,      \* threads that wait
  woken,        \* threads whose operation has ended
  leaving,      \* threads in the loop of sync_operation_end
  to_shrink,    \* calls of decrease_handler_thread these have still to make
  handlers,     \* threads in handler_thread_routine
  exits,        \* exit messages at the head of the message queue
  begun, ended, fails   \* operations begun and ended, increases that failed

sync_counters == <<sync_count, sync_max>>
sync_stages == <<growing, waiting, woken, leaving>>
sync_pool == <<to_shrink, handlers, exits>>
sync_history == <<begun, ended, fails>>
sync_vars == <<sync_counters, sync_stages, sync_pool, sync_history>>

SyncInit ==
  /\ sync_count = 0 /\ sync_max = 0
  /\ growing = 0 /\ waiting = 0 /\ woken = 0 /\ leaving = 0
  /\ to_shrink = 0 /\ handlers = HandlerThreads /\ exits = 0
  /\ begun = 0 /\ ended = 0 /\ fails = 0

(* Handler threads that can take the next message. *)
FreeHandlers == handlers - (growing + waiting + woken + leaving)

NeverNeeds(count) == FALSE         \* mutant: never a further thread
NeedsThread(count) == count > sync_max

sync_operation_begin ==
  /\ FreeHandlers > 0 /\ begun < MaxSyncs
  /\ begun' = begun + 1
  /\ sync_count' = sync_count + 1
  /\ IF NeedsThread(sync_count + 1)
     THEN /\ sync_max' = sync_count + 1
          /\ growing' = growing + 1
          /\ UNCHANGED waiting
     ELSE /\ waiting' = waiting + 1
          /\ UNCHANGED <<sync_max, growing>>
  /\ UNCHANGED <<woken, leaving, sync_pool, ended, fails>>

(* The result of increase_handler_thread is not looked at. *)
increase_handler_thread ==
  /\ growing > 0
  /\ growing' = growing - 1
  /\ waiting' = waiting + 1
  /\ \/ handlers' = handlers + 1 /\ UNCHANGED fails
     \/ fails < MaxFails /\ fails' = fails + 1 /\ UNCHANGED handlers
  /\ UNCHANGED <<sync_counters, woken, leaving, to_shrink, exits, begun, ended>>

(* Another handler thread takes the message that ends a wait; exit messages
   come first, since they are put at the head of the queue.                *)
WakeUpSync ==
  /\ waiting > 0 /\ FreeHandlers > 0 /\ exits = 0
  /\ waiting' = waiting - 1
  /\ woken' = woken + 1
  /\ UNCHANGED <<sync_counters, growing, leaving, sync_pool, sync_history>>

SpareAll(count) == sync_max            \* mutant: gives back every thread
Spare(count) == IF count < (sync_max + 1) \div 2 THEN sync_max - 2 * count ELSE 0

sync_operation_end ==
  /\ woken > 0
  /\ woken' = woken - 1
  /\ leaving' = leaving + 1
  /\ sync_count' = sync_count - 1
  /\ sync_max' = sync_max - Spare(sync_count - 1)
  /\ to_shrink' = to_shrink + Spare(sync_count - 1)
  /\ ended' = ended + 1
  /\ UNCHANGED <<growing, waiting, handlers, exits, begun, fails>>

(* One round of the loop. *)
decrease_handler_thread ==
  /\ leaving > 0 /\ to_shrink > 0
  /\ to_shrink' = to_shrink - 1
  /\ exits' = exits + 1
  /\ UNCHANGED <<sync_counters, sync_stages, handlers, sync_history>>

(* The loop of one thread is over; the calls that are left belong to the
   others.                                                                 *)
EndReturns ==
  /\ leaving > 0 /\ (to_shrink > 0 => leaving > 1)
  /\ leaving' = leaving - 1
  /\ UNCHANGED <<sync_counters, growing, waiting, woken, sync_pool, sync_history>>

(* handler_thread_routine takes an exit message: thrdpool_exit. *)
HandlerExits ==
  /\ exits > 0 /\ FreeHandlers > 0
  /\ exits' = exits - 1
  /\ handlers' = handlers - 1
  /\ UNCHANGED <<sync_counters, sync_stages, to_shrink, sync_history>>

(* No operation is under way, or a failed increase has left no thread to end
   those that are.                                                         *)
SyncRests ==
  /\ growing = 0 /\ woken = 0 /\ leaving = 0
  /\ waiting = 0 \/ fails > 0
  /\ UNCHANGED sync_vars

SyncNext ==
  \/ sync_operation_begin \/ increase_handler_thread \/ WakeUpSync
  \/ sync_operation_end \/ decrease_handler_thread \/ EndReturns
  \/ HandlerExits \/ SyncRests

(* Threads run and wake up. *)
SyncFairness ==
  /\ WF_sync_vars(increase_handler_thread)
  /\ WF_sync_vars(WakeUpSync)
  /\ WF_sync_vars(sync_operation_end)
  /\ WF_sync_vars(decrease_handler_thread)
  /\ WF_sync_vars(EndReturns)
  /\ WF_sync_vars(HandlerExits)

SyncSpec == SyncInit /\ [][SyncNext]_sync_vars /\ SyncFairness

-----------------------------------------------------------------------------
(* SyncInv (WFGlobal.cc:59-86): the pool has, apart from the calls under way
   and the increases that failed, exactly sync_max threads more than it was
   created with, and sync_max covers the operations that wait without being
   more than twice as many; so while no increase has failed and none is under
   way, at least as many threads as the pool was created with are not blocked
   by a synchronous operation.                                             *)
SyncInv ==
  /\ sync_count = growing + waiting + woken
  /\ sync_count <= sync_max /\ sync_max <= 2 * sync_count
  /\ handlers - exits + growing - to_shrink + fails = HandlerThreads + sync_max
  /\ growing = 0 /\ fails = 0 => handlers - exits - sync_count >= HandlerThreads

(* SyncEnds (WFGlobal.cc:59-71): while no increase fails, every operation that
   was begun ends (there are finitely many), although the messages that end the
   waits are taken by the same pool of threads that the waits block.       *)
SyncEnds == []<>(fails = 0 => ended = begun)
=============================================================================
