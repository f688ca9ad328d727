----------------------------- MODULE SyncProofs -----------------------------
(***************************************************************************)
(* The accounting of handler threads holds for pools of every size and for *)
(* any number of synchronous operations and failures.                      *)
(***************************************************************************)
EXTENDS SyncOperation, TLAPS

(* What the counters of module SyncOperation are; the counters of threads
   at each step are never negative because each is only left by a thread
   that has entered it.                                                    *)
SyncTypeOK ==
  /\ sync_count \in Int /\ sync_max \in Int /\ handlers \in Int
  /\ growing \in Nat /\ waiting \in Nat /\ woken \in Nat /\ leaving \in Nat
  /\ to_shrink \in Nat /\ exits \in Nat
  /\ begun \in Nat /\ ended \in Nat /\ fails \in Nat

(* The inductive invariant: SyncInv needs only the types beside it. *)
SyncIInv == SyncTypeOK /\ SyncInv

(* What sync_operation_end gives back (WFGlobal.cc:76-79): never a negative
   number, and what is left is enough for the operations that still wait.  *)
LEMMA SpareBounds ==
  ASSUME sync_max \in Int, NEW n \in Nat, n <= sync_max, sync_max <= 2 * (n + 1)
  PROVE  /\ Spare(n) \in Nat
         /\ n <= sync_max - Spare(n)
         /\ sync_max - Spare(n) <= 2 * n
  BY DEF Spare

(* The pool as WFGlobal finds it satisfies the accounting. *)
LEMMA SyncInitial == SyncInit => SyncIInv
  BY HandlerAssumption DEF SyncInit, SyncIInv, SyncTypeOK, SyncInv

(* Every step of sync_operation_begin and sync_operation_end and of the pool
   keeps the accounting.                                                   *)
LEMMA SyncInductive == SyncIInv /\ [SyncNext]_sync_vars => SyncIInv'
<1> SUFFICES ASSUME SyncIInv, [SyncNext]_sync_vars
             PROVE  SyncIInv'
  OBVIOUS
<1> USE HandlerAssumption DEF SyncIInv, SyncTypeOK, SyncInv
<1>1. CASE sync_operation_begin
  BY <1>1 DEF sync_operation_begin, NeedsThread, sync_pool
<1>2. CASE increase_handler_thread
  BY <1>2 DEF increase_handler_thread, sync_counters
<1>3. CASE WakeUpSync
  BY <1>3 DEF WakeUpSync, sync_counters, sync_pool, sync_history
<1>4. CASE sync_operation_end
  <2>1. /\ sync_count - 1 \in Nat /\ sync_count - 1 <= sync_max
        /\ sync_max <= 2 * ((sync_count - 1) + 1)
    BY <1>4 DEF sync_operation_end
  <2>2. /\ Spare(sync_count - 1) \in Nat
        /\ sync_count - 1 <= sync_max - Spare(sync_count - 1)
        /\ sync_max - Spare(sync_count - 1) <= 2 * (sync_count - 1)
    BY <2>1, SpareBounds
  <2> DEFINE spare == Spare(sync_count - 1)
  <2>3. /\ sync_max' = sync_max - spare /\ to_shrink' = to_shrink + spare
        /\ sync_count' = sync_count - 1 /\ woken' = woken - 1 /\ woken > 0
        /\ leaving' = leaving + 1 /\ ended' = ended + 1
        /\ UNCHANGED <<growing, waiting, handlers, exits, begun, fails>>
    BY <1>4 DEF sync_operation_end
  <2> HIDE DEF spare
  <2> QED BY <2>1, <2>2, <2>3 DEF spare
<1>5. CASE decrease_handler_thread
  BY <1>5 DEF decrease_handler_thread, sync_counters, sync_stages, sync_history
<1>6. CASE EndReturns
  BY <1>6 DEF EndReturns, sync_counters, sync_pool, sync_history
<1>7. CASE HandlerExits
  BY <1>7 DEF HandlerExits, sync_counters, sync_stages, sync_history
<1>8. CASE SyncRests \/ UNCHANGED sync_vars
  BY <1>8 DEF SyncRests, sync_vars, sync_counters, sync_stages, sync_pool, sync_history
<1> QED
  BY <1>1, <1>2, <1>3, <1>4, <1>5, <1>6, <1>7, <1>8 DEF SyncNext

(* SyncInv holds in every behaviour (WFGlobal.cc:59-86): the handler threads
   that are not blocked by synchronous operations are at least as many as
   the pool was created with, unless an increase failed or is under way.   *)
THEOREM SyncSafe == SyncSpec => []SyncInv
<1>1. SyncIInv => SyncInv
  BY DEF SyncIInv
<1> QED
  BY <1>1, SyncInitial, SyncInductive, PTL DEF SyncSpec
=============================================================================
