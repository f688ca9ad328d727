--------------------------- MODULE MsgQueueProofs ---------------------------
(***************************************************************************)
(* Proofs about MsgQueue for every number of threads, messages and every   *)
(* queue bound.                                                            *)
(***************************************************************************)
EXTENDS MsgQueue, SequenceTheorems, TLAPS

USE MsgMaxAssumption, NoThreadAssumption, NoMsgAssumption

(* Signalling get_cond (lines 37, 58, 86) wakes the sleeping getter, the only
   one since it sleeps with get_mutex held, and leaves every other thread
   alone: nobody sleeps on get_cond afterwards.                            *)
LEMMA SignalGetEffect ==
  ASSUME TypeOK, MutexOwnership,
         NEW f \in [Threads -> Labels], SignalGet(f),
         \A t \in Threads : f[t] = "swap_wait" => pc[t] = "swap_wait"
  PROVE  /\ pc' \in [Threads -> Labels]
         /\ \A t \in Threads : \/ pc'[t] = f[t]
                               \/ pc[t] = "swap_wait" /\ pc'[t] = "swap_lock"
         /\ \A t \in Threads : pc'[t] # "swap_wait"
<1>1. /\ pc' \in [Threads -> Labels]
      /\ \A t \in Threads : \/ pc'[t] = f[t]
                            \/ pc[t] = "swap_wait" /\ pc'[t] = "swap_lock"
      /\ GetWaiters # {} =>
           \E w \in Threads : pc[w] = "swap_wait" /\ pc'[w] = "swap_lock"
  BY DEF SignalGet, Labels, GetWaiters
<1>2. ASSUME NEW t \in Threads, pc'[t] = "swap_wait" PROVE FALSE
  <2>1. pc[t] = "swap_wait"
    BY <1>1, <1>2
  <2>2. PICK w \in Threads : pc[w] = "swap_wait" /\ pc'[w] = "swap_lock"
    BY <2>1, <1>1 DEF GetWaiters
  <2> QED
    BY <2>1, <2>2, <1>2 DEF MutexOwnership, HoldsGet
<1> QED
  BY <1>1, <1>2

(* The invariant holds when msgqueue_create returns. *)
LEMMA InitInv == Init => Inv
  BY SMTT(30) DEF Init, Inv, TypeOK, MutexOwnership, CountIsPutList, SwapOnEmptyGetList,
         ArgHeld, NoLostGetWakeup, NoLostPutWakeup, Labels, HoldsPut, HoldsGet,
         Inserting

(* Every step of every thread preserves the invariant. *)
LEMMA NextInv == Inv /\ [Next]_vars => Inv'
<1> SUFFICES ASSUME Inv, [Next]_vars PROVE Inv'
  OBVIOUS
<1> USE DEF Inv, TypeOK, MutexOwnership, CountIsPutList, SwapOnEmptyGetList,
            ArgHeld, NoLostGetWakeup, NoLostPutWakeup, Labels, HoldsPut,
            HoldsGet, Inserting, lists, Full
<1>1. ASSUME NEW t \in Threads, NEW m \in Msgs, CallPut(t, m) PROVE Inv'
  BY <1>1 DEF CallPut
<1>2. ASSUME NEW t \in Threads, NEW m \in Msgs, CallPutHead(t, m) PROVE Inv'
  BY <1>2 DEF CallPutHead
<1>3. ASSUME NEW t \in Threads, CallGet(t) PROVE Inv'
  BY <1>3 DEF CallGet
<1>4. ASSUME NEW t \in Threads, CallSetNonblock(t) PROVE Inv'
  BY <1>4 DEF CallSetNonblock
<1>5. ASSUME NEW t \in Threads, CallSetBlock(t) PROVE Inv'
  BY <1>5 DEF CallSetBlock
<1>6. ASSUME NEW t \in Threads, PutLock(t) PROVE Inv'
  BY <1>6 DEF PutLock
<1>7. ASSUME NEW t \in Threads, PutWait(t) PROVE Inv'
  BY <1>7 DEF PutWait
<1>8. ASSUME NEW t \in Threads, PutInsert(t) PROVE Inv'
  BY <1>8 DEF PutInsert
<1>9. ASSUME NEW t \in Threads, PutSignal(t) PROVE Inv'
  <2> DEFINE f == [pc EXCEPT ![t] = "idle"]
  <2>1. /\ f \in [Threads -> Labels]
        /\ \A u \in Threads : f[u] = IF u = t THEN "idle" ELSE pc[u]
        /\ SignalGet(f) /\ pc[t] = "put_signal"
        /\ UNCHANGED <<nonblock, msg_cnt, lists, get_mutex, put_mutex, arg, calls>>
    BY <1>9 DEF PutSignal
  <2> HIDE DEF f
  <2>2. /\ pc' \in [Threads -> Labels]
        /\ \A u \in Threads : \/ pc'[u] = f[u]
                              \/ pc[u] = "swap_wait" /\ pc'[u] = "swap_lock"
        /\ \A u \in Threads : pc'[u] # "swap_wait"
    BY <2>1, SignalGetEffect
  <2> QED
    BY <2>1, <2>2
<1>10. ASSUME NEW t \in Threads, HeadLock(t) PROVE Inv'
  BY <1>10 DEF HeadLock
<1>11. ASSUME NEW t \in Threads, HeadLoop(t) PROVE Inv'
  BY <1>11 DEF HeadLoop
<1>12. ASSUME NEW t \in Threads, HeadTryLock(t) PROVE Inv'
  BY <1>12 DEF HeadTryLock
<1>13. ASSUME NEW t \in Threads, HeadPush(t) PROVE Inv'
  BY <1>13 DEF HeadPush
<1>14. ASSUME NEW t \in Threads, HeadWait(t) PROVE Inv'
  BY <1>14 DEF HeadWait
<1>15. ASSUME NEW t \in Threads, HeadRelock(t) PROVE Inv'
  BY <1>15 DEF HeadRelock
<1>16. ASSUME NEW t \in Threads, HeadInsert(t) PROVE Inv'
  BY <1>16 DEF HeadInsert
<1>17. ASSUME NEW t \in Threads, HeadSignal(t) PROVE Inv'
  <2> DEFINE f == [pc EXCEPT ![t] = "idle"]
  <2>1. /\ f \in [Threads -> Labels]
        /\ \A u \in Threads : f[u] = IF u = t THEN "idle" ELSE pc[u]
        /\ SignalGet(f) /\ pc[t] = "head_signal"
        /\ UNCHANGED <<nonblock, msg_cnt, lists, get_mutex, put_mutex, arg, calls>>
    BY <1>17 DEF HeadSignal
  <2> HIDE DEF f
  <2>2. /\ pc' \in [Threads -> Labels]
        /\ \A u \in Threads : \/ pc'[u] = f[u]
                              \/ pc[u] = "swap_wait" /\ pc'[u] = "swap_lock"
        /\ \A u \in Threads : pc'[u] # "swap_wait"
    BY <2>1, SignalGetEffect
  <2> QED
    BY <2>1, <2>2
<1>18. ASSUME NEW t \in Threads, GetLock(t) PROVE Inv'
  BY <1>18 DEF GetLock
<1>19. ASSUME NEW t \in Threads, GetTest(t) PROVE Inv'
  BY <1>19 DEF GetTest, GetOrSwap
<1>20. ASSUME NEW t \in Threads, SwapLock(t) PROVE Inv'
  BY <1>20 DEF SwapLock
<1>21. ASSUME NEW t \in Threads, SwapWait(t) PROVE Inv'
  <2>1. (TypeOK /\ MutexOwnership /\ CountIsPutList /\ SwapOnEmptyGetList
         /\ ArgHeld)'
    BY ZenonT(60), <1>21 DEF SwapWait
  <2>2. NoLostGetWakeup' /\ NoLostPutWakeup'
    BY <1>21 DEF SwapWait
  <2> QED
    BY <2>1, <2>2
<1>22. ASSUME NEW t \in Threads, SwapLists(t) PROVE Inv'
  BY <1>22 DEF SwapLists, WakePutters, BroadcastPut
<1>23. ASSUME NEW t \in Threads, GetTake(t) PROVE Inv'
  BY <1>23 DEF GetTake
<1>24. ASSUME NEW t \in Threads, GetNull(t) PROVE Inv'
  BY <1>24 DEF GetNull
<1>25. ASSUME NEW t \in Threads, WakeAll(t) PROVE Inv'
  <2> DEFINE f == BroadcastPut([pc EXCEPT ![t] = "idle"])
  <2>1. f \in [Threads -> Labels]
    BY DEF BroadcastPut
  <2>2. \A u \in Threads :
          /\ f[u] \notin {"put_wait", "head_wait"}
          /\ f[u] = "put_lock" => u # t /\ pc[u] \in {"put_wait", "put_lock"}
          /\ f[u] = "head_relock" => u # t /\ pc[u] \in {"head_wait", "head_relock"}
          /\ f[u] \notin {"put_lock", "head_relock"} =>
               f[u] = IF u = t THEN "idle" ELSE pc[u]
    BY DEF BroadcastPut
  <2>3. SignalGet(f) /\ pc[t] = "wake_all" /\ put_mutex = NoThread
        /\ UNCHANGED <<nonblock, msg_cnt, lists, get_mutex, put_mutex, arg, calls>>
    BY <1>25 DEF WakeAll, WakeBoth
  <2> HIDE DEF f
  <2>4. /\ pc' \in [Threads -> Labels]
        /\ \A u \in Threads : \/ pc'[u] = f[u]
                              \/ pc[u] = "swap_wait" /\ pc'[u] = "swap_lock"
        /\ \A u \in Threads : pc'[u] # "swap_wait"
    BY SMTT(30), <2>1, <2>2, <2>3, SignalGetEffect
  <2> QED
    BY <2>2, <2>3, <2>4
<1>26. ASSUME NEW t \in Threads, SpuriousWakeup(t) PROVE Inv'
  <2> UNCHANGED <<nonblock, msg_cnt, lists, get_mutex, put_mutex, arg>>
      /\ calls' = calls + 1
    BY <1>26 DEF SpuriousWakeup
  <2>1. CASE pc[t] = "swap_wait" /\ pc' = [pc EXCEPT ![t] = "swap_lock"]
    BY <2>1
  <2>2. CASE pc[t] = "put_wait" /\ pc' = [pc EXCEPT ![t] = "put_lock"]
    BY <2>2
  <2>3. CASE pc[t] = "head_wait" /\ pc' = [pc EXCEPT ![t] = "head_relock"]
    BY <2>3
  <2> QED
    BY SMTT(30), <1>26, <2>1, <2>2, <2>3 DEF SpuriousWakeup, BroadcastPut
<1>27. CASE UNCHANGED vars
  BY <1>27 DEF vars
<1> QED
  BY ZenonT(60), <1>1, <1>2, <1>3, <1>4, <1>5, <1>6, <1>7, <1>8, <1>9, <1>10, <1>11,
     <1>12, <1>13, <1>14, <1>15, <1>16, <1>17, <1>18, <1>19, <1>20, <1>21,
     <1>22, <1>23, <1>24, <1>25, <1>26, <1>27 DEF Next, Call, Step

(* msgqueue.c keeps its invariant for ever: mutual exclusion, a count that
   matches the put list, swaps on an empty get list only, and no wakeup of a
   getter or of a putter lost.                                             *)
THEOREM QueueInvariant == Spec => []Inv
  BY InitInv, NextInv, PTL DEF Spec

-----------------------------------------------------------------------------
(* Cutting a concatenation at the seam gives back its two parts. *)
LEMMA CutConcat ==
  ASSUME NEW S, NEW s \in Seq(S), NEW r \in Seq(S)
  PROVE  /\ SubSeq(s \o r, 1, Len(s)) = s
         /\ SubSeq(s \o r, Len(s) + 1, Len(s \o r)) = r
<1> DEFINE q == s \o r
           a == SubSeq(q, 1, Len(s))
           b == SubSeq(q, Len(s) + 1, Len(q))
<1>1. /\ q \in Seq(S) /\ Len(q) = Len(s) + Len(r)
      /\ \A i \in 1..Len(q) : q[i] = IF i <= Len(s) THEN s[i] ELSE r[i - Len(s)]
  BY ConcatProperties
<1>2. /\ Len(s) \in Nat /\ Len(r) \in Nat
      /\ \A i \in 1..Len(q) : q[i] \in S
  BY <1>1, LenProperties, ElementOfSeq
<1> HIDE DEF q
<1>3. a \in Seq(S) /\ Len(a) = Len(s) /\ \A i \in 1..Len(s) : a[i] = q[i]
  <2>1. \A i \in 1..Len(s) : q[i] \in S
    BY <1>1, <1>2
  <2> QED
    BY <2>1, <1>2, SubSeqProperties
<1>4. /\ b \in Seq(S) /\ Len(b) = Len(r)
      /\ \A i \in 1..Len(r) : b[i] = q[Len(s) + i]
  <2>1. \A i \in (Len(s) + 1)..Len(q) : q[i] \in S
    BY <1>1, <1>2
  <2> QED
    BY <2>1, <1>1, <1>2, SubSeqProperties
<1>5. a = s
  <2>1. \A i \in 1..Len(a) : a[i] = s[i]
    BY <1>1, <1>2, <1>3
  <2> HIDE DEF a
  <2> QED
    BY <2>1, <1>3, SeqEqual
<1>6. b = r
  <2>1. ASSUME NEW i \in 1..Len(r) PROVE b[i] = r[i]
    <3>1. Len(s) + i \in 1..Len(q) /\ ~(Len(s) + i <= Len(s))
          /\ (Len(s) + i) - Len(s) = i
      BY <1>1, <1>2
    <3>2. q[Len(s) + i] = r[(Len(s) + i) - Len(s)]
      BY <3>1, <1>1
    <3> QED
      BY <3>1, <3>2, <1>4
  <2> HIDE DEF b
  <2> QED
    BY <2>1, <1>4, SeqEqual
<1> QED
  BY <1>5, <1>6 DEF q

(* The head and the tail of a concatenation come from its first part. *)
LEMMA HeadTailConcat ==
  ASSUME NEW S, NEW s \in Seq(S), NEW r \in Seq(S), s # <<>>
  PROVE  /\ s \o r # <<>>
         /\ Head(s \o r) = Head(s)
         /\ Tail(s \o r) = Tail(s) \o r
<1>1. s \o r \in Seq(S) /\ s \o r # <<>>
  BY ConcatProperties, ConcatEqualIffEmpty
<1>2. Len(s) \in Nat \ {0} /\ Len(r) \in Nat /\ Len(s \o r) = Len(s) + Len(r)
  BY EmptySeq, LenProperties, ConcatProperties
<1>3. \A i \in 1..Len(s) + Len(r) :
        (s \o r)[i] = IF i <= Len(s) THEN s[i] ELSE r[i - Len(s)]
  BY ConcatProperties
<1>4. Head(s \o r) = Head(s)
  BY <1>1, <1>2, <1>3
<1>5. /\ Tail(s) \in Seq(S) /\ Len(Tail(s)) = Len(s) - 1
      /\ \A i \in 1..Len(Tail(s)) : Tail(s)[i] = s[i + 1]
  BY HeadTailProperties
<1>6. /\ Tail(s \o r) \in Seq(S) /\ Len(Tail(s \o r)) = Len(s) + Len(r) - 1
      /\ \A i \in 1..Len(s) + Len(r) - 1 : Tail(s \o r)[i] = (s \o r)[i + 1]
  BY <1>1, <1>2, HeadTailProperties
<1>7. /\ Tail(s) \o r \in Seq(S) /\ Len(Tail(s) \o r) = Len(s) - 1 + Len(r)
      /\ \A i \in 1..Len(s) - 1 + Len(r) :
           (Tail(s) \o r)[i] =
             IF i <= Len(s) - 1 THEN Tail(s)[i] ELSE r[i - (Len(s) - 1)]
  BY <1>5, ConcatProperties
<1>8. \A i \in 1..Len(s) + Len(r) - 1 : Tail(s \o r)[i] = (Tail(s) \o r)[i]
  BY <1>2, <1>3, <1>5, <1>6, <1>7
<1>9. Tail(s \o r) = Tail(s) \o r
  BY <1>2, <1>6, <1>7, <1>8, SeqEqual
<1> QED
  BY <1>1, <1>4, <1>9

(* msgqueue.c implements the queue it stands for: with the get list in front
   of the put list, every step of every thread is a put at the tail, a
   put_head, a get of the head, or invisible.                              *)
THEOREM QueueRefinement == Spec => Implements
<1> DEFINE q == get_list \o put_list
<1>1. Init => Abstract!Init
  BY SMTT(30), ConcatEmptySeq, EmptySeq DEF Init, Abstract!Init
<1>2. Inv /\ [Next]_vars => [Abstract!Next]_Abstract!vars
  <2> SUFFICES ASSUME Inv, [Next]_vars PROVE [Abstract!Next]_Abstract!vars
    OBVIOUS
  <2> USE DEF Inv
  <2>0. get_list \in Seq(Msgs) /\ put_list \in Seq(Msgs)
    BY DEF TypeOK
  <2>1. ASSUME NEW t \in Threads, PutInsert(t) PROVE Abstract!Next
    <3>1. arg[t] \in Msgs /\ arg[t] \in todo
      BY <2>1 DEF PutInsert, ArgHeld, Inserting
    <3>2. q' = Append(q, arg[t])
      <4>1. q' = get_list \o (put_list \o <<arg[t]>>)
        BY Zenon, <2>0, <2>1, <3>1, AppendIsConcat DEF PutInsert
      <4>2. Append(q, arg[t]) = q \o <<arg[t]>>
        BY <2>0, <3>1, ConcatProperties, AppendIsConcat
      <4> QED
        BY <2>0, <3>1, <4>1, <4>2, ConcatAssociative
    <3>3. Abstract!Put(arg[t])
      BY <2>1, <3>1, <3>2 DEF Abstract!Put, PutInsert
    <3> QED
      BY <3>1, <3>3 DEF Abstract!Next
  <2>2. ASSUME NEW t \in Threads, HeadInsert(t) PROVE Abstract!Next
    <3>1. arg[t] \in Msgs /\ arg[t] \in todo
      BY <2>2 DEF HeadInsert, ArgHeld, Inserting
    <3> DEFINE i == Len(get_list)
    <3>2. i \in 0..Len(q)
      BY <2>0, LenProperties, ConcatProperties
    <3>3. q' = SubSeq(q, 1, i) \o <<arg[t]>> \o SubSeq(q, i + 1, Len(q))
      <4>1. q' = get_list \o (<<arg[t]>> \o put_list)
        BY <2>2 DEF HeadInsert
      <4>2. q' = (get_list \o <<arg[t]>>) \o put_list
        BY <2>0, <3>1, <4>1, ConcatAssociative
      <4> QED
        BY Zenon, <2>0, <4>2, CutConcat
    <3>4. Abstract!PutHead(arg[t])
      BY Zenon, <2>2, <3>1, <3>2, <3>3 DEF Abstract!PutHead, HeadInsert
    <3> QED
      BY <3>1, <3>4 DEF Abstract!Next
  <2>3. ASSUME NEW t \in Threads, HeadPush(t) PROVE Abstract!Next
    <3>1. arg[t] \in Msgs /\ arg[t] \in todo
      BY <2>3 DEF HeadPush, ArgHeld, Inserting
    <3>2. q \in Seq(Msgs) /\ Len(q) \in Nat
      BY <2>0, ConcatProperties, LenProperties
    <3>3. q' = SubSeq(q, 1, 0) \o <<arg[t]>> \o SubSeq(q, 0 + 1, Len(q))
      <4>1. q' = <<arg[t]>> \o q
        BY <2>0, <2>3, <3>1, ConcatAssociative DEF HeadPush
      <4> HIDE DEF q
      <4>2. SubSeq(q, 1, 0) = <<>> /\ SubSeq(q, 0 + 1, Len(q)) = q
        BY <3>2, SubSeqEmpty, SubSeqFull
      <4> QED
        BY <3>1, <4>1, <4>2, ConcatEmptySeq
    <3>4. Abstract!PutHead(arg[t])
      <4> HIDE DEF q
      <4>1. 0 \in 0..Len(q)
        BY <3>2
      <4> QED
        BY Zenon, <2>3, <3>1, <3>3, <4>1 DEF Abstract!PutHead, HeadPush, q
    <3> QED
      BY <3>1, <3>4 DEF Abstract!Next
  <2>4. ASSUME NEW t \in Threads, GetTake(t) PROVE Abstract!Next
    <3>1. get_list # <<>>
      BY <2>4 DEF GetTake, SwapOnEmptyGetList
    <3>2. Abstract!Get
      BY <2>0, <2>4, <3>1, HeadTailConcat DEF Abstract!Get, GetTake
    <3> QED
      BY <3>2 DEF Abstract!Next
  <2>5. ASSUME NEW t \in Threads, SwapLists(t) PROVE UNCHANGED Abstract!vars
    <3>1. get_list = <<>>
      BY <2>5 DEF SwapLists, SwapOnEmptyGetList
    <3> QED
      BY <2>0, <2>5, <3>1, ConcatEmptySeq DEF Abstract!vars, SwapLists
  <2>6. CASE UNCHANGED lists
    BY <2>6 DEF Abstract!vars, lists
  <2> QED
    BY Zenon, <2>1, <2>2, <2>3, <2>4, <2>5, <2>6
    DEF Next, vars, Call, Step, lists, SpuriousWakeup, CallPut, CallPutHead,
        CallGet, CallSetNonblock, CallSetBlock, PutLock, PutWait, PutSignal,
        HeadLock, HeadLoop, HeadTryLock, HeadWait, HeadRelock, HeadSignal,
        GetLock, GetTest, SwapLock, SwapWait, GetNull, WakeAll
<1> QED
  BY <1>1, <1>2, QueueInvariant, PTL DEF Spec, Implements, Abstract!Spec
=============================================================================
