------------------------------ MODULE MsgQueue ------------------------------
(***************************************************************************)
(* The two-list message queue of src/kernel/msgqueue.c, at the granularity *)
(* of its mutex and condition-variable operations.  Putters append to      *)
(* put_list under put_mutex; getters take from get_list under get_mutex    *)
(* and, when it is empty, swap the two lists under both mutexes.           *)
(*                                                                         *)
(* The lists are sequences of messages (the links inside the messages are  *)
(* abstracted).  A thread waits on a condition variable exactly when its   *)
(* pc is one of the "..._wait" labels, so no separate wait sets exist.     *)
(***************************************************************************)
EXTENDS Naturals, Sequences, FiniteSets

CONSTANTS Threads,    \* the threads that call the queue
          Msgs,       \* the messages, each put at most once
          MsgMax,     \* msg_max: the maxlen of msgqueue_create
          MaxCalls,   \* bound on get, set_nonblock, set_block and spurious wakeups
          NoThread,   \* "no owner" of a mutex
          NoMsg       \* NULL

ASSUME MsgMaxAssumption == MsgMax \in Nat
ASSUME MaxCallsAssumption == MaxCalls \in Nat
ASSUME NoThreadAssumption == NoThread \notin Threads
ASSUME NoMsgAssumption == NoMsg \notin Msgs

VARIABLES nonblock,   \* queue->nonblock
          msg_cnt,    \* queue->msg_cnt
          get_list,   \* the list at queue->get_head
          put_list,   \* the list at queue->put_head
          get_mutex,  \* owner of queue->get_mutex
          put_mutex,  \* owner of queue->put_mutex
          pc,         \* what each thread does next
          arg,        \* the message a thread is putting or has got
          todo,       \* history: messages no call has inserted yet
          taken,      \* history: messages that gets have removed
          calls       \* number of those events so far

lists == <<get_list, put_list, todo, taken>>
vars == <<nonblock, msg_cnt, get_list, put_list, get_mutex, put_mutex,
          pc, arg, todo, taken, calls>>

Labels == {"idle",
           "put_lock", "put_test", "put_wait", "put_signal",
           "head_lock", "head_loop", "head_trylock", "head_push",
           "head_full", "head_wait", "head_relock", "head_signal",
           "get_lock", "get_test", "swap_lock", "swap_test", "swap_wait",
           "get_take", "null_return", "wake_all"}

(* Line 51: msg_cnt > msg_max - 1 on size_t; msg_max = 0 wraps to SIZE_MAX,
   so a queue created with maxlen 0 (the thread pool's) is never full.     *)
Full == MsgMax # 0 /\ msg_cnt > MsgMax - 1

-----------------------------------------------------------------------------
(* Condition variables.  get_cond has waiters at swap_wait, put_cond has   *)
(* waiters at put_wait and head_wait; a woken waiter competes for          *)
(* put_mutex again and then repeats its test.                              *)

GetWaiters == {t \in Threads : pc[t] = "swap_wait"}

SignalNobody(f) == pc' = f            \* mutant: the signal is forgotten

SignalGet(f) == IF GetWaiters = {}
                THEN pc' = f
                ELSE \E w \in GetWaiters : pc' = [f EXCEPT ![w] = "swap_lock"]

BroadcastPut(f) == [t \in Threads |->
                      IF f[t] = "put_wait" THEN "put_lock"
                      ELSE IF f[t] = "head_wait" THEN "head_relock"
                      ELSE f[t]]

(* pthread_cond_wait may return without a signal. *)
SpuriousWakeup(t) ==
  /\ calls < MaxCalls
  /\ calls' = calls + 1
  /\ \/ /\ pc[t] = "swap_wait"
        /\ pc' = [pc EXCEPT ![t] = "swap_lock"]
     \/ /\ pc[t] \in {"put_wait", "head_wait"}
        /\ pc' = [pc EXCEPT ![t] = BroadcastPut(pc)[t]]
  /\ UNCHANGED <<nonblock, msg_cnt, lists, get_mutex, put_mutex, arg>>

-----------------------------------------------------------------------------
(* msgqueue_put *)

CallPut(t, m) ==
  /\ pc[t] = "idle"
  /\ m \in todo
  /\ \A u \in Threads : arg[u] # m
  /\ pc' = [pc EXCEPT ![t] = "put_lock"]
  /\ arg' = [arg EXCEPT ![t] = m]
  /\ UNCHANGED <<nonblock, msg_cnt, lists, get_mutex, put_mutex, calls>>

PutLock(t) ==
  /\ pc[t] = "put_lock"
  /\ put_mutex = NoThread
  /\ put_mutex' = t
  /\ pc' = [pc EXCEPT ![t] = "put_test"]
  /\ UNCHANGED <<nonblock, msg_cnt, lists, get_mutex, arg, calls>>

PutWait(t) ==
  /\ pc[t] = "put_test"
  /\ Full /\ nonblock = 0
  /\ put_mutex' = NoThread
  /\ pc' = [pc EXCEPT ![t] = "put_wait"]
  /\ UNCHANGED <<nonblock, msg_cnt, lists, get_mutex, arg, calls>>

PutInsert(t) ==
  /\ pc[t] = "put_test"
  /\ ~Full \/ nonblock = 1
  /\ put_list' = Append(put_list, arg[t])
  /\ msg_cnt' = msg_cnt + 1
  /\ todo' = todo \ {arg[t]}
  /\ put_mutex' = NoThread
  /\ arg' = [arg EXCEPT ![t] = NoMsg]
  /\ pc' = [pc EXCEPT ![t] = "put_signal"]
  /\ UNCHANGED <<nonblock, get_list, get_mutex, taken, calls>>

(* Line 58: the signal comes after the unlock. *)
PutSignal(t) ==
  /\ pc[t] = "put_signal"
  /\ SignalGet([pc EXCEPT ![t] = "idle"])
  /\ UNCHANGED <<nonblock, msg_cnt, lists, get_mutex, put_mutex, arg, calls>>

-----------------------------------------------------------------------------
(* msgqueue_put_head *)

CallPutHead(t, m) ==
  /\ pc[t] = "idle"
  /\ m \in todo
  /\ \A u \in Threads : arg[u] # m
  /\ pc' = [pc EXCEPT ![t] = "head_lock"]
  /\ arg' = [arg EXCEPT ![t] = m]
  /\ UNCHANGED <<nonblock, msg_cnt, lists, get_mutex, put_mutex, calls>>

HeadLock(t) ==
  /\ pc[t] = "head_lock"
  /\ put_mutex = NoThread
  /\ put_mutex' = t
  /\ pc' = [pc EXCEPT ![t] = "head_loop"]
  /\ UNCHANGED <<nonblock, msg_cnt, lists, get_mutex, arg, calls>>

(* Line 66 reads *get_head without get_mutex. *)
HeadLoop(t) ==
  /\ pc[t] = "head_loop"
  /\ pc' = [pc EXCEPT ![t] = IF get_list # <<>> THEN "head_trylock"
                                                ELSE "head_full"]
  /\ UNCHANGED <<nonblock, msg_cnt, lists, get_mutex, put_mutex, arg, calls>>

HeadTryLock(t) ==
  /\ pc[t] = "head_trylock"
  /\ \/ /\ get_mutex = NoThread
        /\ get_mutex' = t
        /\ put_mutex' = NoThread
        /\ pc' = [pc EXCEPT ![t] = "head_push"]
     \/ /\ get_mutex # NoThread
        /\ pc' = [pc EXCEPT ![t] = "head_loop"]
        /\ UNCHANGED <<get_mutex, put_mutex>>
  /\ UNCHANGED <<nonblock, msg_cnt, lists, arg, calls>>

HeadPush(t) ==
  /\ pc[t] = "head_push"
  /\ get_list' = <<arg[t]>> \o get_list
  /\ todo' = todo \ {arg[t]}
  /\ get_mutex' = NoThread
  /\ arg' = [arg EXCEPT ![t] = NoMsg]
  /\ pc' = [pc EXCEPT ![t] = "idle"]
  /\ UNCHANGED <<nonblock, msg_cnt, put_list, put_mutex, taken, calls>>

HeadWait(t) ==
  /\ pc[t] = "head_full"
  /\ Full /\ nonblock = 0
  /\ put_mutex' = NoThread
  /\ pc' = [pc EXCEPT ![t] = "head_wait"]
  /\ UNCHANGED <<nonblock, msg_cnt, lists, get_mutex, arg, calls>>

HeadRelock(t) ==
  /\ pc[t] = "head_relock"
  /\ put_mutex = NoThread
  /\ put_mutex' = t
  /\ pc' = [pc EXCEPT ![t] = "head_full"]
  /\ UNCHANGED <<nonblock, msg_cnt, lists, get_mutex, arg, calls>>

HeadInsert(t) ==
  /\ pc[t] = "head_full"
  /\ ~Full \/ nonblock = 1
  /\ put_list' = <<arg[t]>> \o put_list
  /\ msg_cnt' = msg_cnt + 1
  /\ todo' = todo \ {arg[t]}
  /\ put_mutex' = NoThread
  /\ arg' = [arg EXCEPT ![t] = NoMsg]
  /\ pc' = [pc EXCEPT ![t] = "head_signal"]
  /\ UNCHANGED <<nonblock, get_list, get_mutex, taken, calls>>

HeadSignal(t) ==
  /\ pc[t] = "head_signal"
  /\ SignalGet([pc EXCEPT ![t] = "idle"])
  /\ UNCHANGED <<nonblock, msg_cnt, lists, get_mutex, put_mutex, arg, calls>>

-----------------------------------------------------------------------------
(* msgqueue_get and __msgqueue_swap *)

CallGet(t) ==
  /\ pc[t] = "idle"
  /\ calls < MaxCalls
  /\ calls' = calls + 1
  /\ pc' = [pc EXCEPT ![t] = "get_lock"]
  /\ UNCHANGED <<nonblock, msg_cnt, lists, get_mutex, put_mutex, arg>>

GetLock(t) ==
  /\ pc[t] = "get_lock"
  /\ get_mutex = NoThread
  /\ get_mutex' = t
  /\ pc' = [pc EXCEPT ![t] = "get_test"]
  /\ UNCHANGED <<nonblock, msg_cnt, lists, put_mutex, arg, calls>>

SwapAlways == "swap_lock"             \* mutant: get does not look at get_list

GetOrSwap == IF get_list # <<>> THEN "get_take" ELSE "swap_lock"

GetTest(t) ==
  /\ pc[t] = "get_test"
  /\ pc' = [pc EXCEPT ![t] = GetOrSwap]
  /\ UNCHANGED <<nonblock, msg_cnt, lists, get_mutex, put_mutex, arg, calls>>

SwapLock(t) ==
  /\ pc[t] = "swap_lock"
  /\ put_mutex = NoThread
  /\ put_mutex' = t
  /\ pc' = [pc EXCEPT ![t] = "swap_test"]
  /\ UNCHANGED <<nonblock, msg_cnt, lists, get_mutex, arg, calls>>

SwapWait(t) ==
  /\ pc[t] = "swap_test"
  /\ msg_cnt = 0 /\ nonblock = 0
  /\ put_mutex' = NoThread
  /\ pc' = [pc EXCEPT ![t] = "swap_wait"]
  /\ UNCHANGED <<nonblock, msg_cnt, lists, get_mutex, arg, calls>>

WakeNoPutter(f) == f                  \* mutant: the broadcast is forgotten

(* Lines 98-99: a full put list that is emptied wakes every putter. *)
WakePutters(f) == IF Full THEN BroadcastPut(f) ELSE f

(* Lines 98-107: the lists change places, so what get_list still held
   would end up in put_list uncounted.                                     *)
SwapLists(t) ==
  /\ pc[t] = "swap_test"
  /\ msg_cnt # 0 \/ nonblock = 1
  /\ get_list' = put_list
  /\ put_list' = get_list
  /\ msg_cnt' = 0
  /\ put_mutex' = NoThread
  /\ pc' = WakePutters([pc EXCEPT ![t] = IF msg_cnt > 0 THEN "get_take"
                                                       ELSE "null_return"])
  /\ UNCHANGED <<nonblock, get_mutex, todo, taken, arg, calls>>

GetTake(t) ==
  /\ pc[t] = "get_take"
  /\ taken' = taken \cup {Head(get_list)}
  /\ get_list' = Tail(get_list)
  /\ get_mutex' = NoThread
  /\ pc' = [pc EXCEPT ![t] = "idle"]
  /\ UNCHANGED <<nonblock, msg_cnt, put_list, put_mutex, todo, arg, calls>>

GetNull(t) ==
  /\ pc[t] = "null_return"
  /\ get_mutex' = NoThread
  /\ pc' = [pc EXCEPT ![t] = "idle"]
  /\ UNCHANGED <<nonblock, msg_cnt, lists, put_mutex, arg, calls>>

-----------------------------------------------------------------------------
(* msgqueue_set_nonblock and msgqueue_set_block: the flag is written        *)
(* outside every mutex.                                                     *)

CallSetNonblock(t) ==
  /\ pc[t] = "idle"
  /\ calls < MaxCalls
  /\ calls' = calls + 1
  /\ nonblock' = 1
  /\ pc' = [pc EXCEPT ![t] = "wake_all"]
  /\ UNCHANGED <<msg_cnt, lists, get_mutex, put_mutex, arg>>

WakeBoth(f) == SignalGet(BroadcastPut(f))

WakeAll(t) ==
  /\ pc[t] = "wake_all"
  /\ put_mutex = NoThread
  /\ WakeBoth([pc EXCEPT ![t] = "idle"])
  /\ UNCHANGED <<nonblock, msg_cnt, lists, get_mutex, put_mutex, arg, calls>>

CallSetBlock(t) ==
  /\ pc[t] = "idle"
  /\ calls < MaxCalls
  /\ calls' = calls + 1
  /\ nonblock' = 0
  /\ UNCHANGED <<msg_cnt, lists, get_mutex, put_mutex, pc, arg>>

-----------------------------------------------------------------------------
(* msgqueue_create *)
Init ==
  /\ nonblock = 0
  /\ msg_cnt = 0
  /\ get_list = <<>>
  /\ put_list = <<>>
  /\ get_mutex = NoThread
  /\ put_mutex = NoThread
  /\ pc = [t \in Threads |-> "idle"]
  /\ arg = [t \in Threads |-> NoMsg]
  /\ todo = Msgs
  /\ taken = {}
  /\ calls = 0

Call(t) ==
  \/ \E m \in Msgs : CallPut(t, m) \/ CallPutHead(t, m)
  \/ CallGet(t) \/ CallSetNonblock(t) \/ CallSetBlock(t)

(* The steps of a thread inside a call: it owes them once it has called. *)
Step(t) ==
  \/ PutLock(t) \/ PutWait(t) \/ PutInsert(t) \/ PutSignal(t)
  \/ HeadLock(t) \/ HeadLoop(t) \/ HeadTryLock(t) \/ HeadPush(t)
  \/ HeadWait(t) \/ HeadRelock(t) \/ HeadInsert(t) \/ HeadSignal(t)
  \/ GetLock(t) \/ GetTest(t) \/ SwapLock(t) \/ SwapWait(t)
  \/ SwapLists(t) \/ GetTake(t) \/ GetNull(t) \/ WakeAll(t)

Next == \E t \in Threads : Call(t) \/ Step(t) \/ SpuriousWakeup(t)

Spec == Init /\ [][Next]_vars

(* Every thread inside a call is scheduled again and again. *)
FairSpec == Spec /\ \A t \in Threads : WF_vars(Step(t))

-----------------------------------------------------------------------------
HoldsPut == {"put_test", "head_loop", "head_trylock", "head_full", "swap_test"}
HoldsGet == {"head_push", "get_test", "swap_lock", "swap_test", "swap_wait",
             "get_take", "null_return"}
Inserting == {"put_lock", "put_test", "put_wait", "head_lock", "head_loop",
              "head_trylock", "head_push", "head_full", "head_wait",
              "head_relock"}

TypeOK ==
  /\ nonblock \in {0, 1}
  /\ msg_cnt \in Nat
  /\ get_list \in Seq(Msgs)
  /\ put_list \in Seq(Msgs)
  /\ get_mutex \in Threads \cup {NoThread}
  /\ put_mutex \in Threads \cup {NoThread}
  /\ pc \in [Threads -> Labels]
  /\ arg \in [Threads -> Msgs \cup {NoMsg}]
  /\ todo \in SUBSET Msgs
  /\ taken \in SUBSET Msgs
  /\ calls \in Nat

(* A thread is inside a critical section exactly while it owns the mutex:
   lines 50-57, 65-85, 94-106 for put_mutex, 67-71 and 114-121 for
   get_mutex.                                                              *)
MutexOwnership ==
  \A t \in Threads : /\ pc[t] \in HoldsPut <=> put_mutex = t
                     /\ pc[t] \in HoldsGet <=> get_mutex = t

(* msg_cnt counts put_list and nothing else: put_head on the get list
   (lines 67-72) leaves it alone, the swap resets it.                      *)
CountIsPutList == msg_cnt = Len(put_list)

(* __msgqueue_swap (lines 102-104) may only run on an empty get list: it
   turns the old get list into the put list, and what is left in it would
   be lost.  A get that goes on to pop (line 116) has something to pop.    *)
SwapOnEmptyGetList ==
  \A t \in Threads :
    /\ pc[t] \in {"swap_lock", "swap_test", "swap_wait"} => get_list = <<>>
    /\ pc[t] = "get_take" => get_list # <<>>

(* A thread that is putting a message has it to itself until it is queued. *)
ArgHeld ==
  \A t \in Threads :
    /\ pc[t] \in Inserting <=> arg[t] \in Msgs
    /\ arg[t] \in Msgs => arg[t] \in todo
    /\ arg[t] \in Msgs => \A u \in Threads : arg[u] = arg[t] => u = t

(* No wakeup of a getter is lost: when a getter sleeps on get_cond (line 96)
   although a message is waiting or the queue is nonblocking, some other
   thread is on its way to signal it (lines 58, 86, 37).                   *)
NoLostGetWakeup ==
  \A t \in Threads :
    pc[t] = "swap_wait" =>
      /\ msg_cnt > 0 => \E u \in Threads :
                          pc[u] \in {"put_signal", "head_signal", "wake_all"}
      /\ nonblock = 1 => \E u \in Threads : pc[u] = "wake_all"

(* No wakeup of a putter is lost: a putter sleeps on put_cond (lines 52, 77)
   only while the put list is full, and while the queue blocks or
   set_nonblock (line 38) is about to wake it.                             *)
NoLostPutWakeup ==
  \A t \in Threads :
    pc[t] \in {"put_wait", "head_wait"} =>
      /\ Full
      /\ nonblock = 1 => \E u \in Threads : pc[u] = "wake_all"

(* The inductive invariant: the conjunction of the parts above. *)
Inv == TypeOK /\ MutexOwnership /\ CountIsPutList /\ SwapOnEmptyGetList
       /\ ArgHeld /\ NoLostGetWakeup /\ NoLostPutWakeup

(* The two lists, the get list first, behave as one queue: nothing is lost,
   duplicated or reordered by the swap (lines 90-108) or by a put_head that
   races a get (lines 66-74).                                              *)
Abstract == INSTANCE BlockingQueue WITH queue <- get_list \o put_list
Implements == Abstract!Spec

(* No call is forgotten.  set_nonblock (lines 34-40) releases every caller: a
   call made before or after it returns unless set_block revokes it.  And a put
   wakes a sleeping get (lines 58, 86): once a message is in the put list, the
   getter asleep on get_cond returns.                                      *)
CallsReturn == \A t \in Threads :
  /\ []<>(nonblock = 0 \/ pc[t] = "idle")
  /\ pc[t] = "swap_wait" /\ msg_cnt > 0 ~> pc[t] = "idle"
=============================================================================
