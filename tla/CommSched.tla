----------------------------- MODULE CommSched -----------------------------
(***************************************************************************)
(* Connection slots of targets and of a group of targets                   *)
(* (src/kernel/CommScheduler.cc).  A session acquires a slot from a given  *)
(* target or from the least loaded target of the group, and may wait for   *)
(* one; the group keeps its targets in a heap ordered by relative load.    *)
(*                                                                         *)
(* A target outside the group is guarded by its own mutex, one inside by   *)
(* the mutex of the group; each critical section is one step.  A thread    *)
(* inside pthread_cond_timedwait is "asleep" until a signal, a timeout or  *)
(* a spurious wakeup makes it "awake", and goes on when it has the mutex.  *)
(***************************************************************************)
EXTENDS Integers, FiniteSets, FiniteSetsExt, Functions

CONSTANTS Threads, Targets,
          MaxLoad,          \* MaxLoad[t]: max_load of a target
          Group,        \* the group; also names its mutex and condition
          Timeouts,     \* a subset of {"now", "wait"}: timeout zero or not
          MaxCalls,     \* bound: calls of acquire per thread
          MaxChanges,   \* bound: successful calls of add and remove
          None

ASSUME SlotsAssumption ==
  /\ MaxLoad \in [Targets -> Nat \ {0}]
  /\ MaxCalls \in Nat /\ MaxChanges \in Nat
  /\ Group \notin Targets /\ None \notin Targets \cup {Group}

VARIABLES cur_load, max_load, wait_cnt,   \* of each target and of the group
          group,                          \* the targets inside the group
          tg_heap, heap_size, index,
          pc, obj, guard, timedout, calls, \* of each thread
          changes

vars == <<cur_load, max_load, wait_cnt, group, tg_heap, heap_size, index, pc, obj,
          guard, timedout, calls, changes>>

Objects == Targets \cup {Group}
Slots == 0..Cardinality(Targets) - 1

Init ==
  /\ cur_load = [o \in Objects |-> 0]
  /\ max_load = [o \in Objects |-> IF o = Group THEN 0 ELSE MaxLoad[o]]
  /\ wait_cnt = [o \in Objects |-> 0]
  /\ group = {}
  /\ tg_heap = [i \in Slots |-> None]
  /\ heap_size = 0
  /\ index = [t \in Targets |-> 0]
  /\ pc = [h \in Threads |-> "idle"]
  /\ obj = [h \in Threads |-> None]       \* what it waits for, then what it has
  /\ guard = [h \in Threads |-> None]     \* the mutex its wait gives back
  /\ timedout = [h \in Threads |-> FALSE]
  /\ calls = [h \in Threads |-> 0]
  /\ changes = 0

-----------------------------------------------------------------------------
(* The heap: an array and the index of each target in it.  `load` is the
   load of each target as the operation sees it.                           *)
target_cmp(load, a, b) ==
  LET x == load[a] * max_load[b]
      y == load[b] * max_load[a]
  IN IF x < y THEN -1 ELSE IF x > y THEN 1 ELSE 0

Put(r, i, t) == [heap |-> [r.heap EXCEPT ![i] = t],
                 index |-> [r.index EXCEPT ![t] = i]]

RECURSIVE AdjustFrom(_, _, _, _, _)
AdjustFrom(r, load, i, t, swap) ==
  LET up == (i - 1) \div 2
  IN IF i > 0 /\ target_cmp(load, t, r.heap[up]) < swap
     THEN AdjustFrom(Put(r, i, r.heap[up]), load, up, t, swap)
     ELSE Put(r, i, t)
heap_adjust(r, load, i, swap) == AdjustFrom(r, load, i, r.heap[i], swap)

LeftChild(r, load, t, c, size) == c             \* mutant: the right is ignored
SmallerChild(r, load, t, c, size) ==            \* lines 191-223
  IF /\ c + 1 < size
     /\ target_cmp(load, r.heap[c + 1],
          IF target_cmp(load, r.heap[c], t) < 0 THEN r.heap[c] ELSE t) < 0
  THEN c + 1 ELSE c

RECURSIVE SiftFrom(_, _, _, _, _)
SiftFrom(r, load, top, t, size) ==
  LET c == SmallerChild(r, load, t, 2 * top + 1, size)
  IN IF 2 * top + 1 < size /\ target_cmp(load, r.heap[c], t) < 0
     THEN SiftFrom(Put(r, top, r.heap[c]), load, c, t, size)
     ELSE Put(r, top, t)
heapify(r, load, top, size) == SiftFrom(r, load, top, r.heap[top], size)

Heap == [heap |-> tg_heap, index |-> index]
SetHeap(r) == tg_heap' = r.heap /\ index' = r.index
HeapUnchanged == UNCHANGED <<tg_heap, index>>

heap_insert(t) ==
  heap_adjust(Put(Heap, heap_size, t), cur_load, heap_size, 0)

SettleBoth(r, load, i, t, size) ==
  LET q == heap_adjust(r, load, i, 0) IN heapify(q, load, q.index[t], size)

heap_remove(i) ==
  LET size == heap_size - 1
      t == tg_heap[size]
  IN IF i = size THEN Heap
     ELSE SettleBoth(Put(Heap, i, t), cur_load, i, t, size)

-----------------------------------------------------------------------------
Mutex(o) == IF o \in group THEN Group ELSE o

(* A thread h that holds the mutex takes a slot of o: lines 109-117 and
   365-371.  The group hands out the target at the root of its heap.       *)
Chosen(o) == IF o = Group THEN tg_heap[0] ELSE o
Holds(t) == {t} \cup (IF t \in group THEN {Group} ELSE {})
Take(h, o) ==
  LET t == Chosen(o)
      load == [x \in Objects |-> cur_load[x] + IF x \in Holds(t) THEN 1 ELSE 0]
  IN /\ cur_load' = load
     /\ IF t \in group THEN SetHeap(heapify(Heap, load, index[t], heap_size))
                       ELSE HeapUnchanged
     /\ pc' = [pc EXCEPT ![h] = "holds"]
     /\ obj' = [obj EXCEPT ![h] = t]

HasRoom(o) == cur_load[o] < max_load[o]

AcquireTakes(h, o) ==
  /\ pc[h] = "idle" /\ calls[h] < MaxCalls
  /\ HasRoom(o)
  /\ Take(h, o)
  /\ calls' = [calls EXCEPT ![h] = @ + 1]
  /\ UNCHANGED <<max_load, wait_cnt, group, heap_size, guard, timedout, changes>>

AcquireFails(h, o) ==
  /\ pc[h] = "idle" /\ calls[h] < MaxCalls /\ "now" \in Timeouts
  /\ ~HasRoom(o)
  /\ calls' = [calls EXCEPT ![h] = @ + 1]
  /\ UNCHANGED <<cur_load, max_load, wait_cnt, group, tg_heap, heap_size, index,
                 pc, obj, guard, timedout, changes>>

AcquireWaits(h, o) ==
  /\ pc[h] = "idle" /\ calls[h] < MaxCalls /\ "wait" \in Timeouts
  /\ ~HasRoom(o)
  /\ wait_cnt' = [wait_cnt EXCEPT ![o] = @ + 1]
  /\ pc' = [pc EXCEPT ![h] = "asleep"]
  /\ obj' = [obj EXCEPT ![h] = o]
  /\ guard' = [guard EXCEPT ![h] = Mutex(o)]
  /\ calls' = [calls EXCEPT ![h] = @ + 1]
  /\ timedout' = [timedout EXCEPT ![h] = FALSE]
  /\ UNCHANGED <<cur_load, max_load, group, tg_heap, heap_size, index, changes>>

(* The wait ends without a signal. *)
WakeUp(h, late) ==
  /\ pc[h] = "asleep"
  /\ pc' = [pc EXCEPT ![h] = "awake"]
  /\ timedout' = [timedout EXCEPT ![h] = late]
  /\ UNCHANGED <<cur_load, max_load, wait_cnt, group, tg_heap, heap_size, index,
                 obj, guard, calls, changes>>
Timeout(h) == WakeUp(h, TRUE)
SpuriousWakeup(h) == WakeUp(h, FALSE)

(* Back from the wait with the mutex: lines 103-117 and 359-371. *)
ResumeTakes(h) ==
  /\ pc[h] = "awake" /\ HasRoom(obj[h])
  /\ wait_cnt' = [wait_cnt EXCEPT ![obj[h]] = @ - 1]
  /\ Take(h, obj[h])
  /\ UNCHANGED <<max_load, group, heap_size, guard, timedout, calls, changes>>

ResumeSleeps(h) ==
  /\ pc[h] = "awake" /\ ~HasRoom(obj[h]) /\ ~timedout[h]
  /\ pc' = [pc EXCEPT ![h] = "asleep"]
  /\ UNCHANGED <<cur_load, max_load, wait_cnt, group, tg_heap, heap_size, index,
                 obj, guard, timedout, calls, changes>>

ResumeFails(h) ==
  /\ pc[h] = "awake" /\ ~HasRoom(obj[h]) /\ timedout[h]
  /\ wait_cnt' = [wait_cnt EXCEPT ![obj[h]] = @ - 1]
  /\ pc' = [pc EXCEPT ![h] = "idle"]
  /\ obj' = [obj EXCEPT ![h] = None]
  /\ UNCHANGED <<cur_load, max_load, group, tg_heap, heap_size, index, guard,
                 timedout, calls, changes>>

-----------------------------------------------------------------------------
Sleepers(o) == {h \in Threads : pc[h] = "asleep" /\ obj[h] = o}

TargetOnly(t) == IF wait_cnt[t] > 0 THEN {t} ELSE {}    \* mutant
Signals(t) ==                                           \* lines 139-145
  IF wait_cnt[t] > 0 THEN {t}
  ELSE IF t \in group /\ wait_cnt[Group] > 0 THEN {Group} ELSE {}

(* pthread_cond_signal for the objects of sig, of which there is at most
   one; p is the control of the threads otherwise.                         *)
Signal(p, sig) ==
  LET hit == UNION {Sleepers(o) : o \in sig}
  IN IF hit = {} THEN pc' = p
     ELSE \E h \in hit : pc' = [p EXCEPT ![h] = "awake"]

release(h) ==
  /\ pc[h] = "holds"
  /\ LET t == obj[h]
         load == [x \in Objects |-> cur_load[x] - IF x \in Holds(t) THEN 1 ELSE 0]
     IN /\ cur_load' = load
        /\ Signal([pc EXCEPT ![h] = "idle"], Signals(t))
        /\ IF t \in group
           THEN \E has_idle_conn \in {0, 1} :
                  SetHeap(heap_adjust(Heap, load, index[t], has_idle_conn))
           ELSE HeapUnchanged
  /\ obj' = [obj EXCEPT ![h] = None]
  /\ UNCHANGED <<max_load, wait_cnt, group, heap_size, guard, timedout, calls,
                 changes>>

NotWaitedFor(t) == wait_cnt[t] = 0

AddSignals == IF wait_cnt[Group] > 0 /\ cur_load'[Group] < max_load'[Group]
              THEN {Group} ELSE {}

JoiningLoad(t) == cur_load[t]

(* CommSchedGroup::add and remove.  A call that is refused changes nothing. *)
add(t) ==
  /\ changes < MaxChanges
  /\ t \notin group /\ NotWaitedFor(t)
  /\ SetHeap(heap_insert(t))
  /\ heap_size' = heap_size + 1
  /\ group' = group \cup {t}
  /\ max_load' = [max_load EXCEPT ![Group] = @ + max_load[t]]
  /\ cur_load' = [cur_load EXCEPT ![Group] = @ + JoiningLoad(t)]
  /\ Signal(pc, AddSignals)
  /\ changes' = changes + 1
  /\ UNCHANGED <<wait_cnt, obj, guard, timedout, calls>>

remove(t) ==
  /\ changes < MaxChanges
  /\ t \in group /\ NotWaitedFor(t)
  /\ SetHeap(heap_remove(index[t]))
  /\ heap_size' = heap_size - 1
  /\ group' = group \ {t}
  /\ max_load' = [max_load EXCEPT ![Group] = @ - max_load[t]]
  /\ cur_load' = [cur_load EXCEPT ![Group] = @ - cur_load[t]]
  /\ changes' = changes + 1
  /\ UNCHANGED <<wait_cnt, pc, obj, guard, timedout, calls>>

Next ==
  \/ \E h \in Threads :
       \/ \E o \in Objects :
            AcquireTakes(h, o) \/ AcquireFails(h, o) \/ AcquireWaits(h, o)
       \/ Timeout(h) \/ SpuriousWakeup(h)
       \/ ResumeTakes(h) \/ ResumeSleeps(h) \/ ResumeFails(h)
       \/ release(h)
  \/ \E t \in Targets : add(t) \/ remove(t)

Spec == Init /\ [][Next]_vars

(* A thread that is awake gets the mutex, and a slot is released. *)
SchedFairness == \A h \in Threads :
  WF_vars(ResumeTakes(h) \/ ResumeSleeps(h) \/ ResumeFails(h)) /\ WF_vars(release(h))

FairSpec == Spec /\ SchedFairness

-----------------------------------------------------------------------------
TypeOK ==
  /\ cur_load \in [Objects -> Nat] /\ max_load \in [Objects -> Nat]
  /\ wait_cnt \in [Objects -> Nat]
  /\ group \subseteq Targets
  /\ tg_heap \in [Slots -> Targets \cup {None}]
  /\ heap_size = Cardinality(group)
  /\ index \in [Targets -> Slots]
  /\ pc \in [Threads -> {"idle", "asleep", "awake", "holds"}]
  /\ obj \in [Threads -> Objects \cup {None}]

(* No target is ever given more sessions than max_load, not even by the
   group, which looks only at its own sum and relies on the root of the heap
   being a target with room (lines 365-367); and every counter is the number
   of threads that have or wait for a slot.                                *)
LoadsAreExact ==
  /\ \A t \in Targets : /\ cur_load[t] <= max_load[t]
                        /\ cur_load[t] = Cardinality({h \in Threads :
                                           pc[h] = "holds" /\ obj[h] = t})
  /\ cur_load[Group] = MapThenSumSet(LAMBDA t : cur_load[t], group)
  /\ max_load[Group] = MapThenSumSet(LAMBDA t : max_load[t], group)
  /\ \A o \in Objects : wait_cnt[o] = Cardinality({h \in Threads :
                                        pc[h] \in {"asleep", "awake"} /\ obj[h] = o})

(* The heap holds the targets of the group, each at its index, and no target
   is less loaded than its parent, after any mix of acquire, release, add
   and remove.                                                             *)
HeapInOrder ==
  /\ {tg_heap[i] : i \in 0..heap_size - 1} = group
  /\ \A t \in group : index[t] < heap_size /\ tg_heap[index[t]] = t
  /\ \A i \in 1..heap_size - 1 :
       target_cmp(cur_load, tg_heap[i], tg_heap[(i - 1) \div 2]) >= 0

(* A thread that waits for a target comes back with the mutex that guards
   the target then: a target neither enters nor leaves the group while a
   thread waits for it (lines 302, 329).                                   *)
WaitsUnderRightMutex ==
  \A h \in Threads : pc[h] \in {"asleep", "awake"} => guard[h] = Mutex(obj[h])

(* What acquire (lines 365-367) relies on when it loads the root of the heap
   after looking at the sum of the group only, and when it comes back from
   waiting.                                                                *)
LoadInv == TypeOK /\ LoadsAreExact /\ HeapInOrder /\ WaitsUnderRightMutex

(* No thread sleeps for ever beside a free slot, although release wakes one
   thread of the target or of the group and some of its signals find nobody
   asleep (lines 139-145, 307-308).                                        *)
NoSlotForgotten ==
  \A h \in Threads : []<>~(pc[h] = "asleep" /\ HasRoom(obj[h]))
=============================================================================
