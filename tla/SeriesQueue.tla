---------------------------- MODULE SeriesQueue ----------------------------
(***************************************************************************)
(* The task queue inside SeriesWork (src/factory/Workflow.cc): a ring of   *)
(* queue_size slots with the indices front and back.  Equal indices mean   *)
(* an empty ring, so a push that makes them equal doubles the ring.  The   *)
(* operations on the ring run under the series' mutex and are one step     *)
(* each; set_last_task and unset_last_task are one assignment without it.  *)
(***************************************************************************)
EXTENDS Integers, Sequences

CONSTANTS Tasks,      \* the tasks
          NoTask,     \* NULL, and the content of a slot never written
          BufSize,    \* the number of slots of buf, 4 in the code
          MaxSize     \* bound: the ring is not expanded beyond this size

ASSUME BufSizeAssumption == BufSize \in Nat /\ BufSize > 1
ASSUME MaxSizeAssumption == MaxSize \in Nat
ASSUME NoTaskAssumption == NoTask \notin Tasks

VARIABLES slots,       \* queue: the array of slots
          queue_size,
          front, back,
          last,        \* the last task
          popped       \* what the latest pop_task returned

vars == <<slots, queue_size, front, back, last, popped>>

(* SeriesWork::SeriesWork: the ring starts in buf, whose slots are not
   initialised.                                                            *)
Init ==
  /\ queue_size = BufSize
  /\ slots = [i \in 0..BufSize - 1 |-> NoTask]
  /\ front = 0 /\ back = 0
  /\ last = NoTask /\ popped = NoTask

(* The number of queued tasks and the tasks themselves, front first. *)
Count == IF back >= front THEN back - front ELSE back - front + queue_size
At(i) == IF front + i < queue_size THEN slots[front + i]
                                   ELSE slots[front + i - queue_size]
Deque == [i \in 1..Count |-> At(i - 1)]

-----------------------------------------------------------------------------
Pred(i) == IF i = 0 THEN queue_size - 1 ELSE i - 1       \* lines 77-78

SuccNoWrap(i) == i + 1                \* mutant: an off-by-one in the wrap
Wrap(i) == IF i = queue_size THEN 0 ELSE i
Succ(i) == Wrap(i + 1)                                   \* lines 95-96, 127-128

CopyInPlace(q, f) == [i \in 0..2 * queue_size - 1 |->    \* mutant: not rotated
                        IF i < queue_size THEN q[i] ELSE NoTask]

(* expand_queue copies the full ring q, from index f on, to the start of an
   array twice as long.                                                    *)
Expanded(q, f) == [i \in 0..2 * queue_size - 1 |->
                     IF i >= queue_size THEN NoTask
                     ELSE IF f + i < queue_size THEN q[f + i]
                     ELSE q[f + i - queue_size]]

IsFull(f, b) == f = b                                    \* lines 83, 98

(* What a push leaves: the ring with slots q and indices f and b, expanded
   when the indices have met.                                              *)
Store(q, f, b) ==
  IF IsFull(f, b)
  THEN /\ 2 * queue_size <= MaxSize
       /\ slots' = Expanded(q, f)
       /\ queue_size' = 2 * queue_size
       /\ front' = 0 /\ back' = queue_size
  ELSE /\ slots' = q
       /\ front' = f /\ back' = b
       /\ UNCHANGED queue_size

push_front(x) ==
  /\ Store([slots EXCEPT ![Pred(front)] = x], Pred(front), back)
  /\ UNCHANGED <<last, popped>>

push_back(x) ==
  /\ Store([slots EXCEPT ![back] = x], front, Succ(back))
  /\ UNCHANGED <<last, popped>>

pop_task ==
  /\ \/ /\ front # back
        /\ popped' = slots[front]
        /\ front' = Succ(front)
        /\ UNCHANGED last
     \/ /\ front = back
        /\ popped' = last
        /\ last' = NoTask
        /\ UNCHANGED front
  /\ UNCHANGED <<slots, queue_size, back>>

(* set_last_task and, with NoTask, unset_last_task *)
set_last_task(x) ==
  /\ last' = x
  /\ UNCHANGED <<slots, queue_size, front, back, popped>>

Next == \/ \E x \in Tasks : push_front(x) \/ push_back(x)
        \/ pop_task
        \/ \E x \in Tasks \cup {NoTask} : set_last_task(x)

Spec == Init /\ [][Next]_vars

-----------------------------------------------------------------------------
TypeOK ==
  /\ queue_size \in Nat /\ queue_size > 1
  /\ slots \in [0..queue_size - 1 -> Tasks \cup {NoTask}]
  /\ front \in 0..queue_size - 1
  /\ back \in 0..queue_size - 1
  /\ last \in Tasks \cup {NoTask}
  /\ popped \in Tasks \cup {NoTask}

(* Every slot between front and back holds a task that was pushed: no pop
   returns an uninitialised slot of buf or of an expanded queue (lines 54,
   121), and so no pop ends the series early with a null task.             *)
QueuedAreTasks == \A i \in 0..Count - 1 : At(i) \in Tasks

Inv == TypeOK /\ QueuedAreTasks

(* The ring is an unbounded deque: wrapping the indices and expanding the
   ring (lines 52-71) neither lose nor reorder a task.                     *)
Abstract == INSTANCE TaskDeque WITH deque <- Deque
Implements == Abstract!Spec
=============================================================================
