----------------------------- MODULE TaskDeque -----------------------------
(***************************************************************************)
(* What the task queue of a SeriesWork promises: a sequence of tasks of    *)
(* any length with pushes at both ends and pops at the front, and a last   *)
(* task that is popped when the sequence is empty.                         *)
(***************************************************************************)
EXTENDS Sequences

CONSTANTS Tasks, NoTask

VARIABLES deque,   \* the queued tasks, front first
          last,    \* the last task, or NoTask
          popped   \* what the latest pop_task returned

vars == <<deque, last, popped>>

Init == deque = <<>> /\ last = NoTask /\ popped = NoTask

PushFront(x) == deque' = <<x>> \o deque /\ UNCHANGED <<last, popped>>
PushBack(x) == deque' = Append(deque, x) /\ UNCHANGED <<last, popped>>
SetLast(x) == last' = x /\ UNCHANGED <<deque, popped>>

PopTask ==
  \/ /\ deque # <<>>
     /\ popped' = Head(deque)
     /\ deque' = Tail(deque)
     /\ UNCHANGED last
  \/ /\ deque = <<>>
     /\ popped' = last
     /\ last' = NoTask
     /\ UNCHANGED deque

Next == PopTask \/ SetLast(NoTask)
        \/ \E x \in Tasks : PushFront(x) \/ PushBack(x) \/ SetLast(x)

Spec == Init /\ [][Next]_vars
=============================================================================
