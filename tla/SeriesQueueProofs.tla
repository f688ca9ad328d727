------------------------- MODULE SeriesQueueProofs -------------------------
(***************************************************************************)
(* Proofs about SeriesQueue for every set of tasks and every buffer size.  *)
(***************************************************************************)
EXTENDS SeriesQueue, SequenceTheorems, TLAPS

USE BufSizeAssumption, NoTaskAssumption

(* Where the indices point and how many tasks are queued. *)
LEMMA IndexFacts ==
  ASSUME TypeOK
  PROVE  /\ Count \in 0..queue_size - 1
         /\ Count = 0 <=> front = back
         /\ Pred(front) \in 0..queue_size - 1
         /\ Succ(front) \in 0..queue_size - 1
         /\ Succ(back) \in 0..queue_size - 1
         /\ Count < queue_size - 1 <=> front # Succ(back)
         /\ Count < queue_size - 1 <=> Pred(front) # back
  BY DEF TypeOK, Count, Pred, Succ, Wrap

(* expand_queue makes an array of twice the size. *)
LEMMA ExpandedType ==
  ASSUME TypeOK, NEW q \in [0..queue_size - 1 -> Tasks \cup {NoTask}],
         NEW f \in 0..queue_size - 1
  PROVE  Expanded(q, f) \in [0..2 * queue_size - 1 -> Tasks \cup {NoTask}]
  BY DEF TypeOK, Expanded

(* The queued tasks form a sequence. *)
LEMMA DequeSeq ==
  ASSUME Inv
  PROVE  /\ Deque \in Seq(Tasks)
         /\ Len(Deque) = Count
         /\ \A i \in 1..Count : Deque[i] = At(i - 1)
<1>1. Count \in Nat
  BY IndexFacts DEF Inv
<1>2. \A i \in 1..Count : At(i - 1) \in Tasks
  BY <1>1 DEF Inv, QueuedAreTasks
<1>3. Deque \in [1..Count -> Tasks]
  BY <1>2 DEF Deque
<1> HIDE DEF Deque
<1>4. Deque \in Seq(Tasks) /\ Len(Deque) = Count
  BY <1>1, <1>3
<1> QED
  BY Zenon, <1>4 DEF Deque

DequeIsSeq == /\ Deque \in Seq(Tasks) /\ Len(Deque) = Count /\ Count \in Nat
              /\ \A i \in 1..Count : Deque[i] = At(i - 1)

LEMMA DequeShape == Inv => DequeIsSeq
BY DequeSeq, IndexFacts DEF Inv, DequeIsSeq

(* After a push the ring holds one task more: the new task in front of the
   old ones, or behind them.                                               *)
LEMMA PushFrontEffect ==
  ASSUME Inv, NEW x \in Tasks, push_front(x)
  PROVE  /\ Inv'
         /\ Count' = Count + 1
         /\ At(0)' = x
         /\ \A i \in 1..Count : At(i)' = At(i - 1)
<1> DEFINE p == Pred(front)
           q == [slots EXCEPT ![p] = x]
<1> USE DEF Inv, TypeOK
<1>1. Count \in 0..queue_size - 1 /\ p \in 0..queue_size - 1
  BY IndexFacts
<1>2. q \in [0..queue_size - 1 -> Tasks \cup {NoTask}]
  BY <1>1
<1>3. CASE p = back
  <2>1. /\ slots' = Expanded(q, p) /\ queue_size' = 2 * queue_size
        /\ front' = 0 /\ back' = queue_size /\ UNCHANGED <<last, popped>>
    BY <1>3 DEF push_front, Store, IsFull
  <2>2. TypeOK' /\ Count' = queue_size /\ Count + 1 = queue_size
    BY <2>1, <1>1, <1>2, <1>3, IndexFacts DEF Expanded, Count
  <2>3. \A i \in 0..queue_size - 1 :
          At(i)' = IF p + i < queue_size THEN q[p + i] ELSE q[p + i - queue_size]
    BY <2>1 DEF Expanded, At
  <2>4. At(0)' = x
    BY <2>3, <1>1, <1>2
  <2>5. ASSUME NEW i \in 1..Count PROVE At(i)' = At(i - 1)
    <3>1. i \in 1..queue_size - 1
      BY <1>1
    <3>2. CASE front = 0
      <4>1. p + i >= queue_size /\ p + i - queue_size = i - 1 /\ i - 1 # p
        BY <3>1, <3>2 DEF Pred
      <4>2. At(i)' = q[i - 1]
        BY <3>1, <4>1, <2>3, <1>1
      <4>3. q[i - 1] = slots[i - 1]
        BY <3>1, <4>1, <1>1
      <4>4. At(i - 1) = slots[i - 1]
        BY <3>1, <3>2 DEF At
      <4> QED
        BY <4>2, <4>3, <4>4
    <3>3. CASE front # 0
      <4>1. p = front - 1
        BY <3>3 DEF Pred
      <4>2. CASE p + i < queue_size
        BY <3>1, <3>3, <4>1, <4>2, <2>3, <1>1 DEF At
      <4>3. CASE ~(p + i < queue_size)
        BY <3>1, <3>3, <4>1, <4>3, <2>3, <1>1 DEF At
      <4> QED
        BY <4>2, <4>3
    <3> QED
      BY <3>2, <3>3
  <2>6. QueuedAreTasks'
    <3> SUFFICES ASSUME NEW i \in 0..Count' - 1 PROVE At(i)' \in Tasks
      BY DEF QueuedAreTasks
    <3>1. CASE i = 0
      BY <3>1, <2>4
    <3>2. CASE i # 0
      BY <3>2, <2>2, <2>5, <1>1 DEF QueuedAreTasks
    <3> QED
      BY <3>1, <3>2
  <2> QED
    BY Zenon, <2>2, <2>4, <2>5, <2>6
<1>4. CASE p # back
  <2>1. /\ slots' = q /\ UNCHANGED <<queue_size, back, last, popped>>
        /\ front' = p
    BY <1>4 DEF push_front, Store, IsFull
  <2>2. TypeOK' /\ Count' = Count + 1
    BY <2>1, <1>1, <1>2, <1>4 DEF Count, Pred
  <2>3. At(0)' = x
    BY <2>1, <1>1, <1>2 DEF At
  <2>4. \A i \in 1..Count : At(i)' = At(i - 1)
    BY <2>1, <2>2, <1>1, <1>4 DEF Pred, At, Count
  <2>5. QueuedAreTasks'
    BY <2>2, <2>3, <2>4, <1>1 DEF QueuedAreTasks
  <2> QED
    BY Zenon, <2>2, <2>3, <2>4, <2>5
<1> QED
  BY <1>3, <1>4

LEMMA PushBackEffect ==
  ASSUME Inv, NEW x \in Tasks, push_back(x)
  PROVE  /\ Inv'
         /\ Count' = Count + 1
         /\ \A n \in Nat : n = Count => At(n)' = x
         /\ \A i \in 0..Count - 1 : At(i)' = At(i)
<1> DEFINE b == Succ(back)
           q == [slots EXCEPT ![back] = x]
<1> USE DEF Inv, TypeOK
<1>1. Count \in 0..queue_size - 1 /\ b \in 0..queue_size - 1
  BY IndexFacts
<1>2. q \in [0..queue_size - 1 -> Tasks \cup {NoTask}]
  BY <1>1
<1>3. CASE front = b
  <2>1. /\ slots' = Expanded(q, front) /\ queue_size' = 2 * queue_size
        /\ front' = 0 /\ back' = queue_size /\ UNCHANGED <<last, popped>>
    BY <1>3 DEF push_back, Store, IsFull
  <2>2. TypeOK' /\ Count' = queue_size /\ Count + 1 = queue_size
    <3>1. Count + 1 = queue_size
      BY <1>1, <1>3, IndexFacts
    <3>2. Expanded(q, front) \in [0..2 * queue_size - 1 -> Tasks \cup {NoTask}]
      BY Zenon, <1>2, ExpandedType
    <3>3. TypeOK' /\ Count' = queue_size
      <4> HIDE DEF q
      <4>1. /\ slots' \in [0..queue_size' - 1 -> Tasks \cup {NoTask}]
            /\ queue_size' \in Nat /\ queue_size' > 1
        BY <2>1, <3>2
      <4>2. front' \in 0..queue_size' - 1 /\ back' \in 0..queue_size' - 1
        BY <2>1
      <4>3. Count' = queue_size
        BY <2>1 DEF Count
      <4> QED
        BY <2>1, <4>1, <4>2, <4>3
    <3> QED
      BY Zenon, <3>1, <3>3
  <2>3. \A i \in 0..queue_size - 1 :
          At(i)' = IF front + i < queue_size THEN q[front + i]
                                             ELSE q[front + i - queue_size]
    BY <2>1 DEF Expanded, At
  <2>4. ASSUME NEW n \in Nat, n = Count PROVE At(n)' = x
    BY <2>2, <2>3, <2>4, <1>1, <1>2 DEF Count
  <2>5. ASSUME NEW i \in 0..Count - 1 PROVE At(i)' = At(i)
    <3>1. i \in 0..queue_size - 1
      BY <1>1
    <3>2. CASE front + i < queue_size
      BY <3>1, <3>2, <2>3, <1>1 DEF At, Count
    <3>3. CASE ~(front + i < queue_size)
      <4> DEFINE j == front + i - queue_size
      <4>1. j \in 0..queue_size - 1 /\ j # back
        BY <3>1, <3>3, <1>1 DEF Count
      <4>2. At(i)' = q[j] /\ At(i) = slots[j]
        BY <3>1, <3>3, <2>3 DEF At
      <4>3. q[j] = slots[j]
        <5> HIDE DEF j
        <5> QED
          BY <4>1
      <4> QED
        BY <4>2, <4>3
    <3> QED
      BY <3>2, <3>3
  <2>6. QueuedAreTasks'
    <3> SUFFICES ASSUME NEW i \in 0..Count' - 1 PROVE At(i)' \in Tasks
      BY DEF QueuedAreTasks
    <3>1. CASE i = Count
      BY <3>1, <2>4, <1>1
    <3>2. CASE i # Count
      BY <3>2, <2>2, <2>5, <1>1 DEF QueuedAreTasks
    <3> QED
      BY <3>1, <3>2
  <2> QED
    BY Zenon, <2>2, <2>4, <2>5, <2>6
<1>4. CASE front # b
  <2>1. /\ slots' = q /\ UNCHANGED <<queue_size, front, last, popped>>
        /\ back' = b
    BY <1>4 DEF push_back, Store, IsFull
  <2>2. TypeOK' /\ Count' = Count + 1
    BY <2>1, <1>1, <1>2, <1>4 DEF Count, Succ, Wrap
  <2>4. ASSUME NEW n \in Nat, n = Count PROVE At(n)' = x
    BY <2>1, <2>4, <1>1, <1>2 DEF Count, At
  <2>5. ASSUME NEW i \in 0..Count - 1 PROVE At(i)' = At(i)
    BY <2>1, <1>1 DEF At, Count
  <2>6. QueuedAreTasks'
    <3> SUFFICES ASSUME NEW i \in 0..Count' - 1 PROVE At(i)' \in Tasks
      BY DEF QueuedAreTasks
    <3>1. CASE i = Count
      BY <3>1, <2>4, <1>1
    <3>2. CASE i # Count
      BY <3>2, <2>2, <2>5, <1>1 DEF QueuedAreTasks
    <3> QED
      BY <3>1, <3>2
  <2> QED
    BY Zenon, <2>2, <2>4, <2>5, <2>6
<1> QED
  BY <1>3, <1>4

(* A pop takes the front task, if there is one, and leaves the others. *)
LEMMA PopEffect ==
  ASSUME Inv, pop_task
  PROVE  /\ Inv'
         /\ front # back => /\ popped' = At(0) /\ last' = last
                            /\ Count' = Count - 1
                            /\ \A i \in 0..Count - 2 : At(i)' = At(i + 1)
         /\ front = back => /\ popped' = last /\ last' = NoTask
                            /\ UNCHANGED <<slots, queue_size, front, back>>
<1> USE DEF Inv, TypeOK
<1>1. Count \in 0..queue_size - 1 /\ Succ(front) \in 0..queue_size - 1
  BY IndexFacts
<1>2. CASE front # back
  <2>1. /\ popped' = slots[front] /\ front' = Succ(front)
        /\ UNCHANGED <<slots, queue_size, back, last>>
    BY <1>2 DEF pop_task
  <2>2. popped' = At(0) /\ popped' \in Tasks
    <3>1. 0 \in 0..Count - 1
      BY <1>1, <1>2, IndexFacts
    <3>2. At(0) \in Tasks
      BY <3>1 DEF QueuedAreTasks
    <3>3. At(0) = slots[front]
      BY DEF At
    <3> QED
      BY <2>1, <3>2, <3>3
  <2>3. TypeOK' /\ Count' = Count - 1
    <3>1. TypeOK'
      BY <2>1, <2>2, <1>1
    <3>2. Count' = Count - 1
      BY <2>1, <1>1, <1>2 DEF Count, Succ, Wrap
    <3> QED
      BY Zenon, <3>1, <3>2
  <2>4. ASSUME NEW i \in 0..Count - 2 PROVE At(i)' = At(i + 1)
    BY <2>1, <1>1, <1>2 DEF At, Count, Succ, Wrap
  <2>5. QueuedAreTasks'
    BY <2>3, <2>4, <1>1 DEF QueuedAreTasks
  <2> QED
    BY <2>1, <2>2, <2>3, <2>4, <2>5, <1>2
<1>3. CASE front = back
  <2>1. /\ popped' = last /\ last' = NoTask
        /\ UNCHANGED <<slots, queue_size, front, back>>
    BY <1>3 DEF pop_task
  <2> QED
    BY <2>1, <1>3 DEF Count, At, QueuedAreTasks
<1> QED
  BY <1>2, <1>3
-----------------------------------------------------------------------------
(* Every operation on the ring preserves the invariant: the indices stay in
   range and every slot between them holds a task.                         *)
THEOREM RingInvariant == Spec => []Inv
<1>1. Init => Inv
  BY DEF Init, Inv, TypeOK, QueuedAreTasks, Count
<1>2. Inv /\ [Next]_vars => Inv'
  <2> SUFFICES ASSUME Inv, [Next]_vars PROVE Inv'
    OBVIOUS
  <2>1. ASSUME NEW x \in Tasks, push_front(x) PROVE Inv'
    BY <2>1, PushFrontEffect
  <2>2. ASSUME NEW x \in Tasks, push_back(x) PROVE Inv'
    BY <2>2, PushBackEffect
  <2>3. CASE pop_task
    BY <2>3, PopEffect
  <2>4. ASSUME NEW x \in Tasks \cup {NoTask}, set_last_task(x) PROVE Inv'
    BY <2>4 DEF set_last_task, Inv, TypeOK, QueuedAreTasks, Count, At
  <2>5. CASE UNCHANGED vars
    BY <2>5 DEF vars, Inv, TypeOK, QueuedAreTasks, Count, At
  <2> QED
    BY <2>1, <2>2, <2>3, <2>4, <2>5 DEF Next
<1> QED
  BY <1>1, <1>2, PTL DEF Spec

(* The growing ring of SeriesWork implements an unbounded deque with a last
   task, whatever the size of the initial buffer.                          *)
THEOREM RingRefinement == Spec => Implements
<1>1. Init => Abstract!Init
  <2> SUFFICES ASSUME Init PROVE Abstract!Init
    OBVIOUS
  <2>1. Inv /\ Count = 0
    BY DEF Init, Inv, TypeOK, QueuedAreTasks, Count
  <2>2. Deque = <<>>
    BY <2>1, DequeSeq
  <2> QED
    BY <2>2 DEF Init, Abstract!Init
<1>2. Inv /\ Inv' /\ [Next]_vars => [Abstract!Next]_Abstract!vars
  <2> SUFFICES ASSUME Inv, Inv', [Next]_vars PROVE [Abstract!Next]_Abstract!vars
    OBVIOUS
  <2>1. /\ Deque \in Seq(Tasks) /\ Len(Deque) = Count /\ Count \in Nat
        /\ \A i \in 1..Count : Deque[i] = At(i - 1)
    BY DequeShape DEF DequeIsSeq
  <2>2. /\ Deque' \in Seq(Tasks) /\ Len(Deque') = Count' /\ Count' \in Nat
        /\ \A i \in 1..Count' : Deque'[i] = At(i - 1)'
    <3>1. DequeIsSeq'
      BY DequeShape, PTL
    <3> QED
      BY <3>1 DEF DequeIsSeq
  <2>3. ASSUME NEW x \in Tasks, push_front(x) PROVE Abstract!Next
    <3>1. /\ Count' = Count + 1 /\ At(0)' = x
          /\ \A i \in 1..Count : At(i)' = At(i - 1)
      BY <2>3, PushFrontEffect
    <3>2. /\ <<x>> \o Deque \in Seq(Tasks) /\ Len(<<x>> \o Deque) = 1 + Count
          /\ \A i \in 1..1 + Count :
               (<<x>> \o Deque)[i] = IF i <= 1 THEN x ELSE Deque[i - 1]
      BY <2>1, ConcatProperties
    <3>3. \A i \in 1..Count' : Deque'[i] = (<<x>> \o Deque)[i]
      <4> SUFFICES ASSUME NEW i \in 1..Count' PROVE Deque'[i] = (<<x>> \o Deque)[i]
        BY Zenon
      <4>1. Deque'[i] = At(i - 1)'
        BY <2>2
      <4>2. CASE i = 1
        BY <4>1, <4>2, <3>1, <3>2, <2>1
      <4>3. CASE i # 1
        <5>1. i - 1 \in 1..Count
          BY <4>3, <3>1, <2>1
        <5>2. At(i - 1)' = At(i - 1 - 1)
          BY <5>1, <3>1
        <5>3. Deque[i - 1] = At(i - 1 - 1)
          BY <5>1, <2>1
        <5> QED
          BY <4>1, <4>3, <5>1, <5>2, <5>3, <3>1, <3>2, <2>1
      <4> QED
        BY Zenon, <4>2, <4>3
    <3>4. Deque' = <<x>> \o Deque
      BY <2>1, <2>2, <3>1, <3>2, <3>3, SeqEqual
    <3>5. Abstract!PushFront(x)
      BY <2>3, <3>4 DEF Abstract!PushFront, push_front
    <3> QED
      BY <3>5 DEF Abstract!Next
  <2>4. ASSUME NEW x \in Tasks, push_back(x) PROVE Abstract!Next
    <3>1. /\ Count' = Count + 1
          /\ \A n \in Nat : n = Count => At(n)' = x
          /\ \A i \in 0..Count - 1 : At(i)' = At(i)
      BY <2>4, PushBackEffect
    <3>2. /\ Append(Deque, x) \in Seq(Tasks) /\ Len(Append(Deque, x)) = Count + 1
          /\ \A i \in 1..Count : Append(Deque, x)[i] = Deque[i]
          /\ Append(Deque, x)[Count + 1] = x
      BY <2>1, AppendProperties
    <3>3. \A i \in 1..Count' : Deque'[i] = Append(Deque, x)[i]
      <4> SUFFICES ASSUME NEW i \in 1..Count' PROVE Deque'[i] = Append(Deque, x)[i]
        BY Zenon
      <4>1. Deque'[i] = At(i - 1)'
        BY <2>2
      <4>2. CASE i = Count + 1
        BY <4>1, <4>2, <3>1, <3>2, <2>1
      <4>3. CASE i # Count + 1
        BY <4>1, <4>3, <3>1, <3>2, <2>1
      <4> QED
        BY Zenon, <4>2, <4>3
    <3>4. Deque' = Append(Deque, x)
      BY <2>1, <2>2, <3>1, <3>2, <3>3, SeqEqual
    <3>5. Abstract!PushBack(x)
      BY <2>4, <3>4 DEF Abstract!PushBack, push_back
    <3> QED
      BY <3>5 DEF Abstract!Next
  <2>5. CASE pop_task
    <3>1. CASE front # back
      <4>1. /\ popped' = At(0) /\ last' = last /\ Count' = Count - 1
            /\ \A i \in 0..Count - 2 : At(i)' = At(i + 1)
        BY <2>5, <3>1, PopEffect
      <4>2. Deque # <<>> /\ Count > 0
        BY <3>1, <2>1, IndexFacts DEF Inv
      <4>3. /\ Tail(Deque) \in Seq(Tasks) /\ Len(Tail(Deque)) = Count - 1
            /\ \A i \in 1..Count - 1 : Tail(Deque)[i] = Deque[i + 1]
        BY <2>1, <4>2, HeadTailProperties
      <4>4. \A i \in 1..Count' : Deque'[i] = Tail(Deque)[i]
        BY <2>1, <2>2, <4>1, <4>2, <4>3
      <4>5. Deque' = Tail(Deque) /\ Head(Deque) = At(0)
        BY <2>1, <2>2, <4>1, <4>2, <4>3, <4>4, SeqEqual
      <4> QED
        BY <4>1, <4>2, <4>5 DEF Abstract!Next, Abstract!PopTask
    <3>2. CASE front = back
      <4>1. /\ popped' = last /\ last' = NoTask
            /\ UNCHANGED <<slots, queue_size, front, back>>
        BY <2>5, <3>2, PopEffect
      <4>2. Deque = <<>> /\ Deque' = Deque
        BY <4>1, <3>2, <2>1, IndexFacts DEF Inv, Deque, Count, At
      <4> QED
        BY <4>1, <4>2 DEF Abstract!Next, Abstract!PopTask
    <3> QED
      BY <3>1, <3>2
  <2>6. ASSUME NEW x \in Tasks \cup {NoTask}, set_last_task(x) PROVE Abstract!Next
    <3>1. Abstract!SetLast(x)
      BY <2>6 DEF set_last_task, Abstract!SetLast, Deque, Count, At
    <3> QED
      BY <3>1 DEF Abstract!Next
  <2>7. CASE UNCHANGED vars
    BY <2>7 DEF vars, Abstract!vars, Deque, Count, At
  <2> QED
    BY <2>3, <2>4, <2>5, <2>6, <2>7 DEF Next
<1> QED
  BY <1>1, <1>2, RingInvariant, PTL DEF Spec, Implements, Abstract!Spec
=============================================================================
