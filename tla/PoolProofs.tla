----------------------------- MODULE PoolProofs -----------------------------
(***************************************************************************)
(* PoolInv holds for any number of workers, tasks and calls, as long as    *)
(* thrdpool_increase is not called on a pool of no threads.                *)
(***************************************************************************)
EXTENDS ThrdPool, FiniteSetTheorems, SequenceTheorems, TLAPS

(* Where the threads are, against the fields of the pool. *)
Control ==
  /\ \A a \in Actors : pc[a] = "inc" <=> mutex = a
  /\ mutex # None => nthreads > 0
  /\ pc[Main] \in {"creating", "main", "inc", "term_wait", "term_join", "drain"}
  /\ \A w \in Workers : pc[w] \notin {"creating", "main"}
  /\ destroyer # None => pc[Main] \notin {"creating", "inc"}
  /\ \A a \in Actors :
       pc[a] \in {"term_wait", "term_join", "drain"} <=> a = destroyer /\ ~torn
  /\ torn => destroyer # None
  /\ freed => torn
  /\ \A w \in Workers : w = destroyer /\ torn =>
       pc[w] \in {"run", "check", "done"} /\ (pc[w] = "done" <=> freed)

(* The wait of __thrdpool_terminate is over; the join after it is over. *)
Past == torn \/ \E a \in Actors : pc[a] \in {"term_join", "drain"}
Over == torn \/ \E a \in Actors : pc[a] = "drain"

(* Every worker but those that have left is counted, also when the pool is
   freed, and nobody is counted any more when the wait is over.            *)
Counts == /\ Cardinality(Counted) = nthreads + (IF mutex = None THEN 0 ELSE 1)
          /\ Past => nthreads = 0 /\ mutex = None

(* The workers that left by the exit routine. *)
Exited == {w \in Workers : pc[w] \in {"join", "done"} /\ w # destroyer}

(* They left one after the other, in an order s of length n. *)
Listed(s, n) == \A w \in Workers : w \in Exited <=> \E k \in 1..n : s[k] = w
Apart(s, n) == \A j, k \in 1..n : s[j] = s[k] => j = k

(* tid is the last of them, and each one joins the one before it. *)
EndsWithTid(s, n) == tid = IF n = 0 THEN None ELSE s[n]
Links(s, n) == \A k \in 1..n : joinee[s[k]] = IF k = 1 THEN None ELSE s[k - 1]

(* They end in that order, and who has been waited for by a thread that has
   ended, or by the destroyer, has been joined.                            *)
InOrder(s, n) ==
  \A j, k \in 1..n : j <= k /\ pc[s[k]] = "done" => pc[s[j]] = "done"
WaitedFor(s, n, k) == IF k = n THEN Over ELSE pc[s[k + 1]] = "done"
Waited(s, n) == \A k \in 1..n : joined[s[k]] = IF WaitedFor(s, n, k) THEN 1 ELSE 0

Chain(s, n) == /\ Listed(s, n) /\ Apart(s, n) /\ EndsWithTid(s, n)
               /\ Links(s, n) /\ InOrder(s, n) /\ Waited(s, n)

Joins ==
  /\ \E n \in Nat : \E s \in [1..n -> Workers] : Chain(s, n)
  /\ \A w \in Workers : w \notin Exited => joined[w] = IF w = destroyer THEN 1 ELSE 0
  /\ \A a \in Actors : pc[a] = "term_join" => joinee[a] = tid
  /\ Over => \A w \in Exited : pc[w] = "done"

(* A task was not scheduled, is queued or was given out. *)
Queued(x) == \E k \in 1..Len(queue) : queue[k] = x
NoneLost == /\ \A x \in Tasks : x \in todo \/ x \in done \/ Queued(x)
            /\ torn => queue = <<>>

PoolIInv == TypeOK /\ Control /\ Counts /\ Joins /\ NoneLost

(* What the count says (lines 34, 82, 106, 197): nobody is left once the wait of
   __thrdpool_terminate is over, and a worker that is left is counted.      *)
LEMMA CountsGive ==
  ASSUME PoolIInv
  PROVE  /\ IsFiniteSet(Counted)
         /\ Past => Counted = {}
         /\ \A w \in Counted : nthreads > 0
<1>1. IsFiniteSet(Counted)
  BY BoundsAssumption, FS_Subset DEF Counted
<1>2. Past => Counted = {}
  BY <1>1, FS_EmptySet DEF PoolIInv, Counts
<1>3. ASSUME NEW w \in Counted
      PROVE  nthreads > 0
  <2>1. Cardinality(Counted) # 0
    BY <1>1, FS_EmptySet
  <2> QED BY <2>1 DEF PoolIInv, Counts, Control, TypeOK
<1> QED BY <1>1, <1>2, <1>3

(* r is q with one element more, after the first i. *)
Shifted(r, q, i) ==
  /\ Len(r) = Len(q) + 1
  /\ \A k \in 1..Len(q) : r[IF k <= i THEN k ELSE k + 1] = q[k]

(* What msgqueue_put_head does to the queue (lines 209-222). *)
LEMMA Inserted ==
  ASSUME NEW S, NEW q \in Seq(S), NEW x \in S, NEW i \in 0..Len(q), NEW r,
         r = SubSeq(q, 1, i) \o <<x>> \o SubSeq(q, i + 1, Len(q))
  PROVE  r \in Seq(S) /\ Shifted(r, q, i)
<1> DEFINE u == SubSeq(q, 1, i)
           v == SubSeq(q, i + 1, Len(q))
           y == u \o <<x>>
<1>1. /\ u \in Seq(S) /\ Len(u) = i /\ \A k \in 1..i : u[k] = q[k]
      /\ v \in Seq(S) /\ Len(v) = Len(q) - i
      /\ \A k \in 1..(Len(q) - i) : v[k] = q[k + i]
  OBVIOUS
<1>2. r = y \o v
  OBVIOUS
<1>3. Len(q) \in Nat /\ i \in Nat /\ i <= Len(q)
  OBVIOUS
<1> HIDE DEF u, v
<1>4. y \in Seq(S) /\ Len(y) = i + 1 /\ \A k \in 1..i : y[k] = q[k]
  BY <1>1
<1> HIDE DEF y
<1>5. /\ r \in Seq(S) /\ Len(r) = Len(y) + Len(v)
      /\ \A k \in 1..(Len(y) + Len(v)) :
           r[k] = IF k <= Len(y) THEN y[k] ELSE v[k - Len(y)]
  <2>1. y \in Seq(S) /\ v \in Seq(S)
    BY <1>1, <1>4
  <2> QED BY ZenonT(60), <1>2, <2>1, ConcatProperties
<1>6. Len(y) + Len(v) = Len(q) + 1
  BY <1>1, <1>3, <1>4
<1>7. ASSUME NEW k \in 1..Len(q)
      PROVE  r[IF k <= i THEN k ELSE k + 1] = q[k]
  <2>1. CASE k <= i
    <3>1. k \in 1..i /\ k \in 1..(Len(q) + 1) /\ k <= i + 1
      BY <1>3, <2>1
    <3>2. r[k] = y[k]
      BY Zenon, <1>4, <1>5, <1>6, <3>1
    <3> QED BY Zenon, <1>4, <2>1, <3>1, <3>2
  <2>2. CASE ~(k <= i)
    <3>1. /\ k - i \in 1..(Len(q) - i) /\ (k - i) + i = k
          /\ k + 1 \in 1..(Len(q) + 1) /\ ~(k + 1 <= i + 1)
          /\ (k + 1) - (i + 1) = k - i
      BY <1>3, <2>2
    <3>2. r[k + 1] = v[k - i]
      BY Zenon, <1>4, <1>5, <1>6, <3>1
    <3>3. v[k - i] = q[k]
      BY <1>1, <3>1
    <3> QED BY Zenon, <2>2, <3>2, <3>3
  <2> QED BY Zenon, <2>1, <2>2
<1> QED BY Zenon, <1>5, <1>6, <1>7 DEF Shifted

(* Every step keeps the types; nthreads is never taken below zero (lines 34 and 82). *)
LEMMA TypeStep ==
  ASSUME ~IncreaseFromZero, PoolIInv, Next
  PROVE  TypeOK'
<1> USE ThreadsAssumption DEF Actors
<1>1. CASE CreateThread
  BY <1>1 DEF CreateThread, Unborn, PoolIInv, TypeOK, Control
<1>2. CASE CreateReturns
  BY <1>2 DEF CreateReturns, pool, PoolIInv, TypeOK, Control
<1>3. CASE CreateFails
  BY <1>3 DEF CreateFails, PoolIInv, TypeOK, Control
<1>4. ASSUME NEW a \in Actors, NEW x \in Tasks, Schedule(a, x)
      PROVE  TypeOK'
  BY <1>4 DEF Schedule, MayCall, PoolIInv, TypeOK, Control
<1>5. ASSUME NEW a \in Actors, Decrease(a)
      PROVE  TypeOK'
  <2>1. queue' \in Seq(Tasks \cup {Exit})
    BY <1>5, Inserted DEF Decrease, PoolIInv, TypeOK
  <2> QED BY <1>5, <2>1 DEF Decrease, PoolIInv, TypeOK
<1>6. ASSUME NEW a \in Actors, IncreaseCreate(a)
      PROVE  TypeOK'
  BY <1>6 DEF IncreaseCreate, MayCall, Unborn, PoolIInv, TypeOK, Control
<1>7. ASSUME NEW a \in Actors, Terminate(a)
      PROVE  TypeOK'
  <2>1. a # Main => a \in Counted
    BY <1>7 DEF Terminate, MayCall, Home, Counted, PoolIInv, TypeOK, Control
  <2>2. a # Main => nthreads - 1 \in Nat
    BY <2>1, CountsGive DEF PoolIInv, TypeOK, Control
  <2> QED BY <1>7, <2>2 DEF Terminate, PoolIInv, TypeOK, Control
<1>8. ASSUME NEW a \in Actors, IncreaseCount(a)
      PROVE  TypeOK'
  BY <1>8 DEF IncreaseCount, CountedIn, Home, PoolIInv, TypeOK, Control
<1>9. ASSUME NEW a \in Actors, TerminateWait(a)
      PROVE  TypeOK'
  BY <1>9 DEF TerminateWait, pool, JoinPrevious, PoolIInv, TypeOK, Control
<1>10. ASSUME NEW a \in Actors, TerminateJoin(a)
      PROVE  TypeOK'
  BY <1>10 DEF TerminateJoin, pool, JoinedBy, PoolIInv, TypeOK, Control
<1>11. ASSUME NEW a \in Actors, Drain(a)
      PROVE  TypeOK'
  BY <1>11 DEF Drain, PoolIInv, TypeOK, Control
<1>12. ASSUME NEW a \in Actors, TearDown(a)
      PROVE  TypeOK'
  BY <1>12 DEF TearDown, pool, Home, FreeHere, PoolIInv, TypeOK, Control
<1>13. ASSUME NEW w \in Workers, LoopTest(w)
      PROVE  TypeOK'
  BY <1>13 DEF LoopTest, pool, PoolIInv, TypeOK, Control
<1>14. ASSUME NEW w \in Workers, GetTask(w)
      PROVE  TypeOK'
  <2>1. queue # <<>> => /\ Head(queue) \in Tasks \cup {Exit}
                        /\ Tail(queue) \in Seq(Tasks \cup {Exit})
    BY DEF PoolIInv, TypeOK
  <2>2. queue' \in Seq(Tasks \cup {Exit}) /\ done' \subseteq Tasks
    BY <1>14, <2>1, Zenon DEF GetTask, PoolIInv, TypeOK
  <2>3. pc' \in [Actors -> {"unborn", "creating", "main", "loop", "get", "run",
                            "check", "exit", "join", "done", "inc", "term_wait",
                            "term_join", "drain"}]
    BY <1>14 DEF GetTask, PoolIInv, TypeOK, Control
  <2> QED BY <1>14, <2>2, <2>3 DEF GetTask, PoolIInv, TypeOK, Control
<1>15. ASSUME NEW w \in Workers, TaskReturns(w)
      PROVE  TypeOK'
  BY <1>15 DEF TaskReturns, pool, PoolIInv, TypeOK, Control
<1>16. ASSUME NEW w \in Workers, TaskExits(w)
      PROVE  TypeOK'
  BY <1>16 DEF TaskExits, MayCall, pool, PoolIInv, TypeOK, Control
<1>17. ASSUME NEW w \in Workers, Check(w)
      PROVE  TypeOK'
  BY <1>17, Zenon DEF Check, pool, PoolIInv, TypeOK, Control
<1>18. ASSUME NEW w \in Workers, ExitRoutine(w)
      PROVE  TypeOK'
  <2>1. w \in Counted
    BY <1>18 DEF ExitRoutine, Counted, PoolIInv, TypeOK, Control
  <2>2. nthreads - 1 \in Nat
    BY <2>1, CountsGive DEF PoolIInv, TypeOK, Control
  <2> QED BY <1>18, <2>2 DEF ExitRoutine, CountedOut, JoinPrevious, PoolIInv,
       TypeOK, Control
<1>19. ASSUME NEW w \in Workers, ExitJoin(w)
      PROVE  TypeOK'
  BY SMTT(30), <1>19 DEF ExitJoin, pool, JoinedBy, PoolIInv, TypeOK, Control
<1> QED BY <1>1, <1>2, <1>3, <1>4, <1>5, <1>6, <1>7, <1>8, <1>9, <1>10, <1>11,
           <1>12, <1>13, <1>14, <1>15, <1>16, <1>17, <1>18, <1>19 DEF Next,
           Call, Step, WorkerStep

(* Every step keeps what Control says of the threads; line 63 frees the pool only
   after thrdpool_destroy was called by that very thread.                  *)
LEMMA ControlStep ==
  ASSUME ~IncreaseFromZero, PoolIInv, Next
  PROVE  Control'
<1> USE ThreadsAssumption DEF Actors
<1>1. CASE CreateThread
  BY <1>1 DEF CreateThread, Unborn, PoolIInv, TypeOK, Control
<1>2. CASE CreateReturns
  BY <1>2 DEF CreateReturns, pool, PoolIInv, TypeOK, Control
<1>3. CASE CreateFails
  BY <1>3 DEF CreateFails, PoolIInv, TypeOK, Control
<1>4. ASSUME NEW a \in Actors, NEW x \in Tasks, Schedule(a, x)
      PROVE  Control'
  BY <1>4 DEF Schedule, MayCall, PoolIInv, TypeOK, Control
<1>5. ASSUME NEW a \in Actors, Decrease(a)
      PROVE  Control'
  BY <1>5 DEF Decrease, MayCall, PoolIInv, TypeOK, Control
<1>6. ASSUME NEW a \in Actors, IncreaseCreate(a)
      PROVE  Control'
  BY <1>6 DEF IncreaseCreate, MayCall, Unborn, Home, PoolIInv, TypeOK, Control
<1>7. ASSUME NEW a \in Actors, Terminate(a)
      PROVE  Control'
  BY <1>7 DEF Terminate, MayCall, Home, PoolIInv, TypeOK, Control
<1>8. ASSUME NEW a \in Actors, IncreaseCount(a)
      PROVE  Control'
  BY <1>8 DEF IncreaseCount, CountedIn, Home, PoolIInv, TypeOK, Control
<1>9. ASSUME NEW a \in Actors, TerminateWait(a)
      PROVE  Control'
  BY <1>9 DEF TerminateWait, pool, PoolIInv, TypeOK, Control
<1>10. ASSUME NEW a \in Actors, TerminateJoin(a)
      PROVE  Control'
  BY <1>10 DEF TerminateJoin, pool, PoolIInv, TypeOK, Control
<1>11. ASSUME NEW a \in Actors, Drain(a)
      PROVE  Control'
  BY <1>11 DEF Drain, PoolIInv, TypeOK, Control
<1>12. ASSUME NEW a \in Actors, TearDown(a)
      PROVE  Control'
  BY <1>12 DEF TearDown, pool, Home, FreeHere, PoolIInv, TypeOK, Control
<1>13. ASSUME NEW w \in Workers, LoopTest(w)
      PROVE  Control'
  BY <1>13 DEF LoopTest, pool, PoolIInv, TypeOK, Control
<1>14. ASSUME NEW w \in Workers, GetTask(w)
      PROVE  Control'
  BY <1>14 DEF GetTask, PoolIInv, TypeOK, Control
<1>15. ASSUME NEW w \in Workers, TaskReturns(w)
      PROVE  Control'
  BY <1>15 DEF TaskReturns, pool, PoolIInv, TypeOK, Control
<1>16. ASSUME NEW w \in Workers, TaskExits(w)
      PROVE  Control'
  BY <1>16 DEF TaskExits, MayCall, pool, Home, PoolIInv, TypeOK, Control
<1>17. ASSUME NEW w \in Workers, Check(w)
      PROVE  Control'
  <2>1. NoThreadLeft => w = destroyer /\ torn
    BY <1>17, CountsGive DEF Check, NoThreadLeft, Counted, PoolIInv, TypeOK,
         Control
  <2>2. w = destroyer => NoThreadLeft
    BY <1>17 DEF Check, NoThreadLeft, Counts, Past, PoolIInv, TypeOK, Control
  <2> QED BY <1>17, <2>1, <2>2 DEF Check, pool, PoolIInv, TypeOK, Control
<1>18. ASSUME NEW w \in Workers, ExitRoutine(w)
      PROVE  Control'
  BY <1>18 DEF ExitRoutine, CountedOut, PoolIInv, TypeOK, Control
<1>19. ASSUME NEW w \in Workers, ExitJoin(w)
      PROVE  Control'
  BY <1>19 DEF ExitJoin, pool, PoolIInv, TypeOK, Control
<1> QED BY <1>1, <1>2, <1>3, <1>4, <1>5, <1>6, <1>7, <1>8, <1>9, <1>10, <1>11,
           <1>12, <1>13, <1>14, <1>15, <1>16, <1>17, <1>18, <1>19 DEF Next,
           Call, Step, WorkerStep

(* A step that takes no thread in or out of the pool, and does not end the wait
   of __thrdpool_terminate, keeps the count.                               *)
LEMMA CountsKept ==
  ASSUME PoolIInv, UNCHANGED <<nthreads, mutex, destroyer, torn>>,
         \A b \in Actors :
           \/ pc'[b] = pc[b]
           \/ /\ pc[b] \notin {"unborn", "join", "done"}
              /\ pc'[b] \notin {"unborn", "join", "done"}
              /\ pc'[b] \in {"term_join", "drain"} => pc[b] \in {"term_join", "drain"}
  PROVE  Counts'
<1>1. Counted' = Counted
  BY DEF Counted, Actors
<1>2. Past' => Past
  BY SMTT(30) DEF Past
<1> QED BY <1>1, <1>2 DEF PoolIInv, Counts

(* Every step keeps the count exact: thrdpool_increase owes one thread while it
   holds the mutex (lines 194-199).                                         *)
LEMMA CountsStep ==
  ASSUME ~IncreaseFromZero, PoolIInv, Next
  PROVE  Counts'
<1> USE ThreadsAssumption DEF Actors
<1>0. PICK Places : pc \in [Actors -> Places]
  BY Zenon DEF PoolIInv, TypeOK
<1>1. CASE CreateThread
  <2>1. PICK v \in Unborn : pc' = [pc EXCEPT ![v] = "loop"]
    BY <1>1, Zenon DEF CreateThread
  <2>2. Counted' = Counted \cup {v} /\ v \notin Counted
    BY <1>1, <2>1 DEF CreateThread, Counted, Unborn, PoolIInv, TypeOK, Control
  <2>3. Cardinality(Counted') = Cardinality(Counted) + 1
    BY <2>2, CountsGive, FS_AddElement
  <2>4. ~Past'
    BY <1>1, <2>1 DEF CreateThread, Counts, Past, Unborn, PoolIInv, TypeOK,
         Control
  <2> QED BY <1>1, <2>3, <2>4 DEF CreateThread, Counts, PoolIInv, TypeOK,
       Control
<1>2. CASE CreateReturns
  BY <1>2, <1>0, CountsKept DEF CreateReturns, pool
<1>3. CASE CreateFails
  <2>1. Counted' = Counted
    BY <1>3 DEF CreateFails, Counted, PoolIInv, TypeOK, Control
  <2>2. Past' => Past
    BY <1>3 DEF CreateFails, Past, PoolIInv, TypeOK, Control
  <2> QED BY <1>3, <2>1, <2>2 DEF CreateFails, Counts, PoolIInv, TypeOK,
       Control
<1>4. ASSUME NEW a \in Actors, NEW x \in Tasks, Schedule(a, x)
      PROVE  Counts'
  BY <1>4, <1>0, CountsKept DEF Schedule
<1>5. ASSUME NEW a \in Actors, Decrease(a)
      PROVE  Counts'
  BY <1>5, <1>0, CountsKept DEF Decrease
<1>6. ASSUME NEW a \in Actors, IncreaseCreate(a)
      PROVE  Counts'
  <2>1. PICK v \in Unborn : pc' = [pc EXCEPT ![v] = "loop", ![a] = "inc"]
    BY <1>6, Zenon DEF IncreaseCreate
  <2>2. Counted' = Counted \cup {v} /\ v \notin Counted
    BY <1>6, <2>1 DEF IncreaseCreate, Counted, Unborn, MayCall, Home, PoolIInv,
         TypeOK, Control
  <2>3. Cardinality(Counted') = Cardinality(Counted) + 1
    BY <2>2, CountsGive, FS_AddElement, Zenon
  <2>4. ~Past'
    BY <1>6, <2>1 DEF IncreaseCreate, Counts, Past, Unborn, MayCall, Home,
         PoolIInv, TypeOK, Control
  <2> QED BY <1>6, <2>3, <2>4 DEF IncreaseCreate, Counts, PoolIInv, TypeOK,
       Control
<1>7. ASSUME NEW a \in Actors, Terminate(a)
      PROVE  Counts'
  <2>1. CASE a = Main
    <3>1. Counted' = Counted
      BY <1>7, <2>1 DEF Terminate, Counted, PoolIInv, TypeOK, Control
    <3>2. ~Past'
      BY <1>7 DEF Terminate, MayCall, Past, PoolIInv, TypeOK, Control
    <3> QED BY <1>7, <2>1, <3>1, <3>2 DEF Terminate, Counts, PoolIInv, TypeOK,
         Control
  <2>2. CASE a # Main
    <3>1. Counted' = Counted \ {a} /\ a \in Counted
      BY <1>7, <2>2 DEF Terminate, MayCall, Home, Counted, PoolIInv, TypeOK,
           Control
    <3>2. Cardinality(Counted') = Cardinality(Counted) - 1
      BY <3>1, CountsGive, FS_RemoveElement, Zenon
    <3>3. ~Past'
      BY <1>7 DEF Terminate, MayCall, Past, PoolIInv, TypeOK, Control
    <3> QED BY <1>7, <2>2, <3>2, <3>3 DEF Terminate, Counts, PoolIInv, TypeOK,
         Control
  <2> QED BY <2>1, <2>2
<1>8. ASSUME NEW a \in Actors, IncreaseCount(a)
      PROVE  Counts'
  <2>1. Counted' = Counted
    BY <1>8 DEF IncreaseCount, Counted, Home, PoolIInv, TypeOK, Control
  <2>2. Past' => Past
    BY <1>8 DEF IncreaseCount, Past, Home, PoolIInv, TypeOK, Control
  <2>3. mutex = a
    BY <1>8 DEF IncreaseCount, PoolIInv, TypeOK, Control
  <2> QED BY <1>8, <2>1, <2>2, <2>3 DEF IncreaseCount, CountedIn, Counts,
       PoolIInv, TypeOK, Control
<1>9. ASSUME NEW a \in Actors, TerminateWait(a)
      PROVE  Counts'
  <2>1. Counted' = Counted
    BY <1>9 DEF TerminateWait, Counted, PoolIInv, TypeOK, Control
  <2> QED BY <1>9, <2>1 DEF TerminateWait, pool, Counts, PoolIInv, TypeOK,
       Control
<1>10. ASSUME NEW a \in Actors, TerminateJoin(a)
      PROVE  Counts'
  BY <1>10, <1>0, CountsKept DEF TerminateJoin, pool
<1>11. ASSUME NEW a \in Actors, Drain(a)
      PROVE  Counts'
  BY <1>11, <1>0, CountsKept DEF Drain
<1>12. ASSUME NEW a \in Actors, TearDown(a)
      PROVE  Counts'
  <2>1. Counted' = Counted
    BY <1>12 DEF TearDown, Counted, Home, PoolIInv, TypeOK, Control
  <2>2. Past' => Past
    BY <1>12 DEF TearDown, Past, Home, PoolIInv, TypeOK, Control
  <2> QED BY <1>12, <2>1, <2>2 DEF TearDown, pool, Counts, PoolIInv, TypeOK,
       Control
<1>13. ASSUME NEW w \in Workers, LoopTest(w)
      PROVE  Counts'
  BY <1>13, <1>0, CountsKept DEF LoopTest, pool
<1>14. ASSUME NEW w \in Workers, GetTask(w)
      PROVE  Counts'
  BY <1>14, <1>0, CountsKept DEF GetTask
<1>15. ASSUME NEW w \in Workers, TaskReturns(w)
      PROVE  Counts'
  BY <1>15, <1>0, CountsKept DEF TaskReturns, pool
<1>16. ASSUME NEW w \in Workers, TaskExits(w)
      PROVE  Counts'
  BY <1>16, <1>0, CountsKept DEF TaskExits, pool, MayCall, Home
<1>17. ASSUME NEW w \in Workers, Check(w)
      PROVE  Counts'
  <2>1. NoThreadLeft => w = destroyer
    BY <1>17, CountsGive DEF Check, NoThreadLeft, Counted, PoolIInv, TypeOK,
         Control
  <2>2. Counted' = Counted
    BY <1>17, <2>1 DEF Check, Counted, PoolIInv, TypeOK, Control
  <2>3. Past' => Past
    BY <1>17 DEF Check, Past, PoolIInv, TypeOK, Control
  <2> QED BY <1>17, <2>2, <2>3 DEF Check, pool, Counts, PoolIInv, TypeOK,
       Control
<1>18. ASSUME NEW w \in Workers, ExitRoutine(w)
      PROVE  Counts'
  <2>1. Counted' = Counted \ {w} /\ w \in Counted
    BY <1>18 DEF ExitRoutine, Counted, PoolIInv, TypeOK, Control
  <2>2. Cardinality(Counted') = Cardinality(Counted) - 1
    BY <2>1, CountsGive, FS_RemoveElement
  <2>3. ~Past
    BY <2>1, CountsGive
  <2>4. ~Past'
    BY <1>18, <2>3 DEF ExitRoutine, Past, PoolIInv, TypeOK, Control
  <2> QED BY <1>18, <2>2, <2>4 DEF ExitRoutine, CountedOut, Counts, PoolIInv,
       TypeOK, Control
<1>19. ASSUME NEW w \in Workers, ExitJoin(w)
      PROVE  Counts'
  <2>1. Counted' = Counted
    BY <1>19 DEF ExitJoin, Counted, PoolIInv, TypeOK, Control
  <2>2. Past' => Past
    BY <1>19 DEF ExitJoin, Past, PoolIInv, TypeOK, Control
  <2> QED BY <1>19, <2>1, <2>2 DEF ExitJoin, pool, Counts, PoolIInv, TypeOK,
       Control
<1> QED BY <1>1, <1>2, <1>3, <1>4, <1>5, <1>6, <1>7, <1>8, <1>9, <1>10, <1>11,
           <1>12, <1>13, <1>14, <1>15, <1>16, <1>17, <1>18, <1>19 DEF Next,
           Call, Step, WorkerStep

(* A step that touches no thread that has left, nor tid, keeps the joins. *)
LEMMA JoinsKept ==
  ASSUME PoolIInv, tid' = tid, Exited' = Exited, Over' = Over,
         \A w \in Exited : /\ pc'[w] = pc[w] /\ joinee'[w] = joinee[w]
                           /\ joined'[w] = joined[w],
         \A w \in Workers : w \notin Exited =>
           joined'[w] = IF w = destroyer' THEN 1 ELSE 0,
         \A a \in Actors : pc'[a] = "term_join" => joinee'[a] = tid
  PROVE  Joins'
<1>0. PICK n \in Nat : \E s \in [1..n -> Workers] : Chain(s, n)
  BY DEF PoolIInv, Joins
<1>1. PICK s \in [1..n -> Workers] : Chain(s, n)
  BY <1>0
<1>2. Listed(s, n) /\ Apart(s, n) /\ EndsWithTid(s, n) /\ Links(s, n)
      /\ InOrder(s, n) /\ Waited(s, n)
  BY <1>1 DEF Chain
<1>3. \A k \in 1..n : s[k] \in Exited /\ (k # n => k + 1 \in 1..n)
  BY <1>2 DEF Listed
<1>4. Chain(s, n)'
  <2>1. Listed(s, n)' /\ Apart(s, n)' /\ EndsWithTid(s, n)'
    BY <1>2 DEF Listed, Apart, EndsWithTid
  <2>2. Links(s, n)'
    BY <1>2, <1>3 DEF Links
  <2>3. InOrder(s, n)'
    BY <1>2, <1>3 DEF InOrder
  <2>4. Waited(s, n)'
    BY <1>2, <1>3 DEF Waited, WaitedFor
  <2> QED BY <2>1, <2>2, <2>3, <2>4 DEF Chain
<1> QED BY <1>4 DEF PoolIInv, Joins

(* In particular, a step of threads that neither leave nor wait for others. *)
LEMMA OthersMove ==
  ASSUME PoolIInv, UNCHANGED <<tid, joinee, joined, destroyer, torn>>,
         \A b \in Actors :
           \/ pc'[b] = pc[b]
           \/ /\ pc[b] \notin {"join", "done", "drain"}
              /\ pc'[b] \notin {"join", "done", "drain", "term_join"}
  PROVE  Joins'
<1>1. Exited' = Exited /\ Over' = Over
  BY DEF Exited, Over, Actors
<1>2. \A w \in Exited : pc'[w] = pc[w]
  BY DEF Exited, Actors
<1> QED BY <1>1, <1>2, JoinsKept DEF PoolIInv, Joins

(* So does a call of thrdpool_destroy: a worker that makes it is detached in the
   same step (lines 79-83).                                                *)
LEMMA DestroyerSet ==
  ASSUME PoolIInv, UNCHANGED <<tid, joinee, torn>>, destroyer = None,
         NEW a \in Actors, destroyer' = a,
         pc[a] \notin {"join", "done", "drain"}, pc'[a] = "term_wait",
         \A b \in Actors : b # a => pc'[b] = pc[b],
         \A v \in Workers : joined'[v] = IF v = a THEN joined[v] + 1 ELSE joined[v]
  PROVE  Joins'
<1> USE ThreadsAssumption DEF Actors
<1>1. Exited' = Exited /\ Over' = Over /\ a \notin Exited
  BY DEF Exited, Over
<1>2. \A v \in Exited : v \in Workers /\ v # a
  BY <1>1 DEF Exited
<1>3. \A v \in Workers : v \notin Exited => joined[v] = 0
  BY DEF PoolIInv, Joins
<1>4. \A b \in Actors : pc'[b] = "term_join" => joinee'[b] = tid
  BY DEF PoolIInv, Joins
<1> QED BY <1>1, <1>2, <1>3, <1>4, JoinsKept

(* A thread at the exit routine becomes the last of the chain, to be joined by
   the next one or by the destroyer (lines 31-37).                         *)
LEMMA LinkAdded ==
  ASSUME PoolIInv, NEW w \in Workers, ExitRoutine(w)
  PROVE  Joins'
<1>0. PICK n \in Nat : \E s \in [1..n -> Workers] : Chain(s, n)
  BY DEF PoolIInv, Joins
<1>1. PICK s \in [1..n -> Workers] : Chain(s, n)
  BY <1>0
<1>2. Listed(s, n) /\ Apart(s, n) /\ EndsWithTid(s, n) /\ Links(s, n)
      /\ InOrder(s, n) /\ Waited(s, n)
  BY <1>1 DEF Chain
<1> DEFINE t == [k \in 1..(n + 1) |-> IF k = n + 1 THEN w ELSE s[k]]
<1>3. w # destroyer /\ w \notin Exited
  BY ThreadsAssumption DEF ExitRoutine, Exited, PoolIInv, TypeOK, Control,
       Actors
<1>4. ~Past
  BY <1>3, CountsGive DEF ExitRoutine, Counted
<1>5. ~Over /\ ~Over'
  BY <1>4 DEF ExitRoutine, Over, Past, PoolIInv, TypeOK, Control, Actors
<1>6. /\ tid' = w /\ joined' = joined /\ destroyer' = destroyer
      /\ joinee'[w] = tid /\ pc'[w] = "join" /\ joined[w] = 0
  BY <1>3 DEF ExitRoutine, JoinPrevious, Joins, PoolIInv, TypeOK, Control,
       Actors
<1>7. \A v \in Actors : v # w => joinee'[v] = joinee[v] /\ pc'[v] = pc[v]
  BY DEF ExitRoutine, PoolIInv, TypeOK, Control, Actors
<1>8. Exited' = Exited \cup {w}
  BY <1>3, <1>6, <1>7 DEF Exited, Actors
<1>9. \A k \in 1..n : s[k] \in Exited /\ s[k] \in Actors /\ s[k] # w
  BY <1>2, <1>3 DEF Listed, Actors
<1>10. /\ t \in [1..(n + 1) -> Workers] /\ t[n + 1] = w
       /\ \A k \in 1..n : k \in 1..(n + 1) /\ t[k] = s[k]
       /\ \A k \in 1..(n + 1) : k = n + 1 \/ k \in 1..n
  OBVIOUS
<1> HIDE DEF t
<1>11. Chain(t, n + 1)'
  <2>1. Listed(t, n + 1)'
    BY <1>2, <1>8, <1>10 DEF Listed
  <2>2. Apart(t, n + 1)'
    BY <1>2, <1>9, <1>10 DEF Apart
  <2>3. EndsWithTid(t, n + 1)'
    BY <1>6, <1>10 DEF EndsWithTid
  <2>4. Links(t, n + 1)'
    <3> SUFFICES ASSUME NEW k \in 1..(n + 1)
                 PROVE  joinee'[t[k]] = IF k = 1 THEN None ELSE t[k - 1]
      BY DEF Links
    <3>1. k # 1 => k - 1 \in 1..n
      OBVIOUS
    <3>2. CASE k \in 1..n
      BY SMTT(30), <1>2, <1>7, <1>9, <1>10, <3>1, <3>2 DEF Links
    <3>3. CASE k = n + 1
      BY SMTT(30), <1>2, <1>6, <1>10, <3>1, <3>3 DEF EndsWithTid
    <3> QED BY <1>10, <3>2, <3>3
  <2>5. InOrder(t, n + 1)'
    <3> SUFFICES ASSUME NEW j \in 1..(n + 1), NEW k \in 1..(n + 1), j <= k,
                        pc'[t[k]] = "done"
                 PROVE  pc'[t[j]] = "done"
      BY DEF InOrder
    <3>1. k \in 1..n /\ j \in 1..n
      BY <1>6, <1>10
    <3> QED BY <1>2, <1>7, <1>9, <1>10, <3>1 DEF InOrder
  <2>6. Waited(t, n + 1)'
    <3> SUFFICES ASSUME NEW k \in 1..(n + 1)
                 PROVE  joined[t[k]] = IF WaitedFor(t, n + 1, k)' THEN 1 ELSE 0
      BY <1>6, SMTT(20) DEF Waited
    <3>1. CASE k \in 1..n /\ k # n
      <4>1. k + 1 \in 1..n
        BY <3>1, SMTT(20)
      <4> QED BY <1>2, <1>7, <1>9, <1>10, <3>1, <4>1 DEF Waited, WaitedFor
    <3>2. CASE k \in 1..n /\ k = n
      BY <1>2, <1>5, <1>6, <1>10, <3>2 DEF Waited, WaitedFor
    <3>3. CASE k = n + 1
      BY <1>5, <1>6, <1>10, <3>3 DEF WaitedFor
    <3> QED BY <1>10, <3>1, <3>2, <3>3
  <2> QED BY <2>1, <2>2, <2>3, <2>4, <2>5, <2>6 DEF Chain
<1>12. \A v \in Workers : v \notin Exited' => joined'[v] = IF v = destroyer' THEN 1 ELSE 0
  BY <1>6, <1>8 DEF PoolIInv, Joins
<1>13. \A a \in Actors : pc'[a] # "term_join"
  BY <1>4, <1>6, <1>7 DEF Past
<1>14. \E m \in Nat : \E r \in [1..m -> Workers] : Chain(r, m)'
  BY <1>10, <1>11
<1> QED BY <1>5, <1>12, <1>13, <1>14 DEF Joins

(* The thread that a thread of the chain waited for is joined, once (lines
   38-39), and everybody before it had ended.                              *)
LEMMA LinkEnded ==
  ASSUME PoolIInv, NEW w \in Workers, ExitJoin(w)
  PROVE  Joins'
<1>0. PICK n \in Nat : \E s \in [1..n -> Workers] : Chain(s, n)
  BY DEF PoolIInv, Joins
<1>1. PICK s \in [1..n -> Workers] : Chain(s, n)
  BY <1>0
<1>2. Listed(s, n) /\ Apart(s, n) /\ EndsWithTid(s, n) /\ Links(s, n)
      /\ InOrder(s, n) /\ Waited(s, n)
  BY <1>1 DEF Chain
<1>3. w \in Exited /\ pc[w] = "join"
  BY ThreadsAssumption DEF ExitJoin, Exited, PoolIInv, TypeOK, Control, Actors
<1>4. PICK m \in 1..n : s[m] = w
  BY <1>2, <1>3 DEF Listed
<1>5. /\ tid' = tid /\ joinee' = joinee /\ destroyer' = destroyer /\ torn' = torn
      /\ pc'[w] = "done" /\ (joinee[w] # None => pc[joinee[w]] = "done")
      /\ \A v \in Actors : v # w => pc'[v] = pc[v]
      /\ \A v \in Workers : joined'[v] = joined[v] + IF v = joinee[w] THEN 1 ELSE 0
      /\ \A v \in Workers : joined[v] \in Nat
  BY SMTT(30) DEF ExitJoin, JoinReady, JoinedBy, pool, PoolIInv, TypeOK, Control, Actors
<1>6. ~Over /\ ~Over'
  <2>1. ~Over
    BY <1>3 DEF PoolIInv, Joins
  <2> QED BY <1>5, <2>1 DEF Over, Actors
<1>7. Exited' = Exited
  BY <1>3, <1>5 DEF Exited, Actors
<1>8. /\ \A k \in 1..n : s[k] \in Exited /\ s[k] \in Workers /\ s[k] \in Actors
      /\ \A k \in 1..n : k # n => k + 1 \in 1..n
      /\ \A k \in 1..n : s[k] = w <=> k = m
  BY <1>2, <1>4 DEF Listed, Apart, Actors
<1>9. /\ m # 1 => m - 1 \in 1..n /\ joinee[w] = s[m - 1] /\ pc[s[m - 1]] = "done"
      /\ m = 1 => joinee[w] = None
  <2>1. joinee[w] = IF m = 1 THEN None ELSE s[m - 1]
    BY <1>2, <1>4 DEF Links
  <2>2. m # 1 => m - 1 \in 1..n
    OBVIOUS
  <2> QED BY <1>5, <1>8, <2>1, <2>2, ThreadsAssumption
<1>10. Chain(s, n)'
  <2>1. Listed(s, n)' /\ Apart(s, n)' /\ EndsWithTid(s, n)' /\ Links(s, n)'
    BY <1>2, <1>5, <1>7 DEF Listed, Apart, EndsWithTid, Links
  <2>2. InOrder(s, n)'
    <3> SUFFICES ASSUME NEW j \in 1..n, NEW k \in 1..n, j <= k, pc'[s[k]] = "done"
                 PROVE  pc'[s[j]] = "done"
      BY DEF InOrder
    <3>1. CASE k # m
      BY SMTT(30), <1>2, <1>3, <1>5, <1>8, <3>1 DEF InOrder
    <3>2. CASE k = m /\ j # m
      <4>1. m # 1 /\ j <= m - 1 /\ m - 1 \in 1..n
        BY <3>2
      <4>2. pc[s[j]] = "done"
        BY <1>2, <1>9, <4>1 DEF InOrder
      <4> QED BY <1>5, <1>8, <3>2, <4>2
    <3>3. CASE j = m
      BY <1>4, <1>5, <3>3
    <3> QED BY <3>1, <3>2, <3>3
  <2>3. Waited(s, n)'
    <3> SUFFICES ASSUME NEW k \in 1..n
                 PROVE  joined'[s[k]] = IF WaitedFor(s, n, k)' THEN 1 ELSE 0
      BY DEF Waited
    <3>1. joined[s[k]] = IF WaitedFor(s, n, k) THEN 1 ELSE 0
      BY <1>2 DEF Waited
    <3>2. joined'[s[k]] = joined[s[k]] + IF s[k] = joinee[w] THEN 1 ELSE 0
      BY <1>5, <1>8
    <3>3. CASE k + 1 = m
      <4>1. m # 1 /\ k = m - 1 /\ k # n
        BY SMTT(30), <3>3
      <4>2. ~WaitedFor(s, n, k) /\ WaitedFor(s, n, k)'
        BY <1>3, <1>4, <1>5, <3>3, <4>1 DEF WaitedFor
      <4>3. s[k] = joinee[w]
        BY <1>9, <4>1
      <4> QED BY <3>1, <3>2, <4>2, <4>3
    <3>4. CASE k + 1 # m
      <4>1. s[k] # joinee[w]
        BY <1>2, <1>8, <1>9, <3>4, ThreadsAssumption, SMTT(20) DEF Apart
      <4>2. WaitedFor(s, n, k)' <=> WaitedFor(s, n, k)
        BY <1>5, <1>6, <1>8, <3>4, SMTT(20) DEF WaitedFor
      <4>3. joined'[s[k]] = joined[s[k]]
        BY <1>5, <1>8, <3>2, <4>1
      <4> QED BY <3>1, <4>2, <4>3
    <3> QED BY <3>3, <3>4
  <2> QED BY <2>1, <2>2, <2>3 DEF Chain
<1>11. \A v \in Workers : v \notin Exited' => joined'[v] = IF v = destroyer' THEN 1 ELSE 0
  <2>1. \A v \in Workers : v \notin Exited => v # joinee[w]
    BY <1>8, <1>9, ThreadsAssumption
  <2>2. \A v \in Workers : v \notin Exited => joined[v] = IF v = destroyer THEN 1 ELSE 0
    BY DEF PoolIInv, Joins
  <2> QED BY SMTT(30), <1>5, <1>7, <2>1, <2>2
<1>12. \A a \in Actors : pc'[a] = "term_join" => joinee'[a] = tid'
  BY <1>5 DEF PoolIInv, Joins
<1> QED BY <1>6, <1>10, <1>11, <1>12 DEF Joins

(* The destroyer joins the last thread of the chain (lines 89-90): all the
   others have ended and been joined before.                               *)
LEMMA LastJoined ==
  ASSUME PoolIInv, NEW a \in Actors, TerminateJoin(a)
  PROVE  Joins'
<1>0. PICK n \in Nat : \E s \in [1..n -> Workers] : Chain(s, n)
  BY DEF PoolIInv, Joins
<1>1. PICK s \in [1..n -> Workers] : Chain(s, n)
  BY <1>0
<1>2. Listed(s, n) /\ Apart(s, n) /\ EndsWithTid(s, n) /\ Links(s, n)
      /\ InOrder(s, n) /\ Waited(s, n)
  BY <1>1 DEF Chain
<1>3. a = destroyer /\ ~torn /\ a \notin Exited /\ joinee[a] = tid /\ ~Over
  BY ThreadsAssumption DEF TerminateJoin, Exited, Joins, Over, PoolIInv,
       TypeOK, Control, Actors
<1>4. /\ tid' = tid /\ joinee' = joinee /\ destroyer' = destroyer
      /\ pc'[a] = "drain" /\ (tid # None => pc[tid] = "done")
      /\ \A v \in Actors : v # a => pc'[v] = pc[v]
      /\ \A v \in Workers : joined'[v] = joined[v] + IF v = tid THEN 1 ELSE 0
      /\ \A v \in Workers : joined[v] \in Nat
  BY <1>3, SMTT(20) DEF TerminateJoin, JoinReady, JoinedBy, pool, PoolIInv,
       TypeOK, Control, Actors
<1>5. Over' /\ Exited' = Exited
  BY <1>3, <1>4 DEF Over, Exited, Actors
<1>6. /\ \A k \in 1..n : /\ s[k] \in Exited /\ s[k] \in Workers
                         /\ s[k] \in Actors /\ s[k] # a
      /\ \A k \in 1..n : k # n => k + 1 \in 1..n
      /\ \A k \in 1..n : n \in 1..n /\ k <= n
  BY <1>2, <1>3 DEF Listed, Actors
<1>7. \A k \in 1..n : pc[s[k]] = "done" /\ (s[k] = tid <=> k = n)
  <2> SUFFICES ASSUME NEW k \in 1..n
               PROVE  pc[s[k]] = "done" /\ (s[k] = tid <=> k = n)
    OBVIOUS
  <2>1. n \in 1..n /\ k <= n /\ tid = s[n]
    BY <1>2, <1>6 DEF EndsWithTid
  <2>2. pc[s[n]] = "done"
    BY <1>4, <1>6, <2>1, ThreadsAssumption
  <2>3. pc[s[k]] = "done"
    BY <1>2, <2>1, <2>2 DEF InOrder
  <2> QED BY <1>2, <2>1, <2>3 DEF Apart
<1>8. Chain(s, n)'
  <2>1. Listed(s, n)' /\ Apart(s, n)' /\ EndsWithTid(s, n)' /\ Links(s, n)'
    BY <1>2, <1>4, <1>5 DEF Listed, Apart, EndsWithTid, Links
  <2>2. \A k \in 1..n : pc'[s[k]] = "done"
    BY <1>4, <1>6, <1>7
  <2>3. Waited(s, n)'
    <3> SUFFICES ASSUME NEW k \in 1..n
                 PROVE  joined'[s[k]] = 1
      BY <1>5, <1>6, <2>2 DEF Waited, WaitedFor
    <3>1. joined[s[k]] = IF k = n THEN 0 ELSE 1
      BY <1>2, <1>3, <1>6, <1>7 DEF Waited, WaitedFor
    <3>2. joined'[s[k]] = joined[s[k]] + IF k = n THEN 1 ELSE 0
      BY <1>4, <1>6, <1>7
    <3> QED BY <3>1, <3>2
  <2> QED BY <2>1, <2>2, <2>3 DEF Chain, InOrder
<1>9. \A v \in Workers : v \notin Exited' => joined'[v] = IF v = destroyer' THEN 1 ELSE 0
  <2>1. \A v \in Workers : v \notin Exited => v # tid
    <3>1. n # 0 => n \in 1..n
      OBVIOUS
    <3> QED BY <1>2, <1>6, <3>1, ThreadsAssumption DEF EndsWithTid
  <2>2. \A v \in Workers : v \notin Exited => joined[v] = IF v = destroyer THEN 1 ELSE 0
    BY DEF PoolIInv, Joins
  <2> QED BY <1>4, <1>5, <2>1, <2>2
<1>10. \A b \in Actors : pc'[b] # "term_join"
  BY SMTT(30), <1>3, <1>4 DEF PoolIInv, TypeOK, Control, Actors
<1>11. \A v \in Exited' : pc'[v] = "done"
  <2>1. \A v \in Exited : \E k \in 1..n : s[k] = v
    BY SMTT(30), <1>2 DEF Listed, Exited
  <2> QED BY <1>4, <1>5, <1>6, <1>7, <2>1
<1> QED BY SMTT(30), <1>8, <1>9, <1>10, <1>11 DEF Joins

(* Every step keeps the chain of joins: the exit routine puts its thread at the end
   of it (lines 32-33), a join of lines 39 and 90 ends at its next link.     *)
LEMMA JoinsStep ==
  ASSUME ~IncreaseFromZero, PoolIInv, Next
  PROVE  Joins'
<1> USE ThreadsAssumption DEF Actors
<1>0. PICK Places : pc \in [Actors -> Places]
  BY Zenon DEF PoolIInv, TypeOK
<1>1. CASE CreateThread
  BY <1>1, <1>0, OthersMove DEF CreateThread, Unborn
<1>2. CASE CreateReturns
  BY <1>2, <1>0, OthersMove DEF CreateReturns, pool
<1>3. CASE CreateFails
  <2>1. destroyer = None
    BY <1>3 DEF CreateFails, PoolIInv, TypeOK, Control
  <2> QED BY <1>3, <1>0, <2>1, DestroyerSet DEF CreateFails
<1>4. ASSUME NEW a \in Actors, NEW x \in Tasks, Schedule(a, x)
      PROVE  Joins'
  BY <1>4, <1>0, OthersMove DEF Schedule
<1>5. ASSUME NEW a \in Actors, Decrease(a)
      PROVE  Joins'
  BY <1>5, <1>0, OthersMove DEF Decrease
<1>6. ASSUME NEW a \in Actors, IncreaseCreate(a)
      PROVE  Joins'
  BY <1>6, <1>0, OthersMove DEF IncreaseCreate, Unborn, MayCall, Home
<1>7. ASSUME NEW a \in Actors, Terminate(a)
      PROVE  Joins'
  <2>1. \A v \in Workers : joined'[v] = IF v = a THEN joined[v] + 1 ELSE joined[v]
    BY <1>7 DEF Terminate, PoolIInv, TypeOK
  <2> QED BY <1>7, <1>0, <2>1, DestroyerSet DEF Terminate, MayCall, Home
<1>8. ASSUME NEW a \in Actors, IncreaseCount(a)
      PROVE  Joins'
  BY SMTT(30), <1>8, <1>0, OthersMove DEF IncreaseCount, Home
<1>9. ASSUME NEW a \in Actors, TerminateWait(a)
      PROVE  Joins'
  <2>1. a = destroyer
    BY <1>9 DEF TerminateWait, PoolIInv, TypeOK, Control
  <2>2. Exited' = Exited /\ Over' = Over /\ a \notin Exited
        /\ \A v \in Exited : pc'[v] = pc[v]
    BY <1>9, <1>0, <2>1 DEF TerminateWait, Exited, Over
  <2>3. \A b \in Actors : b # a => joinee'[b] = joinee[b] /\ pc'[b] = pc[b]
    BY <1>9, <1>0 DEF TerminateWait, PoolIInv, TypeOK
  <2>4. joinee'[a] = tid
    BY <1>9 DEF TerminateWait, JoinPrevious, PoolIInv, TypeOK
  <2>5. \A v \in Exited : v \in Actors /\ v # a
    BY <2>2 DEF Exited
  <2> QED BY SMTT(30), <1>9, <2>2, <2>3, <2>4, <2>5, JoinsKept DEF TerminateWait, pool, PoolIInv, Joins
<1>10. ASSUME NEW a \in Actors, TerminateJoin(a)
      PROVE  Joins'
  BY <1>10, LastJoined
<1>11. ASSUME NEW a \in Actors, Drain(a)
      PROVE  Joins'
  BY SMTT(30), <1>11, <1>0, OthersMove DEF Drain
<1>12. ASSUME NEW a \in Actors, TearDown(a)
      PROVE  Joins'
  <2>1. a = destroyer
    BY <1>12 DEF TearDown, PoolIInv, TypeOK, Control
  <2>2. Exited' = Exited /\ Over' = Over /\ \A v \in Exited : pc'[v] = pc[v]
    BY <1>12, <1>0, <2>1 DEF TearDown, Exited, Over, Home
  <2>3. \A b \in Actors : pc'[b] = "term_join" => pc[b] = "term_join"
    BY <1>12, <1>0 DEF TearDown, Home
  <2> QED BY <1>12, <2>2, <2>3, JoinsKept DEF TearDown, pool, PoolIInv, Joins
<1>13. ASSUME NEW w \in Workers, LoopTest(w)
      PROVE  Joins'
  BY <1>13, <1>0, OthersMove DEF LoopTest, pool
<1>14. ASSUME NEW w \in Workers, GetTask(w)
      PROVE  Joins'
  BY <1>14, <1>0, OthersMove DEF GetTask
<1>15. ASSUME NEW w \in Workers, TaskReturns(w)
      PROVE  Joins'
  BY <1>15, <1>0, OthersMove DEF TaskReturns, pool
<1>16. ASSUME NEW w \in Workers, TaskExits(w)
      PROVE  Joins'
  BY SMTT(30), <1>16, <1>0, OthersMove DEF TaskExits, pool, MayCall, Home
<1>17. ASSUME NEW w \in Workers, Check(w)
      PROVE  Joins'
  <2>1. w # destroyer => w \in Counted
    BY <1>17 DEF Check, Counted
  <2>2. NoThreadLeft => w = destroyer
    BY <2>1, CountsGive DEF NoThreadLeft
  <2>3. Exited' = Exited /\ Over' = Over /\ \A v \in Exited : pc'[v] = pc[v]
    BY <1>17, <1>0, <2>2 DEF Check, Exited, Over
  <2>4. \A b \in Actors : pc'[b] = "term_join" => pc[b] = "term_join"
    BY <1>17, <1>0 DEF Check
  <2> QED BY <1>17, <2>3, <2>4, JoinsKept DEF Check, pool, PoolIInv, Joins
<1>18. ASSUME NEW w \in Workers, ExitRoutine(w)
      PROVE  Joins'
  BY <1>18, LinkAdded
<1>19. ASSUME NEW w \in Workers, ExitJoin(w)
      PROVE  Joins'
  BY SMTT(30), <1>19, LinkEnded
<1> QED BY <1>1, <1>2, <1>3, <1>4, <1>5, <1>6, <1>7, <1>8, <1>9, <1>10, <1>11,
           <1>12, <1>13, <1>14, <1>15, <1>16, <1>17, <1>18, <1>19 DEF Next,
           Call, Step, WorkerStep

(* Every step keeps each task somewhere (lines 52-58, 160-176, 236-245). *)
LEMMA TasksStep ==
  ASSUME ~IncreaseFromZero, PoolIInv, Next
  PROVE  NoneLost'
<1> USE ThreadsAssumption DEF Actors
<1>1. CASE CreateThread
  BY <1>1 DEF CreateThread, PoolIInv, NoneLost, Queued
<1>2. CASE CreateReturns
  BY <1>2 DEF CreateReturns, PoolIInv, NoneLost, Queued, pool
<1>3. CASE CreateFails
  BY <1>3 DEF CreateFails, PoolIInv, NoneLost, Queued
<1>4. ASSUME NEW a \in Actors, NEW x \in Tasks, Schedule(a, x)
      PROVE  NoneLost'
  <2>1. /\ Len(queue) \in Nat /\ queue'[Len(queue) + 1] = x
        /\ Len(queue') = Len(queue) + 1
        /\ \A k \in 1..Len(queue) : k \in 1..Len(queue') /\ queue'[k] = queue[k]
    BY <1>4 DEF Schedule, PoolIInv, TypeOK
  <2> QED BY <1>4, <2>1 DEF Schedule, MayCall, PoolIInv, NoneLost, Queued
<1>5. ASSUME NEW a \in Actors, Decrease(a)
      PROVE  NoneLost'
  <2>1. queue \in Seq(Tasks \cup {Exit})
    BY DEF PoolIInv, TypeOK
  <2>2. PICK i \in 0..Len(queue) :
          queue' = SubSeq(queue, 1, i) \o <<Exit>> \o SubSeq(queue, i + 1, Len(queue))
    BY <1>5, Zenon DEF Decrease
  <2>3. Shifted(queue', queue, i)
    <3>1. Exit \in Tasks \cup {Exit}
      OBVIOUS
    <3> QED BY Zenon, <2>1, <2>2, <3>1, Inserted
  <2>4. \A k \in 1..Len(queue) : (IF k <= i THEN k ELSE k + 1) \in 1..Len(queue')
    BY <2>1, <2>3 DEF Shifted
  <2>5. \A x \in Tasks : Queued(x) => Queued(x)'
    BY <2>3, <2>4 DEF Queued, Shifted
  <2>6. todo' = todo /\ done' = done /\ torn' = torn /\ ~torn
    BY <1>5 DEF Decrease, MayCall
  <2> QED BY <2>5, <2>6 DEF PoolIInv, NoneLost
<1>6. ASSUME NEW a \in Actors, IncreaseCreate(a)
      PROVE  NoneLost'
  BY <1>6 DEF IncreaseCreate, PoolIInv, NoneLost, Queued
<1>7. ASSUME NEW a \in Actors, Terminate(a)
      PROVE  NoneLost'
  BY <1>7 DEF Terminate, PoolIInv, NoneLost, Queued
<1>8. ASSUME NEW a \in Actors, IncreaseCount(a)
      PROVE  NoneLost'
  BY <1>8 DEF IncreaseCount, PoolIInv, NoneLost, Queued
<1>9. ASSUME NEW a \in Actors, TerminateWait(a)
      PROVE  NoneLost'
  BY <1>9 DEF TerminateWait, PoolIInv, NoneLost, Queued, pool
<1>10. ASSUME NEW a \in Actors, TerminateJoin(a)
      PROVE  NoneLost'
  BY <1>10 DEF TerminateJoin, PoolIInv, NoneLost, Queued, pool
<1>11. ASSUME NEW a \in Actors, Drain(a)
      PROVE  NoneLost'
  <2>1. CASE queue # <<>>
    <3>1. /\ Len(queue) \in Nat /\ Len(Tail(queue)) = Len(queue) - 1
          /\ \A k \in 1..Len(queue) : \/ queue[k] = Head(queue)
                                      \/ /\ k - 1 \in 1..Len(Tail(queue))
                                         /\ Tail(queue)[k - 1] = queue[k]
      BY <2>1 DEF PoolIInv, TypeOK
    <3>2. queue' = Tail(queue) /\ todo' = todo /\ torn' = torn
          /\ done' = done \cup ({Head(queue)} \ {Exit})
      BY <1>11, <2>1 DEF Drain
    <3>3. \A x \in Tasks : Queued(x) => x = Head(queue) \/ Queued(x)'
      BY <3>1, <3>2 DEF Queued
    <3> QED BY ExitAssumption, <2>1, <3>2, <3>3 DEF PoolIInv, NoneLost
  <2>2. CASE queue = <<>>
    BY <1>11, <2>2 DEF Drain, PoolIInv, NoneLost, Queued
  <2> QED BY <2>1, <2>2
<1>12. ASSUME NEW a \in Actors, TearDown(a)
      PROVE  NoneLost'
  BY <1>12 DEF TearDown, PoolIInv, NoneLost, Queued, pool, Drained
<1>13. ASSUME NEW w \in Workers, LoopTest(w)
      PROVE  NoneLost'
  BY <1>13 DEF LoopTest, PoolIInv, NoneLost, Queued, pool
<1>14. ASSUME NEW w \in Workers, GetTask(w)
      PROVE  NoneLost'
  <2>1. CASE queue # <<>>
    <3>1. /\ Len(queue) \in Nat /\ Len(Tail(queue)) = Len(queue) - 1
          /\ \A k \in 1..Len(queue) : \/ queue[k] = Head(queue)
                                      \/ /\ k - 1 \in 1..Len(Tail(queue))
                                         /\ Tail(queue)[k - 1] = queue[k]
      BY <2>1 DEF PoolIInv, TypeOK
    <3>2. queue' = Tail(queue) /\ todo' = todo /\ torn' = torn
          /\ done' = done \cup ({Head(queue)} \ {Exit})
      BY <1>14, <2>1 DEF GetTask
    <3>3. \A x \in Tasks : Queued(x) => x = Head(queue) \/ Queued(x)'
      BY <3>1, <3>2 DEF Queued
    <3> QED BY ExitAssumption, <2>1, <3>2, <3>3 DEF PoolIInv, NoneLost
  <2>2. CASE queue = <<>>
    BY <1>14, <2>2 DEF GetTask, PoolIInv, NoneLost, Queued
  <2> QED BY <2>1, <2>2
<1>15. ASSUME NEW w \in Workers, TaskReturns(w)
      PROVE  NoneLost'
  BY <1>15 DEF TaskReturns, PoolIInv, NoneLost, Queued, pool
<1>16. ASSUME NEW w \in Workers, TaskExits(w)
      PROVE  NoneLost'
  BY <1>16 DEF TaskExits, PoolIInv, NoneLost, Queued, pool
<1>17. ASSUME NEW w \in Workers, Check(w)
      PROVE  NoneLost'
  BY <1>17 DEF Check, PoolIInv, NoneLost, Queued, pool
<1>18. ASSUME NEW w \in Workers, ExitRoutine(w)
      PROVE  NoneLost'
  BY <1>18 DEF ExitRoutine, PoolIInv, NoneLost, Queued
<1>19. ASSUME NEW w \in Workers, ExitJoin(w)
      PROVE  NoneLost'
  BY <1>19 DEF ExitJoin, PoolIInv, NoneLost, Queued, pool
<1> QED BY <1>1, <1>2, <1>3, <1>4, <1>5, <1>6, <1>7, <1>8, <1>9, <1>10, <1>11,
           <1>12, <1>13, <1>14, <1>15, <1>16, <1>17, <1>18, <1>19 DEF Next,
           Call, Step, WorkerStep

(* The invariant holds when thrdpool_create starts its threads. *)
LEMMA PoolInitial == Init => PoolIInv
<1> SUFFICES ASSUME Init
             PROVE  PoolIInv
  OBVIOUS
<1> USE ThreadsAssumption, BoundsAssumption DEF Init, Actors
<1>1. TypeOK
  <2>1. queue \in Seq(Tasks \cup {Exit}) /\ pc \in [Actors -> {"creating", "unborn"}]
    OBVIOUS
  <2> QED BY <2>1, Zenon DEF TypeOK
<1>2. Control
  BY DEF Control
<1>3. Counts
  <2>1. Counted = {}
    BY DEF Counted
  <2> QED BY <2>1, FS_EmptySet DEF Counts, Past
<1>4. Joins
  <2>1. \A s : Chain(s, 0)
    BY DEF Chain, Listed, Apart, EndsWithTid, Links, InOrder, Waited, Exited
  <2>2. [k \in 1..0 |-> Main] \in [1..0 -> Workers] /\ 0 \in Nat
    OBVIOUS
  <2>3. \E n \in Nat : \E s \in [1..n -> Workers] : Chain(s, n)
    BY <2>1, <2>2, Zenon
  <2> QED BY <2>3 DEF Joins, Exited, Over
<1>5. NoneLost
  BY DEF NoneLost
<1> QED BY <1>1, <1>2, <1>3, <1>4, <1>5 DEF PoolIInv

(* Every step of the pool keeps the invariant. *)
LEMMA PoolStep ==
  ASSUME ~IncreaseFromZero, PoolIInv, [Next]_vars
  PROVE  PoolIInv'
<1>1. CASE Next
  BY <1>1, TypeStep, ControlStep, CountsStep, JoinsStep, TasksStep DEF PoolIInv
<1>2. CASE UNCHANGED vars
  <2> USE <1>2 DEF vars
  <2>1. TypeOK' /\ Control' /\ NoneLost'
    BY DEF PoolIInv, TypeOK, Control, NoneLost, Queued
  <2>2. Counted' = Counted /\ Past' = Past /\ Exited' = Exited /\ Over' = Over
    BY DEF Counted, Past, Exited, Over
  <2>3. Counts'
    BY <2>2, SMTT(20) DEF PoolIInv, Counts
  <2>4. Joins'
    BY SMTT(30), <2>2, JoinsKept DEF PoolIInv, Joins
  <2> QED BY SMTT(30), <2>1, <2>3, <2>4 DEF PoolIInv
<1> QED BY <1>1, <1>2

(* The invariant gives everything that PoolInv promises. *)
LEMMA PoolEnough == PoolIInv => PoolInv
<1> SUFFICES ASSUME PoolIInv
             PROVE  PoolInv
  OBVIOUS
<1> USE ThreadsAssumption DEF PoolIInv, TypeOK, Control, Actors
<1>1. CountMatches
  BY DEF CountMatches, Counts
<1>0. PICK n \in Nat : \E s \in [1..n -> Workers] : Chain(s, n)
  BY DEF Joins
<1>2. PICK s \in [1..n -> Workers] : Chain(s, n)
  BY SMTT(30), <1>0
<1>3. torn => \A w \in Workers : /\ pc[w] \in {"unborn", "done"} \/ w = destroyer
                                 /\ pc[w] # "unborn" => w \in Exited \/ w = destroyer
  <2>1. torn => Counted = {} /\ Over
    BY CountsGive DEF Past, Over
  <2> QED BY SMTT(30), <2>1 DEF Counted, Exited, Joins
<1>4. EachThreadJoinedOnce
  <2>1. ASSUME NEW w \in Exited
        PROVE  joined[w] <= 1 /\ (torn => joined[w] = 1)
    <3>1. PICK k \in 1..n : s[k] = w
      BY <1>2, <2>1 DEF Chain, Listed, Exited
    <3>2. k # n => k + 1 \in 1..n /\ s[k + 1] \in Exited
      <4>1. k # n => k + 1 \in 1..n /\ s[k + 1] \in Workers
        OBVIOUS
      <4> QED BY <1>2, <4>1 DEF Chain, Listed
    <3>3. torn => Over /\ \A v \in Exited : pc[v] = "done"
      BY DEF Joins, Over
    <3> QED BY SMTT(30), <1>2, <3>1, <3>2, <3>3 DEF Chain, Waited, WaitedFor
  <2>2. ASSUME NEW w \in Workers, w \notin Exited
        PROVE  joined[w] = IF w = destroyer THEN 1 ELSE 0
    BY <2>2 DEF Joins
  <2> QED BY <1>3, <2>1, <2>2 DEF EachThreadJoinedOnce
<1>5. FreedOnlyByDestroy
  BY DEF FreedOnlyByDestroy
<1>6. NoTaskForgotten
  <2>1. torn => \A x \in Tasks : x \in todo \cup done
    BY DEF NoneLost, Queued
  <2> QED BY <2>1 DEF NoTaskForgotten
<1>7. NoUseAfterFree
  <2>1. freed => \A a \in Actors : pc[a] \in {"unborn", "main", "run", "join", "done"}
    BY <1>3
  <2> QED BY <1>3, <2>1 DEF NoUseAfterFree
<1> QED BY <1>1, <1>4, <1>5, <1>6, <1>7 DEF PoolInv

(* For any finite set of threads, any tasks and any number of calls of
   thrdpool_increase and thrdpool_decrease, if thrdpool_increase is not called on
   a pool of no threads (the case that run thrdpool_zero shows to go wrong at
   thrdpool.c:195): nthreads is right whenever line 61 reads it, each thread is
   joined or detached once, and thrdpool_destroy frees a pool that nobody uses any
   more and that has lost no task.                                          *)
THEOREM PoolSafe ==
  ASSUME ~IncreaseFromZero
  PROVE  Spec => []PoolInv
<1>1. PoolIInv /\ [Next]_vars => PoolIInv'
  BY PoolStep
<1>2. Spec => []PoolIInv
  BY <1>1, PoolInitial, PTL DEF Spec
<1> QED BY <1>2, PoolEnough, PTL
=============================================================================
