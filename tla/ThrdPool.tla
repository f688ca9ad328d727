------------------------------ MODULE ThrdPool ------------------------------
(***************************************************************************)
(* The thread pool of src/kernel/thrdpool.c: worker threads, one client    *)
(* thread outside the pool, and tasks that call the pool's own functions.  *)
(* The task queue is the message queue, in the abstract form of module     *)
(* BlockingQueue; msgqueue_create(0, 0) makes it unbounded.                *)
(*                                                                         *)
(* The mutex appears as a variable only because thrdpool_increase runs a   *)
(* new thread before it has counted it; every other critical section is    *)
(* one step that needs the mutex free.                                     *)
(***************************************************************************)
EXTENDS Naturals, Sequences, FiniteSets

CONSTANTS Workers,           \* the threads pthread_create can return
          Tasks,             \* the tasks, each scheduled at most once
          Main,              \* the client thread, not in the pool
          None,              \* __zero_tid, and "no thread"
          Exit,              \* the task whose routine is __thrdpool_exit_routine
          InitThreads,       \* nthreads of thrdpool_create
          MaxOps,            \* bound on the calls of increase and decrease
          IncreaseFromZero   \* may increase be called on a pool of 0 threads?

ASSUME ThreadsAssumption == Main \notin Workers /\ None \notin Workers \cup {Main}
ASSUME ExitAssumption == Exit \notin Tasks
ASSUME BoundsAssumption == /\ IsFiniteSet(Workers)
                           /\ InitThreads \in 0..Cardinality(Workers)
                           /\ MaxOps \in Nat
                           /\ IncreaseFromZero \in BOOLEAN

VARIABLES queue,      \* pool->msgqueue
          terminate,  \* pool->terminate # NULL; the queue is nonblocking too
          nthreads,   \* pool->nthreads
          tid,        \* pool->tid
          mutex,      \* the thread in thrdpool_increase, or None
          pc,         \* what each thread does next
          joinee,     \* the thread that a thread at a join waits for
          freed,      \* pool has been freed
          torn,       \* key, mutex and queue have been destroyed
          destroyer,  \* the thread that called thrdpool_destroy, or None
          joined,     \* how often each worker was joined or detached
          todo,       \* history: tasks never scheduled
          done,       \* history: tasks run by a worker or given to pending()
          ops         \* number of increase and decrease calls

pool == <<queue, terminate, nthreads, tid, mutex>>
vars == <<queue, terminate, nthreads, tid, mutex, pc, joinee, freed, torn,
          destroyer, joined, todo, done, ops>>

Actors == Workers \cup {Main}
Unborn == {w \in Workers : pc[w] = "unborn"}

(* A thread outside the pool, or a worker inside a task, may call the pool.
   A pool that is being destroyed is only called by the tasks still running. *)
Home(a) == IF a = Main THEN "main" ELSE "run"
MayCall(a) == /\ pc[a] = Home(a)
              /\ ~torn /\ a # destroyer
              /\ a = Main => destroyer = None

-----------------------------------------------------------------------------
(* thrdpool_create and __thrdpool_create_threads *)

Init ==
  /\ queue = <<>> /\ terminate = FALSE /\ nthreads = 0 /\ tid = None
  /\ mutex = None
  /\ pc = [a \in Actors |-> IF a = Main THEN "creating" ELSE "unborn"]
  /\ joinee = [a \in Actors |-> None]
  /\ freed = FALSE /\ torn = FALSE /\ destroyer = None
  /\ joined = [w \in Workers |-> 0]
  /\ todo = Tasks /\ done = {} /\ ops = 0

CreateThread ==
  /\ pc[Main] = "creating"
  /\ nthreads < InitThreads
  /\ \E w \in Unborn : pc' = [pc EXCEPT ![w] = "loop"]
  /\ nthreads' = nthreads + 1
  /\ UNCHANGED <<queue, terminate, tid, mutex, joinee, freed, torn, destroyer,
                 joined, todo, done, ops>>

CreateReturns ==
  /\ pc[Main] = "creating"
  /\ nthreads = InitThreads
  /\ pc' = [pc EXCEPT ![Main] = "main"]
  /\ UNCHANGED <<pool, joinee, freed, torn, destroyer, joined, todo, done, ops>>

(* pthread_create fails: lines 115 and 144-154 take the pool down again, in
   the same order as thrdpool_destroy does from outside the pool.           *)
CreateFails ==
  /\ pc[Main] = "creating"
  /\ nthreads < InitThreads
  /\ terminate' = TRUE
  /\ destroyer' = Main
  /\ pc' = [pc EXCEPT ![Main] = "term_wait"]
  /\ UNCHANGED <<queue, nthreads, tid, mutex, joinee, freed, torn, joined,
                 todo, done, ops>>

-----------------------------------------------------------------------------
(* thrdpool_schedule, thrdpool_decrease, thrdpool_increase *)

Schedule(a, x) ==
  /\ MayCall(a)
  /\ x \in todo
  /\ todo' = todo \ {x}
  /\ queue' = Append(queue, x)
  /\ UNCHANGED <<terminate, nthreads, tid, mutex, pc, joinee, freed, torn,
                 destroyer, joined, done, ops>>

(* msgqueue_put_head: the head, or the seam of the two lists of MsgQueue, which
   BlockingQueue abstracts to a place somewhere in the queue.               *)
Decrease(a) ==
  /\ MayCall(a)
  /\ ops < MaxOps
  /\ ops' = ops + 1
  /\ \E i \in 0..Len(queue) :
       queue' = SubSeq(queue, 1, i) \o <<Exit>> \o SubSeq(queue, i + 1, Len(queue))
  /\ UNCHANGED <<terminate, nthreads, tid, mutex, pc, joinee, freed, torn,
                 destroyer, joined, todo, done>>

(* Lines 194-195: with the mutex held, the new thread starts to run. *)
IncreaseCreate(a) ==
  /\ MayCall(a)
  /\ mutex = None
  /\ ops < MaxOps
  /\ nthreads = 0 => IncreaseFromZero
  /\ ops' = ops + 1
  /\ mutex' = a
  /\ \E w \in Unborn : pc' = [pc EXCEPT ![w] = "loop", ![a] = "inc"]
  /\ UNCHANGED <<queue, terminate, nthreads, tid, joinee, freed, torn,
                 destroyer, joined, todo, done>>

CountedIn == nthreads + 1

(* Lines 196-199: and is counted afterwards. *)
IncreaseCount(a) ==
  /\ pc[a] = "inc"
  /\ nthreads' = CountedIn
  /\ mutex' = None
  /\ pc' = [pc EXCEPT ![a] = Home(a)]
  /\ UNCHANGED <<queue, terminate, tid, joinee, freed, torn, destroyer, joined,
                 todo, done, ops>>

-----------------------------------------------------------------------------
(* __thrdpool_routine *)

(* Line 51, without the mutex. *)
LoopTest(w) ==
  /\ pc[w] = "loop"
  /\ pc' = [pc EXCEPT ![w] = IF terminate THEN "exit" ELSE "get"]
  /\ UNCHANGED <<pool, joinee, freed, torn, destroyer, joined, todo, done, ops>>

(* Lines 52-59: msgqueue_get blocks on an empty queue unless the queue is
   nonblocking, when it returns NULL.  The exit task is run at once.        *)
GetTask(w) ==
  /\ pc[w] = "get"
  /\ \/ /\ queue # <<>>
        /\ queue' = Tail(queue)
        /\ IF Head(queue) = Exit
           THEN pc' = [pc EXCEPT ![w] = "exit"] /\ UNCHANGED done
           ELSE pc' = [pc EXCEPT ![w] = "run"] /\ done' = done \cup {Head(queue)}
     \/ /\ queue = <<>> /\ terminate
        /\ pc' = [pc EXCEPT ![w] = "exit"]
        /\ UNCHANGED <<queue, done>>
  /\ UNCHANGED <<terminate, nthreads, tid, mutex, joinee, freed, torn,
                 destroyer, joined, todo, ops>>

TaskReturns(w) ==
  /\ pc[w] = "run"
  /\ pc' = [pc EXCEPT ![w] = "check"]
  /\ UNCHANGED <<pool, joinee, freed, torn, destroyer, joined, todo, done, ops>>

(* thrdpool_exit called by a task *)
TaskExits(w) ==
  /\ MayCall(w)
  /\ pc' = [pc EXCEPT ![w] = "exit"]
  /\ UNCHANGED <<pool, joinee, freed, torn, destroyer, joined, todo, done, ops>>

NoThreadLeft == nthreads = 0

(* Lines 61-65, without the mutex. *)
Check(w) ==
  /\ pc[w] = "check"
  /\ IF NoThreadLeft
     THEN freed' = TRUE /\ pc' = [pc EXCEPT ![w] = "done"]
     ELSE UNCHANGED freed /\ pc' = [pc EXCEPT ![w] = "loop"]
  /\ UNCHANGED <<pool, joinee, torn, destroyer, joined, todo, done, ops>>

NotUncounted == nthreads          \* mutant: the decrement is forgotten

CountedOut == nthreads - 1

JoinNobody == None                \* mutant: the previous thread is not joined

JoinPrevious == tid

(* __thrdpool_exit_routine: lines 31-37 under the mutex, then the join.  The
   wakeup of the destroyer is its own test of nthreads at line 85.          *)
ExitRoutine(w) ==
  /\ pc[w] = "exit"
  /\ mutex = None
  /\ tid' = w
  /\ nthreads' = CountedOut
  /\ joinee' = [joinee EXCEPT ![w] = JoinPrevious]
  /\ pc' = [pc EXCEPT ![w] = "join"]
  /\ UNCHANGED <<queue, terminate, mutex, freed, torn, destroyer, joined, todo,
                 done, ops>>

(* Joining a thread waits for its end; None stands for __zero_tid. *)
JoinReady(a) == joinee[a] # None => pc[joinee[a]] = "done"
JoinedBy(a) == [w \in Workers |-> joined[w] + IF w = joinee[a] THEN 1 ELSE 0]

ExitJoin(w) ==
  /\ pc[w] = "join"
  /\ JoinReady(w)
  /\ joined' = JoinedBy(w)
  /\ pc' = [pc EXCEPT ![w] = "done"]
  /\ UNCHANGED <<pool, joinee, freed, torn, destroyer, todo, done, ops>>

-----------------------------------------------------------------------------
(* thrdpool_destroy and __thrdpool_terminate *)

(* Lines 75-83.  A worker that destroys its own pool detaches itself. *)
Terminate(a) ==
  /\ MayCall(a)
  /\ destroyer = None
  /\ a # Main => pc[Main] = "main"
  /\ mutex = None
  /\ destroyer' = a
  /\ terminate' = TRUE
  /\ IF a = Main
     THEN UNCHANGED <<nthreads, joined>>
     ELSE nthreads' = nthreads - 1 /\ joined' = [joined EXCEPT ![a] = @ + 1]
  /\ pc' = [pc EXCEPT ![a] = "term_wait"]
  /\ UNCHANGED <<queue, tid, mutex, joinee, freed, torn, todo, done, ops>>

(* Lines 85-89: the wait ends with no thread left; tid is read unlocked. *)
TerminateWait(a) ==
  /\ pc[a] = "term_wait"
  /\ mutex = None
  /\ nthreads = 0
  /\ joinee' = [joinee EXCEPT ![a] = JoinPrevious]
  /\ pc' = [pc EXCEPT ![a] = "term_join"]
  /\ UNCHANGED <<pool, freed, torn, destroyer, joined, todo, done, ops>>

TerminateJoin(a) ==
  /\ pc[a] = "term_join"
  /\ JoinReady(a)
  /\ joined' = JoinedBy(a)
  /\ pc' = [pc EXCEPT ![a] = "drain"]
  /\ UNCHANGED <<pool, joinee, freed, torn, destroyer, todo, done, ops>>

(* Lines 236-245: what is left is given to pending(), exit tasks excepted. *)
Drain(a) ==
  /\ pc[a] = "drain"
  /\ queue # <<>>
  /\ queue' = Tail(queue)
  /\ done' = done \cup ({Head(queue)} \ {Exit})
  /\ UNCHANGED <<terminate, nthreads, tid, mutex, pc, joinee, freed, torn,
                 destroyer, joined, todo, ops>>

Drained == queue = <<>>

FreeHere(a) == a = Main

(* Lines 247-251: a worker leaves the free to line 63. *)
TearDown(a) ==
  /\ pc[a] = "drain"
  /\ Drained
  /\ torn' = TRUE
  /\ freed' = FreeHere(a)
  /\ pc' = [pc EXCEPT ![a] = Home(a)]
  /\ UNCHANGED <<pool, joinee, destroyer, joined, todo, done, ops>>

-----------------------------------------------------------------------------
Call(a) == \/ \E x \in Tasks : Schedule(a, x)
           \/ Decrease(a) \/ IncreaseCreate(a) \/ Terminate(a)

Step(a) == \/ IncreaseCount(a)
           \/ TerminateWait(a) \/ TerminateJoin(a) \/ Drain(a) \/ TearDown(a)

WorkerStep(w) == LoopTest(w) \/ GetTask(w) \/ TaskReturns(w) \/ Check(w)
                 \/ ExitRoutine(w) \/ ExitJoin(w)

Next == \/ CreateThread \/ CreateReturns \/ CreateFails
        \/ \E a \in Actors : Call(a) \/ Step(a)
        \/ \E w \in Workers : WorkerStep(w) \/ TaskExits(w)

Spec == Init /\ [][Next]_vars

(* Threads are scheduled, and tasks return. *)
PoolFairness == /\ \A a \in Actors : WF_vars(Step(a))
                /\ \A w \in Workers : WF_vars(WorkerStep(w))

FairSpec == Spec /\ PoolFairness

-----------------------------------------------------------------------------
TypeOK ==
  /\ queue \in Seq(Tasks \cup {Exit})
  /\ terminate \in BOOLEAN /\ freed \in BOOLEAN /\ torn \in BOOLEAN
  /\ nthreads \in Nat
  /\ tid \in Workers \cup {None}
  /\ mutex \in Actors \cup {None}
  /\ pc \in [Actors -> {"unborn", "creating", "main", "loop", "get", "run",
                        "check", "exit", "join", "done", "inc", "term_wait",
                        "term_join", "drain"}]
  /\ joinee \in [Actors -> Workers \cup {None}]
  /\ destroyer \in Actors \cup {None}
  /\ joined \in [Workers -> Nat]
  /\ todo \subseteq Tasks /\ done \subseteq Tasks
  /\ ops \in Nat

(* Workers that nthreads counts: alive, past neither the decrement of the exit
   routine (line 34) nor that of a destroy from inside the pool (line 82),
   and not the one that an increase is still to count (line 197).           *)
Counted ==
  {w \in Workers : /\ pc[w] \notin {"unborn", "join", "done"}
                   /\ w # destroyer}
CountMatches ==
  ~freed => Cardinality(Counted) = nthreads + (IF mutex = None THEN 0 ELSE 1)

(* The pool is freed after everyone is through with it: no thread is about to
   touch a pool that line 63 or line 251 freed, and none but the destroyer
   is left in it once its mutex and queue are destroyed (lines 247-249).     *)
NoUseAfterFree ==
  /\ freed => \A a \in Actors :
                pc[a] \in {"unborn", "main", "run", "join", "done"}
  /\ torn => \A w \in Workers :
                pc[w] \in {"unborn", "done"} \/ w = destroyer

(* "One thread joins another" (line 30): no thread is joined twice or joined
   after it was detached, and when the pool is gone every thread that was
   ever created has been joined or detached.                                *)
EachThreadJoinedOnce ==
  /\ \A w \in Workers : joined[w] <= 1
  /\ torn => \A w \in Workers : pc[w] # "unborn" => joined[w] = 1

(* "Thread pool was destroyed by the task" (line 62): whoever frees the pool,
   it is because somebody has called thrdpool_destroy.                      *)
FreedOnlyByDestroy == freed => destroyer # None

(* No task is forgotten: when thrdpool_destroy returns, every task that was
   scheduled has been run or given to pending() (lines 236-245).            *)
NoTaskForgotten == torn => todo \cup done = Tasks

(* What holds of the pool at every moment: the count that tells a worker
   whether the pool is gone is right, the threads are joined one by one, only
   thrdpool_destroy frees, when nobody uses the pool any more, and it leaves
   no task behind.                                                          *)
PoolInv == TypeOK /\ CountMatches /\ EachThreadJoinedOnce /\ FreedOnlyByDestroy
           /\ NoTaskForgotten /\ NoUseAfterFree

(* thrdpool_destroy returns and the pool is freed, whether it is called from
   outside the pool or by a task of the pool (line 80: "legal").            *)
DestroyTerminates == []<>(destroyer # None => freed)
=============================================================================
