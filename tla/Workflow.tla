------------------------------ MODULE Workflow ------------------------------
(***************************************************************************)
(* Series and parallels of tasks (src/kernel/SubTask.cc and                *)
(* src/factory/Workflow.cc).  A series runs its tasks one after another; a *)
(* parallel is a task that runs several series at once and ends when the   *)
(* last of them ends.  No object has an owner that outlives it: tasks,     *)
(* series and parallels delete themselves or each other while callbacks on *)
(* other threads go on.                                                    *)
(*                                                                         *)
(* Each series is one flow of control.  The steps between two accesses to  *)
(* shared state are atomic, and the queue of a series is the deque that    *)
(* SeriesQueue implements.                                                 *)
(***************************************************************************)
EXTENDS Integers, Sequences, FiniteSets, SequencesExt

CONSTANTS Series, Tasks,
          Parallels,      \* the tasks that are ParallelWork objects
          Root,           \* the series that is started or dismissed
          First,          \* First[s]: the first task of a series
          Final,           \* Final[s]: its last task when created, or NoTask
          Parts,          \* Parts[p]: the sequence of series of a parallel
          Spare,          \* tasks that running tasks push into a series
          MaxCancels,     \* bound: how many series are canceled
          NoTask

ASSUME StructureAssumption ==
  /\ MaxCancels \in Nat
  /\ Parallels \subseteq Tasks /\ Spare \subseteq Tasks /\ NoTask \notin Tasks
  /\ First \in [Series -> Tasks]
  /\ Final \in [Series -> Tasks \cup {NoTask}]
  /\ Parts \in [Parallels -> Seq(Series)]

VARIABLES
  flow,       \* where the flow of each series is
  cur,        \* the task a series dispatched last
  up,         \* local variable parent of subtask_done, kept across done()
  saw,        \* local variable canceled of pop
  parent,     \* parent field of a task
  home,       \* pointer field of a task: its series
  deque, last, canceled,   \* fields of a series
  inpar,      \* in_parallel field of a series
  nleft,      \* nleft field of a parallel
  fork,       \* how many series the dispatch loop of a parallel has started
  unused,     \* spare tasks not pushed yet
  deletes,    \* how often each object was deleted
  calls,      \* how often the callback of each series and parallel ran
  late        \* tasks a series started after it was canceled

vars == <<flow, cur, up, saw, parent, home, deque, last, canceled, inpar, nleft,
          fork, unused, deletes, calls, late>>

Objects == Series \cup Tasks
Alive(o) == deletes[o] = 0
PartSet(p) == Range(Parts[p])
InPar(s) == {p \in Parallels : s \in PartSet(p)}

Init ==
  /\ flow = [s \in Series |-> "new"]
  /\ cur = [s \in Series |-> NoTask]
  /\ up = [s \in Series |-> NoTask]
  /\ saw = [s \in Series |-> FALSE]
  /\ parent = [t \in Tasks |-> NoTask]
  /\ home = [t \in Tasks |->
               IF \E s \in Series : t \in {First[s], Final[s]}
               THEN CHOOSE s \in Series : t \in {First[s], Final[s]} ELSE NoTask]
  /\ deque = [s \in Series |-> <<>>]
  /\ last = Final
  /\ canceled = [s \in Series |-> FALSE]
  /\ inpar = [s \in Series |-> IF InPar(s) = {} THEN NoTask
                                               ELSE CHOOSE p \in InPar(s) : TRUE]
  /\ nleft = [p \in Parallels |-> 0]
  /\ fork = [p \in Parallels |-> 0]
  /\ unused = Spare
  /\ deletes = [o \in Objects |-> 0]
  /\ calls = [o \in Series \cup Parallels |-> 0]
  /\ late = [s \in Series |-> 0]

-----------------------------------------------------------------------------
(* What `delete t` deletes: t and, when t is a parallel, its series and all
   the tasks still in them (~ParallelWork, dismiss_recursive).             *)
RECURSIVE Tree(_)
Queued(s) == Range(deque[s]) \cup ({last[s]} \ {NoTask})
Tree(t) == {t} \cup
  IF t \notin Parallels THEN {}
  ELSE UNION {{s} \cup UNION {Tree(x) : x \in {First[s]} \cup Queued(s)} :
              s \in PartSet(t)}

Delete(objects) ==
  deletes' = [o \in Objects |-> deletes[o] + IF o \in objects THEN 1 ELSE 0]

OneTooMany(p) == Len(Parts[p]) + 1     \* mutant: the parallel counts itself, too
CountFromOne(p) == 1               \* mutant: counts a series when it starts
InitialLeft(p) == Len(Parts[p])

(* dispatch() of t in series s: a leaf begins to run, a parallel sets its
   count and goes on to its loop, or straight to subtask_done when it has
   no series.                                                              *)
Dispatch(s, t, from) ==
  /\ cur' = [cur EXCEPT ![s] = t]
  /\ parent' = [parent EXCEPT ![t] = from]
  /\ late' = [late EXCEPT ![s] = @ + IF canceled[s] THEN 1 ELSE 0]
  /\ flow' = [flow EXCEPT ![s] =
                IF t \in Parallels /\ Parts[t] = <<>> THEN "done" ELSE "run"]
  /\ nleft' = [p \in Parallels |-> IF p = t THEN InitialLeft(p) ELSE nleft[p]]

start ==
  /\ flow[Root] = "new"
  /\ Dispatch(Root, First[Root], NoTask)
  /\ UNCHANGED <<up, saw, home, deque, last, canceled, inpar, fork, unused,
                 deletes, calls>>

(* dismiss: the series is deleted with its tasks; no callback runs. *)
dismiss ==
  /\ flow[Root] = "new"
  /\ flow' = [flow EXCEPT ![Root] = "over"]
  /\ Delete({Root} \cup UNION {Tree(x) : x \in {First[Root]} \cup Queued(Root)})
  /\ UNCHANGED <<cur, up, saw, parent, home, deque, last, canceled, inpar,
                 nleft, fork, unused, calls, late>>

(* One round of the loop of ParallelTask::dispatch. *)
Fork(p) ==
  /\ home[p] # NoTask
  /\ cur[home[p]] = p
  /\ flow[home[p]] = "run"
  /\ fork[p] < Len(Parts[p])
  /\ LET s == Parts[p][fork[p] + 1] IN Dispatch(s, First[s], p)
  /\ fork' = [fork EXCEPT ![p] = @ + 1]
  /\ UNCHANGED <<up, saw, home, deque, last, canceled, inpar, unused, deletes,
                 calls>>

(* A task that is not a parallel ends: subtask_done keeps its parent and
   calls done(), which runs the callback and deletes the task.             *)
LeafDone(s) ==
  /\ flow[s] = "run" /\ cur[s] \notin Parallels
  /\ up' = [up EXCEPT ![s] = parent[cur[s]]]
  /\ flow' = [flow EXCEPT ![s] = "pop"]
  /\ Delete({cur[s]})
  /\ UNCHANGED <<cur, saw, parent, home, deque, last, canceled, inpar, nleft,
                 fork, unused, calls, late>>

Dissolved(p) == {p} \cup PartSet(p)

(* ParallelWork::done *)
ParallelDone(s) ==
  /\ flow[s] = "done"
  /\ up' = [up EXCEPT ![s] = parent[cur[s]]]
  /\ flow' = [flow EXCEPT ![s] = "pop"]
  /\ calls' = [calls EXCEPT ![cur[s]] = @ + 1]
  /\ Delete(Dissolved(cur[s]))
  /\ UNCHANGED <<cur, saw, parent, home, deque, last, canceled, inpar, nleft,
                 fork, unused, late>>

SeenCanceled(s) == canceled[s]

(* SeriesWork::pop reads canceled without the mutex. *)
ReadCanceled(s) ==
  /\ flow[s] = "pop"
  /\ saw' = [saw EXCEPT ![s] = SeenCanceled(s)]
  /\ flow' = [flow EXCEPT ![s] = "take"]
  /\ UNCHANGED <<cur, up, parent, home, deque, last, canceled, inpar, nleft,
                 fork, unused, deletes, calls, late>>

(* The task that pop_task takes, and what it leaves. *)
Taken(s) == IF deque[s] # <<>> THEN Head(deque[s]) ELSE last[s]
Take(s) ==
  /\ deque' = [deque EXCEPT ![s] = IF @ # <<>> THEN Tail(@) ELSE @]
  /\ last' = [last EXCEPT ![s] = IF deque[s] # <<>> THEN @ ELSE NoTask]

PopDispatch(s) ==
  /\ flow[s] = "take" /\ Taken(s) # NoTask /\ ~saw[s]
  /\ Take(s)
  /\ Dispatch(s, Taken(s), up[s])
  /\ UNCHANGED <<up, saw, home, canceled, inpar, fork, unused, deletes, calls>>

PopDelete(s) ==
  /\ flow[s] = "take" /\ Taken(s) # NoTask /\ saw[s]
  /\ Take(s)
  /\ Delete(Tree(Taken(s)))
  /\ UNCHANGED <<flow, cur, up, saw, parent, home, canceled, inpar, nleft, fork,
                 unused, calls, late>>

OwnsItself(s) == inpar[s] = NoTask

(* The queue is empty: the series is finished, its callback runs, and it
   deletes itself unless it belongs to a parallel.                         *)
PopEmpty(s) ==
  /\ flow[s] = "take" /\ Taken(s) = NoTask
  /\ calls' = [calls EXCEPT ![s] = @ + 1]
  /\ Delete(IF OwnsItself(s) THEN {s} ELSE {})
  /\ flow' = [flow EXCEPT ![s] = IF up[s] = NoTask THEN "over" ELSE "leave"]
  /\ UNCHANGED <<cur, up, saw, parent, home, deque, last, canceled, inpar, nleft,
                 fork, unused, late>>

(* subtask_done counts the parent down; whoever reaches zero goes on as the
   parallel.                                                               *)
Leave(s) ==
  /\ flow[s] = "leave"
  /\ nleft' = [nleft EXCEPT ![up[s]] = @ - 1]
  /\ flow' = [flow EXCEPT ![s] = "over",
                          ![home[up[s]]] = IF nleft[up[s]] = 1 THEN "done" ELSE @]
  /\ UNCHANGED <<cur, up, saw, parent, home, deque, last, canceled, inpar, fork,
                 unused, deletes, calls, late>>

-----------------------------------------------------------------------------
(* The series that a task running in s may use: its own, the ones around
   it, and with them every series of the same parallels.                   *)
RECURSIVE Around(_)
Around(s) == {s} \cup IF inpar[s] = NoTask THEN {} ELSE Around(home[inpar[s]])
Within(s) == Around(s) \cup UNION {PartSet(inpar[x]) :
                                   x \in {y \in Around(s) : inpar[y] # NoTask}}

LeafRuns(s) == flow[s] = "run" /\ cur[s] \notin Parallels

(* A callback puts a new task in front of, behind or at the end of its own
   series or one around it.                                                *)
Push(s, to, x) ==
  /\ LeafRuns(s) /\ to \in Around(s) /\ x \in unused
  /\ \/ deque' = [deque EXCEPT ![to] = <<x>> \o @] /\ UNCHANGED last
     \/ deque' = [deque EXCEPT ![to] = Append(@, x)] /\ UNCHANGED last
     \/ last[to] = NoTask /\ last' = [last EXCEPT ![to] = x] /\ UNCHANGED deque
  /\ home' = [home EXCEPT ![x] = to]
  /\ unused' = unused \ {x}
  /\ UNCHANGED <<flow, cur, up, saw, parent, canceled, inpar, nleft, fork,
                 deletes, calls, late>>

cancel(s, of) ==
  /\ LeafRuns(s) /\ of \in Within(s) /\ ~canceled[of]
  /\ Cardinality({y \in Series : canceled[y]}) < MaxCancels
  /\ canceled' = [canceled EXCEPT ![of] = TRUE]
  /\ UNCHANGED <<flow, cur, up, saw, parent, home, deque, last, inpar, nleft,
                 fork, unused, deletes, calls, late>>

Next ==
  \/ start \/ dismiss
  \/ \E p \in Parallels : Fork(p)
  \/ \E s \in Series :
       \/ LeafDone(s) \/ ParallelDone(s) \/ ReadCanceled(s)
       \/ PopDispatch(s) \/ PopDelete(s) \/ PopEmpty(s) \/ Leave(s)
       \/ \E to \in Series, x \in Tasks : Push(s, to, x)
       \/ \E of \in Series : cancel(s, of)

Spec == Init /\ [][Next]_vars
FairSpec == Spec /\ WF_vars(Next)

-----------------------------------------------------------------------------
TypeOK ==
  /\ flow \in [Series -> {"new", "run", "done", "pop", "take", "leave", "over"}]
  /\ cur \in [Series -> Tasks \cup {NoTask}]
  /\ up \in [Series -> Parallels \cup {NoTask}]
  /\ saw \in [Series -> BOOLEAN]
  /\ parent \in [Tasks -> Parallels \cup {NoTask}]
  /\ home \in [Tasks -> Series \cup {NoTask}]
  /\ deque \in [Series -> Seq(Tasks)]
  /\ last \in [Series -> Tasks \cup {NoTask}]
  /\ canceled \in [Series -> BOOLEAN]
  /\ inpar \in [Series -> Parallels \cup {NoTask}]
  /\ nleft \in [Parallels -> Nat]
  /\ fork \in [Parallels -> Nat]
  /\ unused \subseteq Spare
  /\ deletes \in [Objects -> {0, 1}]
  /\ calls \in [Series \cup Parallels -> Nat]
  /\ late \in [Series -> Nat]

(* No flow follows a pointer to a deleted object: while a series is between
   its first dispatch and its last pop, the series, its current task, the
   tasks queued in it and the parallel above it exist; and a parallel whose
   dispatch loop is not over exists with every series it has still to start
   (SubTask.cc 53-60, Workflow.cc 198-211).                                *)
NoUseAfterDelete ==
  /\ \A s \in Series : flow[s] \in {"run", "done", "pop", "take"} =>
       /\ Alive(s)
       /\ \A x \in Queued(s) : Alive(x)
       /\ flow[s] \in {"run", "done"} => Alive(cur[s])
  /\ \A s \in Series : 
       flow[s] \in {"run", "pop", "take", "leave"} /\ inpar[s] # NoTask =>
         Alive(inpar[s]) /\ Alive(home[inpar[s]])
  /\ \A p \in Parallels : fork[p] \in 1..Len(Parts[p]) - 1 =>
       /\ Alive(p)
       /\ \A i \in fork[p] + 1..Len(Parts[p]) :
            Alive(Parts[p][i]) /\ Alive(First[Parts[p][i]])

(* A parallel ends only when each of its series has started and left: the
   countdown cannot reach zero while the loop of dispatch is still starting
   series that other threads already finish (SubTask.cc 53, 37).           *)
ParallelEndsLast ==
  \A s \in Series : flow[s] = "done" =>
    /\ fork[cur[s]] = Len(Parts[cur[s]])
    /\ \A x \in PartSet(cur[s]) : flow[x] = "over" /\ calls[x] = 1

(* When the root is over, everything was deleted once, and every series and
   parallel that started called back once and no other did.                *)
NothingLeaks ==
  flow[Root] = "over" =>
    /\ \A o \in Objects \ unused :
         \/ deletes[o] = 1
         \/ \E p \in unused \cap Parallels : o \in Tree(p)
    /\ \A s \in Series : calls[s] = IF cur[s] # NoTask THEN 1 ELSE 0
    /\ \A p \in Parallels : calls[p] <= 1 /\ (fork[p] > 0 => calls[p] = 1)

(* A canceled series starts at most one more task: the first task, or one
   whose pop had read the flag before (Workflow.cc 106-110).               *)
CancelStopsSeries == \A s \in Series : late[s] <= 1

(* What holds of the graph at every moment, whichever thread runs ahead. *)
GraphInv == TypeOK /\ NoUseAfterDelete /\ ParallelEndsLast /\ NothingLeaks /\ CancelStopsSeries

(* A root series that was started comes to its end, in whatever order the parts
   end and whatever is pushed and canceled on the way.                     *)
RootEnds == []<>(flow[Root] \in {"new", "over"})
=============================================================================
