------------------------------- MODULE Poller -------------------------------
(***************************************************************************)
(* The poller (src/kernel/poller.c): one thread in epoll_wait, and any     *)
(* thread adding, deleting and modifying nodes, which are watched file     *)
(* descriptors or plain timers.  Each node gets one final callback, which  *)
(* frees it.  The thread holds pointers to nodes in the batch that         *)
(* epoll_wait returned while others delete these nodes, so a deleted node  *)
(* goes to the thread through a pipe that is read after the batch.         *)
(*                                                                         *)
(* A critical section is one step.  The pointer that epoll holds for a     *)
(* descriptor is nodes[fd] between critical sections.  epoll_ctl is seen   *)
(* by epoll_wait before the section that calls it ends; what the thread    *)
(* then does before it needs the mutex commutes with the rest of the       *)
(* section, so those runs are covered by letting epoll_wait return any     *)
(* part of what is ready.  Intermediate results (PR_ST_SUCCESS) go to      *)
(* objects of their own and do not change the state of a node.             *)
(***************************************************************************)
EXTENDS Integers, Sequences, FiniteSets, SequencesExt

CONSTANTS Fds,
          MaxNodes,     \* bound: nodes allocated
          MaxTime,      \* bound: the clock and the deadlines
          MaxSets,      \* bound: calls of poller_set_timeout
          None

ASSUME PollerAssumption == MaxNodes \in Nat /\ MaxTime \in Nat /\ MaxSets \in Nat

Nodes == 1..MaxNodes
Times == 1..MaxTime
Never == 0               \* as a deadline: a negative timeout

VARIABLES
  nodes,              \* nodes[fd]
  fdof, deadline, removed,        \* fields of a node
  timeo_list, timeo_tree, tree_first, tree_last, no_timeo_list,
  timerfd,            \* when the timer descriptor fires, 0 when disarmed
  pipe,               \* the pipe: nodes and the null pointer None
  stopped,
  thread, batch, has_pipe_event, time_node,   \* the poller thread
  stopping,           \* progress of poller_stop
  used,               \* nodes allocated so far are 1..used
  done,               \* done[n]: final callbacks of a node
  now, sets

lists == <<timeo_list, timeo_tree, tree_first, tree_last, no_timeo_list>>
thr == <<thread, batch, has_pipe_event, time_node>>
vars == <<nodes, fdof, deadline, removed, lists, timerfd, pipe, stopped, thr,
          stopping, used, done, now, sets>>

Init ==
  /\ nodes = [f \in Fds |-> None]
  /\ fdof = [n \in Nodes |-> None]
  /\ deadline = [n \in Nodes |-> Never]
  /\ removed = [n \in Nodes |-> FALSE]
  /\ timeo_list = <<>> /\ timeo_tree = <<>> /\ no_timeo_list = {}
  /\ tree_first = None /\ tree_last = None
  /\ timerfd = 0
  /\ pipe = <<>>
  /\ stopped = FALSE /\ stopping = "no"
  /\ thread = "set_timer" /\ batch = {} /\ has_pipe_event = FALSE /\ time_node = 0
  /\ used = 0
  /\ done = [n \in Nodes |-> 0]
  /\ now = 0 /\ sets = 0

-----------------------------------------------------------------------------
(* The lists of nodes, as one record T: nodes with a deadline are in a list
   if they came in order of their deadlines, and else in a tree, which is
   kept here as the sequence of its nodes in order.                        *)
Lists == [list |-> timeo_list, tree |-> timeo_tree, first |-> tree_first,
          last |-> tree_last, untimed |-> no_timeo_list]
(* dl[n] is the deadline of n, which is not read of a node that is in neither
   the list nor the tree and is forgotten then.                            *)
SetLists(T, dl) ==
  /\ timeo_list' = T.list /\ timeo_tree' = T.tree
  /\ tree_first' = T.first /\ tree_last' = T.last
  /\ no_timeo_list' = T.untimed
  /\ deadline' = [n \in Nodes |-> IF n \in Range(T.list) \cup Range(T.tree)
                                 THEN dl[n] ELSE Never]

Without(s, n) == SelectSeq(s, LAMBDA m : m # n)
Place(s, n) == CHOOSE i \in 1..Len(s) : s[i] = n
rb_next(s, n) == IF Place(s, n) = Len(s) THEN None ELSE s[Place(s, n) + 1]
rb_prev(s, n) == IF Place(s, n) = 1 THEN None ELSE s[Place(s, n) - 1]

LastWithout(T, n) == IF n = T.last THEN rb_prev(T.tree, n) ELSE T.last

tree_erase(T, n) ==
  [T EXCEPT !.first = IF n = T.first THEN rb_next(T.tree, n) ELSE @,
            !.last = LastWithout(T, n),
            !.tree = Without(@, n)]

Erase(T, n) ==
  IF n \in Range(T.tree) THEN tree_erase(T, n)
  ELSE [T EXCEPT !.list = Without(@, n), !.untimed = @ \ {n}]

(* Equal deadlines keep their order. *)
tree_insert(T, n, dl) ==
  LET k == Cardinality({i \in DOMAIN T.tree : dl[T.tree[i]] <= dl[n]})
  IN IF T.tree = <<>> THEN [T EXCEPT !.tree = <<n>>, !.first = n, !.last = n]
     ELSE IF dl[n] >= dl[T.last] THEN [T EXCEPT !.tree = Append(@, n), !.last = n]
     ELSE [T EXCEPT !.tree = SubSeq(@, 1, k) \o <<n>> \o SubSeq(@, k + 1, Len(@)),
                    !.first = IF T.tree[k + 1] = @ THEN n ELSE @]

insert_node(T, n, dl) ==
  IF dl[n] = Never THEN [T EXCEPT !.untimed = @ \cup {n}]
  ELSE IF T.list = <<>> \/ dl[n] >= dl[Last(T.list)]
  THEN [T EXCEPT !.list = Append(@, n)]
  ELSE tree_insert(T, n, dl)

(* What insert_node sets the timer to: lines 861-877. *)
ArmedBy(T, n, dl) ==
  LET before == IF T.list = <<>> THEN T.first ELSE Head(T.list)
      leads == \/ T.list = <<>> /\ T.first = None
               \/ /\ T.list = <<>> \/ insert_node(T, n, dl).first = n
                  /\ dl[n] < dl[before]
  IN IF dl[n] # Never /\ leads THEN dl[n] ELSE timerfd

Callback(set) == done' = [n \in Nodes |-> done[n] + IF n \in set THEN 1 ELSE 0]
Forget(set) == nodes' = [f \in Fds |-> IF nodes[f] \in set THEN None ELSE nodes[f]]

-----------------------------------------------------------------------------
(* Calls by any thread. *)
NewNode(fd) ==
  /\ used < MaxNodes
  /\ used' = used + 1
  /\ fdof' = [fdof EXCEPT ![used + 1] = fd]

(* A node with the deadline d enters the lists T. *)
Enter(T, n, d) ==
  LET dl == [deadline EXCEPT ![n] = d]
  IN SetLists(insert_node(T, n, dl), dl) /\ timerfd' = ArmedBy(T, n, dl)

(* A descriptor is added when no node of it is left: its owner closes it, or
   adds it again, after the final callback.                                *)
poller_add(fd, d) ==
  /\ nodes[fd] = None
  /\ \A n \in 1..used : fdof[n] = fd => done[n] > 0
  /\ NewNode(fd)
  /\ Enter(Lists, used + 1, d)
  /\ nodes' = [nodes EXCEPT ![fd] = used + 1]
  /\ UNCHANGED <<removed, pipe, stopped, thr, stopping, done, now, sets>>

(* Lines 1006-1019 and 1044-1066: the final callback of a node that was
   deleted or replaced is left to the thread, if it still runs.            *)
HandOver(n) ==
  IF stopped
  THEN Callback({n}) /\ UNCHANGED <<removed, pipe>>
  ELSE /\ removed' = [removed EXCEPT ![n] = TRUE]
       /\ pipe' = Append(pipe, n)
       /\ UNCHANGED done

poller_del(fd) ==
  /\ nodes[fd] # None
  /\ SetLists(Erase(Lists, nodes[fd]), deadline)
  /\ HandOver(nodes[fd])
  /\ nodes' = [nodes EXCEPT ![fd] = None]
  /\ UNCHANGED <<fdof, timerfd, stopped, thr, stopping, used, now, sets>>

poller_mod(fd, d) ==
  /\ nodes[fd] # None
  /\ NewNode(fd)
  /\ HandOver(nodes[fd])
  /\ Enter(Erase(Lists, nodes[fd]), used + 1, d)
  /\ nodes' = [nodes EXCEPT ![fd] = used + 1]
  /\ UNCHANGED <<stopped, thr, stopping, now, sets>>

poller_set_timeout(fd, d) ==
  /\ nodes[fd] # None /\ sets < MaxSets
  /\ Enter(Erase(Lists, nodes[fd]), nodes[fd], d)
  /\ sets' = sets + 1
  /\ UNCHANGED <<nodes, fdof, removed, pipe, stopped, thr, stopping, used, done, now>>

poller_add_timer(d) ==
  /\ NewNode(None)
  /\ Enter(Lists, used + 1, d)
  /\ UNCHANGED <<nodes, removed, pipe, stopped, thr, stopping, done, now, sets>>

(* A timer may be deleted until its handler returns, that is also when it
   has fired; the flag removed then makes the call fail.                   *)
poller_del_timer(n) ==
  /\ n <= used /\ fdof[n] = None /\ ~removed[n]
  /\ removed' = [removed EXCEPT ![n] = TRUE]
  /\ SetLists(Erase(Lists, n), deadline)
  /\ Callback({n})
  /\ UNCHANGED <<nodes, fdof, timerfd, pipe, stopped, thr, stopping, used, now, sets>>

-----------------------------------------------------------------------------
(* The poller thread. *)
set_timer ==
  /\ thread = "set_timer"
  /\ timerfd' = IF timeo_list # <<>> /\ ~(tree_first # None /\
                                deadline[tree_first] < deadline[Head(timeo_list)])
                THEN deadline[Head(timeo_list)]
                ELSE IF tree_first # None THEN deadline[tree_first] ELSE 0
  /\ thread' = "wait"
  /\ UNCHANGED <<nodes, fdof, deadline, removed, lists, pipe, stopped, batch,
                 has_pipe_event, time_node, stopping, used, done, now, sets>>

Expired == timerfd # 0 /\ timerfd <= now

(* epoll_wait returns some of the watched nodes, the pipe if it has data, or
   the timer, which is edge-triggered; then the clock is read.             *)
Wait(ready, readpipe) ==
  /\ thread = "wait"
  /\ ready \subseteq {nodes[f] : f \in Fds} \ {None}
  /\ readpipe => pipe # <<>>
  /\ ready # {} \/ readpipe \/ Expired
  /\ batch' = ready
  /\ has_pipe_event' = readpipe
  /\ time_node' = now
  /\ timerfd' = IF Expired THEN 0 ELSE timerfd
  /\ thread' = "events"
  /\ UNCHANGED <<nodes, fdof, deadline, removed, lists, pipe, stopped, stopping,
                 used, done, now, sets>>

(* The handlers of reads, writes, accepts, connects, datagrams, events and
   notifications (lines 253-573) have one shape.  They go on as long as they
   can and leave the node...                                               *)
HandleEvent(n) ==
  /\ thread = "events" /\ n \in batch
  /\ batch' = batch \ {n}
  /\ UNCHANGED <<nodes, fdof, deadline, removed, lists, timerfd, pipe, stopped,
                 thread, has_pipe_event, time_node, stopping, used, done, now, sets>>

IsRemoved(n) == removed[n]
remove_node(n) == Forget({n}) /\ SetLists(Erase(Lists, n), deadline)

(* ...or ends it, by an error or by completion, unless remove_node finds that
   another thread has removed it.                                          *)
EndEvent(n) ==
  /\ thread = "events" /\ n \in batch
  /\ ~IsRemoved(n)
  /\ batch' = batch \ {n}
  /\ remove_node(n)
  /\ Callback({n})
  /\ UNCHANGED <<fdof, removed, timerfd, pipe, stopped, thread, has_pipe_event,
                 time_node, stopping, used, now, sets>>

EventsDone ==
  /\ thread = "events" /\ batch = {}
  /\ thread' = IF has_pipe_event THEN "pipe" ELSE "timeout"
  /\ UNCHANGED <<nodes, fdof, deadline, removed, lists, timerfd, pipe, stopped,
                 batch, has_pipe_event, time_node, stopping, used, done, now, sets>>

handle_pipe ==
  /\ thread = "pipe"
  /\ Callback(Range(pipe) \ {None})
  /\ pipe' = <<>>
  /\ thread' = IF None \in Range(pipe) THEN "exited" ELSE "timeout"
  /\ UNCHANGED <<nodes, fdof, deadline, removed, lists, timerfd, stopped, batch,
                 has_pipe_event, time_node, stopping, used, now, sets>>

(* The loops of handle_timeout stop at the first node that is not due. *)
DueIn(s) == {i \in DOMAIN s : \A j \in 1..i : deadline[s[j]] <= time_node}
Late(s) == SubSeq(s, Cardinality(DueIn(s)) + 1, Len(s))
Due == {timeo_list[i] : i \in DueIn(timeo_list)}
       \cup {timeo_tree[i] : i \in DueIn(timeo_tree)}

UnmarkedTimers(set) == removed              \* mutant: a timer that fired
MarkedTimers(set) ==
  [n \in Nodes |-> removed[n] \/ (n \in set /\ fdof[n] = None)]

handle_timeout ==
  /\ thread = "timeout"
  /\ LET left == Late(timeo_tree)
     IN SetLists([Lists EXCEPT !.list = Late(@), !.tree = left,
                               !.first = IF left = <<>> THEN None ELSE Head(left),
                               !.last = IF left = <<>> THEN None ELSE @], deadline)
  /\ Forget(Due)
  /\ removed' = MarkedTimers(Due)
  /\ Callback(Due)
  /\ thread' = "set_timer"
  /\ has_pipe_event' = FALSE /\ time_node' = 0      \* not read again
  /\ UNCHANGED <<fdof, timerfd, pipe, stopped, batch, stopping, used, now, sets>>

-----------------------------------------------------------------------------
(* poller_stop: the thread is told to stop and joined, then stopped is set
   outside the mutex, then everything left is given back.                  *)
StopWrite ==
  /\ stopping = "no"
  /\ stopping' = "join"
  /\ pipe' = Append(pipe, None)
  /\ UNCHANGED <<nodes, fdof, deadline, removed, lists, timerfd, stopped, thr, used,
                 done, now, sets>>

StopJoin ==
  /\ stopping = "join" /\ thread = "exited"
  /\ stopping' = "joined"
  /\ stopped' = TRUE
  /\ UNCHANGED <<nodes, fdof, deadline, removed, lists, timerfd, pipe, thr, used,
                 done, now, sets>>

PipeLost == {}                         \* mutant: the pipe is closed unread
PipeRest == Range(pipe) \ {None}       \* line 1180

StopCollect ==
  /\ stopping = "joined"
  /\ LET left == Range(timeo_list) \cup Range(timeo_tree) \cup no_timeo_list
     IN /\ Forget(left)
        /\ removed' = MarkedTimers(left)
        /\ Callback(left \cup PipeRest)
  /\ pipe' = <<>>
  /\ SetLists([list |-> <<>>, tree |-> <<>>, first |-> None, last |-> None,
               untimed |-> {}], deadline)
  /\ stopping' = "over"
  /\ UNCHANGED <<fdof, timerfd, stopped, thr, used, now, sets>>

Tick ==
  /\ now < MaxTime
  /\ now' = now + 1
  /\ UNCHANGED <<nodes, fdof, deadline, removed, lists, timerfd, pipe, stopped, thr,
                 stopping, used, done, sets>>

Thread ==
  \/ set_timer
  \/ \E ready \in SUBSET Nodes, p \in BOOLEAN : Wait(ready, p)
  \/ \E n \in Nodes : HandleEvent(n) \/ EndEvent(n)
  \/ EventsDone \/ handle_pipe \/ handle_timeout

Calls ==
  \/ \E fd \in Fds :
       \/ poller_del(fd)
       \/ \E d \in Times \cup {Never} :
            poller_add(fd, d) \/ poller_mod(fd, d) \/ poller_set_timeout(fd, d)
  \/ \E d \in Times : poller_add_timer(d)
  \/ \E n \in Nodes : poller_del_timer(n)

Stop == StopWrite \/ StopJoin \/ StopCollect

Next == Thread \/ Calls \/ Stop \/ Tick

Spec == Init /\ [][Next]_vars

(* The thread runs, the pipe is level-triggered and so reported in the end,
   poller_stop goes on once it began, and time passes.                     *)
FairSpec == /\ Spec
            /\ WF_vars(Thread)
            /\ SF_vars(\E ready \in SUBSET Nodes : Wait(ready, TRUE))
            /\ WF_vars(StopJoin \/ StopCollect)
            /\ WF_vars(Tick)

-----------------------------------------------------------------------------
TypeOK ==
  /\ nodes \in [Fds -> Nodes \cup {None}]
  /\ deadline \in [Nodes -> Times \cup {Never}]
  /\ thread \in {"set_timer", "wait", "events", "pipe", "timeout", "exited"}
  /\ stopping \in {"no", "join", "joined", "over"}
  /\ batch \subseteq Nodes
  /\ timerfd \in Times \cup {0}

Held == Range(timeo_list) \cup Range(timeo_tree) \cup no_timeo_list
        \cup (Range(pipe) \ {None})

(* No node gets two final callbacks, and the poller keeps no pointer to a
   node that had one: not in its lists, not in the pipe, and above all not
   in the batch the thread is still going through.                         *)
NoUseAfterCallback ==
  /\ \A n \in Nodes : done[n] <= 1
  /\ \A n \in Held \cup batch \cup ({tree_first, tree_last} \ {None}) : done[n] = 0

(* Every node that was not called back is in exactly one place from which it
   can still be called back, and nodes[fd] is the watched node of fd.      *)
EachNodeInOnePlace ==
  /\ \A n \in 1..used : done[n] = 0 =>
       Cardinality({i \in DOMAIN timeo_list : timeo_list[i] = n})
       + Cardinality({i \in DOMAIN timeo_tree : timeo_tree[i] = n})
       + Cardinality({i \in DOMAIN pipe : pipe[i] = n})
       + (IF n \in no_timeo_list THEN 1 ELSE 0) = 1
  /\ \A n \in Held : fdof[n] # None =>
       (nodes[fdof[n]] = n <=> n \notin Range(pipe))

(* The list and the tree are in order of the deadlines and the cached first
   and last node of the tree are right, after any mix of insertions,
   deletions and expiries: handle_timeout stops at the first node that is
   not due.                                                                *)
Sorted(s) == \A i, j \in DOMAIN s : i < j => deadline[s[i]] <= deadline[s[j]]
DeadlinesInOrder ==
  /\ Sorted(timeo_list) /\ Sorted(timeo_tree)
  /\ tree_first = IF timeo_tree = <<>> THEN None ELSE Head(timeo_tree)
  /\ tree_last = IF timeo_tree = <<>> THEN None ELSE Last(timeo_tree)

(* While the thread waits, the timer fires no later than the earliest
   deadline, although insert_node looks at the head of one list only.      *)
TimerCoversDeadlines ==
  thread = "wait" =>
    \A n \in Range(timeo_list) \cup Range(timeo_tree) :
      timerfd # 0 /\ timerfd <= deadline[n]

(* What holds of the nodes at every moment under the mutex of the poller. *)
NodeInv == TypeOK /\ NoUseAfterCallback /\ EachNodeInOnePlace /\ DeadlinesInOrder
           /\ TimerCoversDeadlines

Overdue(n) == n \in Range(timeo_list) \cup Range(timeo_tree) /\ deadline[n] <= now

Owed(n) ==
  /\ n <= used /\ done[n] = 0
  /\ \/ n \notin Range(timeo_list) \cup Range(timeo_tree) \cup no_timeo_list
     \/ stopping \in {"join", "joined"}
     \/ Overdue(n) /\ stopping # "over"

(* A node whose deadline has passed, a node that was deleted, and every node
   that is there when the poller stops gets its final callback, unless
   poller_set_timeout gives it another deadline first.  Nodes being finitely
   many, it is enough that again and again none is owed a callback.        *)
EveryNodeEnds == []<>(\A n \in Nodes : ~Owed(n))
=============================================================================
