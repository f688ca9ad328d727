# A TLA+ model of myworkflow

This directory models the asynchronous engine of the repository (a C++
"workflow" framework) in TLA+: the concurrent kernel under `src/kernel`, the
series and parallels of tasks, the server and its tasks, file I/O, the
containers the kernel rests on, and the formats (HTTP, URI, JSON). Every module
translates one source file, or one protocol inside a file; comments give the
line numbers they stand for, and `PROJECT.json` maps each definition to its
lines. Paths below are relative to `src/src`.

TLC checks the modules on small instances. For all values of their constants,
TLAPS proves the invariants and the refinements of the message queue and of the
task queue, and the invariants of the thread pool, of the handler threads, of
file I/O and of the server with its tasks.

## The system and its parts

| part | source | state | operations | what makes it hard |
|---|---|---|---|---|
| message queue | `kernel/msgqueue.c` | two lists, a count, two mutexes, two condition variables, `nonblock` | put, put_head, get, set_nonblock, set_block | signals after unlock, a flag written outside the lock, a head insertion that races gets |
| thread pool | `kernel/thrdpool.c` | queue, `nthreads`, `tid`, `terminate` | create, schedule, increase, decrease, exit, destroy | threads that join each other in a chain, destroy from inside a task, an unlocked read of the count |
| executor | `kernel/Executor.cc`, `ExecRequest.h` | one session list per queue | request, routine, cancel, deinit | an unlocked read of the list head, callbacks that request more while the list is cancelled |
| series and parallels | `kernel/SubTask.cc`, `factory/Workflow.*` | ring buffer of tasks, `canceled`, `finished`, counters of parallels | push_front, push_back, pop, cancel, dispatch, done, dismiss | objects delete themselves, callbacks on any thread, a ring that grows |
| scheduler of targets | `kernel/CommScheduler.*` | loads, heap of targets, wait counts | acquire, release, add, remove | two levels of waiting, a mutex that changes when a target joins a group |
| poller | `kernel/poller.c`, `mpoller.*` | nodes by descriptor, timer list and tree, pipe | add, del, mod, set_timeout, add_timer, del_timer, stop, the poller thread | nodes deleted by one thread while another holds them in a batch of events, timers against I/O |
| communicator | `kernel/Communicator.*` | connection entries with state and reference count, lists of services and targets | request, reply, push, bind, unbind, drain, shutdown, the handlers of poller results | two handler threads on one entry, entries freed by the last reference |
| datagram services | `kernel/Communicator.cc` | a target, an entry and a session per datagram | recvfrom, reply, delete, unbind | whether a session may be replied to is a number set on its way |
| file I/O | `kernel/IOService_linux.cc` | sessions, reference count, event descriptor | bind, request, finish, unbind | completions that race the linking of their session and unbind |
| server | `server/WFServer.*` | `conn_count`, `unbind_finish` | start, new_connection, shutdown, wait_finish | a connection limit kept with a counter and drain |
| server tasks | `factory/WFTask.*` | task, processor, series | handle, dispatch, done, noreply | who deletes a task: itself, its series or a canceled series |
| synchronous operations | `manager/WFGlobal.cc` | two counters | sync_operation_begin, sync_operation_end | threads that wait for what only their own pool can deliver |
| HTTP | `protocol/http_parser.c`, `HttpMessage.*`, `HttpUtil.*` | parser state | append, add and set header, encode | input cut into pieces at any byte, two ends that must agree |
| containers | `kernel/rbtree.c`, `kernel/list.h`, `util/LRUCache.h` | tree links, LRU lists | insert, erase, get, put | reference counts, cached ends, rebalancing |
| URI and strings | `util/URIParser.*`, `util/StringUtil.*` | the parts of a URI | parse, copy, move, encode, decode, split | delimiters that mean something else in a later part |
| JSON | `util/json_parser.c` | values in lists and trees | parse, append, insert, remove, copy, destroy | any allocation may fail at any depth |

How they interact. A **thread pool** takes its tasks from a **message queue**.
An **executor** keeps a routine task in the pool for each of its non-empty
queues. The **poller** thread watches descriptors, keeps the timers (in the
**red-black tree**, or in a list when deadlines come in order) and puts results
into a second message queue, from which the handler threads of the
**communicator** take them. Handlers move connection entries through their
states and end sessions; a session of a client holds a slot of a **target**
meanwhile. A session, a timer or an executor job is at the same time a
**sub-task** of a series: its end dispatches the next task of the series, on
whatever thread it ended. A **server** owns a service of the communicator and
makes a task with a series for each request; **HTTP** is the format this task
reads and writes. **File I/O** gives its completions to the same handler threads
by way of an event descriptor. A callback that waits for another task would
block a handler thread, for which **synchronous operations** add one.

The composition in the models follows the same lines. A module that uses
another component uses what that component was shown to do: `ThrdPool` uses the
abstract queue that `MsgQueue` implements, `Executor` the pool of `ThrdPool`, `Workflow`
the deque that `SeriesQueue` implements, `CommServer` and `CommClient` the
deletion protocol of `Poller`, `Poller` the ordered sequence that `TimerTree`
implements, and `TimerTree` and `LRUCache` the tree of `RbTree`. `Service` is
the contract between the communicator and the owner of a service: `CommServer`
is shown to implement it, and `Server` is built on its actions.

## The modules

**MsgQueue** (`msgqueue.c`). One variable per field; `pc` is where each calling
thread is between two mutex or condition operations, so that every interleaving
of `put`, `put_head`, `get`, `set_nonblock` and `set_block` is there, with
spurious wakeups. The links inside messages are abstracted to sequences.
`BlockingQueue` is its abstract specification: one sequence, which a put
extends at the end and a get shortens at the head. A `put_head` that finds
`get_mutex` taken goes to the head of the put list, behind what the get list
still holds, so it promises only to insert somewhere and to reorder nothing.

**ThrdPool** (`thrdpool.c`). Workers, one outside thread, and tasks that call
the pool. Every step of the exit protocol is an action: decrement of the count,
handing over `tid`, joining the thread that left before, freeing the pool when a
task destroyed it. `mutex` is a variable only because `thrdpool_increase` starts
a thread inside its critical section.

**Executor** (`Executor.cc`). The session list of each queue, the routine task
and its unlocked read of the head, and the loop of `executor_cancel` with the
two cursors of `list_for_each_safe`, during which callbacks may request more.

**SeriesQueue** (`Workflow.cc`, lines 19-134). The ring of slots with `front`,
`back` and `queue_size`, expansion included. `TaskDeque` is the unbounded deque
that it implements.

**Workflow** (`SubTask.cc`, `Workflow.cc`). Each series is a flow of control;
tasks, series and parallels are objects with a count of deletions. The shape
(which parallel has which series) is a constant; what running tasks push and
which series are canceled is free.

**CommSched** (`CommScheduler.cc`). Loads and wait counts of targets and of one
group, the heap with its indices, and threads asleep in
`pthread_cond_timedwait` that a signal, a timeout or a spurious wakeup wakes.

**Poller** (`poller.c`). Nodes, lists, timer descriptor and pipe under the
mutex, and the thread with the batch that `epoll_wait` gave it. Other threads
call in at any point between two steps of the thread. Bytes are abstracted: an
event of a node either leaves it in place or ends it.

**CommServer, CommClient** (`Communicator.cc`). For each connection the entry
(state, reference count, mutex, session) and its poller node; the queue of
results; handler threads, threads that reply (server) or request (client), and
the poller thread. Critical sections that take several steps hold a mutex
variable. Outcomes of system calls are nondeterministic: a reply may be written
at once, left to the poller, or fail.

**Service** is the abstract specification of a stream service: which callbacks
its owner gets in which order (`new_connection`, `new_session`, `handle`, the
deletion of sessions and connections, `handle_unbound`) and while which
connection exists. The refinement mapping, `Promised` in `CommServer`, reads the
abstract state of connections and sessions off the states, references and
control points of the detailed model.

**Server** (`WFServer.cc`, `WFServer.h`, `WFTask.inl`). `conn_count` and the
steps of `new_connection` with the drain of another connection, start, shutdown,
`handle_unbound`, `wait_finish` and a second start; and for each session the
`WFServerTask` with its processor and series: process, pushes and cancellation
by user code, reply or noreply, callback, and who deletes the task. The
communicator underneath takes any step that `Service` allows.

**DatagramService** (`Communicator.cc`). The path of a datagram from `recvfrom`
to its session, with `passive`, the reply, the deletion and the references of
target and service.

**IOService** (`IOService_linux.cc`, `Communicator::io_bind` and `io_unbind`,
the owner in `WFGlobal.cc`). Operations in the kernel, the ring of completions,
the event descriptor with its counter, the poller thread that takes one
completion per count, the handlers, and the last reference, which waits for what
is left and goes through the list without the mutex. A request links its session
after it has submitted it, so the completion can come first. The owner may unbind
at any time; the service of `WFGlobal.cc` does so only from its `handle_stop`,
which is one of the behaviours.

**SyncOperation** (`WFGlobal.cc`, lines 59-86). Threads are alike, so the state
counts how many are at each step: between the mutex and the increase, waiting,
woken, and in the loop that gives threads back. An increase may fail.

**RbTree** (`rbtree.c`). The links and colours of nodes as a record of
functions, and the insertion, erasure, rotation and replacement code as
operators on it; the two mirror-image branches of the C code are one operator
with a side as parameter. **TimerTree** runs it as the tree of a poller, with
`tree_first`, `tree_last` and the shortcut they give `__poller_tree_insert`.
**LRUCache** (`LRUCache.h`) runs it as the map of a cache whose handles are held
by callers.

**JsonText** (`json_parser.c`). Measuring and unescaping of strings, the
conversion of numbers (with fewer digits and powers than a double has), and
parsing of nested values that counts the blocks it allocates and frees.
**JsonDoc** (the same file). Documents that a program builds and takes apart: a
member is in a list, in a tree and in a count, and values move between documents.

**URI** (`URIParser.cc`). The two loops of the parser over one character of each
kind that its tables tell apart, and the `ParsedURI` object that is parsed into,
copied and moved. **StringUtil** (`StringUtil.cc` and the splitting functions of
`URIParser.cc`). Percent coding and decoding on character codes, splitting.

**HttpParser** (`http_parser.c`) and **HttpMessage** (`HttpMessage.cc`,
`HttpTaskImpl.cc`, `HttpUtil.cc`). A message is a sequence of symbols: the
characters that the parser looks at ("CR", ":", "SP"...) and words it compares
as a whole. The parser is the state machine of the code, one symbol or line at
a time; HttpMessage feeds it pieces, lets the application put a response
together, completes and encodes it, and lets the other end read it back.

## The runs

Every `...Inv` conjoins the type invariant of a module with its state
invariants, each of which has a comment of its own in the module. Runs with
several independent parts (`threads`, `data`, `workflow`) start in one initial
state per part, and the steps of a part leave the others alone.

| run | what it shows |
|---|---|
| `msgqueue` | `Inv`: the count is the put list, a swap never meets a non-empty get list, no wakeup of a getter or putter is lost. `Implements`: the two lists are one queue. `CallsReturn`: set_nonblock frees every caller, and a sleeping getter returns once a message is there. |
| `threads` | `PoolInv`: the count is right, each thread is joined once, no task is forgotten, and the pool is freed after everyone is through with it, also by a task. `QueueInv`: one routine per busy queue, sessions leave in order and are handled once, and the head read without the mutex is still the first. `SyncInv`: threads blocked by synchronous operations are replaced and given back. `IoInv`: a session ends once, references are exact, and the last one is alone with the list. `DestroyTerminates`, `EverySessionHandled`, `SyncEnds`, `IoEnds`: each of the four ends what it began. |
| `data` | `Inv`, `Implements`: the ring of a series is a deque. `TreeInv`: the timer tree is a balanced search tree that reads as the ordered sequence of `Poller`, with the right cached ends. `CacheInv`: references, lists and tree of the cache agree. `DocInv`: JSON members are in list, tree and count, and no block is lost. `JsonTextInv`: strings and numbers come out as written, and a failed allocation at any depth leaves nothing behind. `MessageInv`: an HTTP message read in pieces gives the same as read at once. `RoundTrip`: what a server sends is what the client reads. `KeepAliveAgrees`: both ends agree on what becomes of the connection, with one exception (`Undecided`): a response of an old version whose Connection header says neither close nor Keep-Alive is kept by the server and closed by the client. `UriInv`: a URI is parsed as a reference splitting says, whatever the object held before. `StrInv`: decoding undoes encoding, and splitting loses nothing. |
| `workflow` | `GraphInv`: no use after delete, a parallel ends after its parts, everything is deleted and calls back once, and a cancelled series starts nothing more. `RootEnds`. `ServerInv`: the connection count is exact, tasks are deleted once and find their connection, nothing is left when wait_finish returns. `ServerStops`: shutdown ends whatever runs. |
| `sched` | `LoadInv`: loads are exact, the heap is in order, a waiter comes back with the right mutex. `NoSlotForgotten`: nobody sleeps for ever beside a free slot. |
| `poller` | `NodeInv`: each node is in one place, gets one final callback, no pointer is kept after it, and the timer covers the first deadline. `EveryNodeEnds`. |
| `server` | `EntryInv`: lists match states, references are exact, sessions end once. `NoUseAfterRelease`. `NextRequestAccepted`: a request that follows a complete reply is not refused. `ImplementsService`: the owner sees what `Service` promises. `UnbindFinishes`. |
| `client` | `EntryInv`, `NoUseAfterRelease` as above. `ReplyAccepted`: a reply that overtakes its requester is accepted. `EveryRequestEnds`. `StopFreesAll`: deinit frees every connection. |
| `thrdpool_zero`, `client_unlock`, `uri`, `datagram` | expected violations, see Findings |

### Bounds

The named bounds are `MaxCalls`, `MaxOps`, `MaxSize`, `MaxSyncs`, `MaxFails`,
`MaxHeld`, `MaxBlocks`, `MaxHttpOps`, `MaxVectors`, `MaxLevel`, `MaxCancels`,
`MaxStarts`, `MaxChanges`, `MaxTime`, `MaxSets`, `MaxNodes`, `MaxSess` and
`MaxLoad`; each that counts is a guard of the action that counts. They are
chosen so that every action and every alternative of an action happens, and
that each hazard of `PROJECT.json` that names a property has behaviours in which
the thing that may go wrong is attempted:

- `msgqueue`: 3 threads, 3 messages, a queue of one, 3 other calls. Two putters
  and a getter have every kind of waiting; three threads are the fewest with two
  waiters and a waker.
- `threads`: a pool of up to 3 workers (2 at first), 2 tasks and 3 increases or
  decreases makes a chain of joins, and one worker may run the task that
  destroys the pool while another leaves. An executor of 2 threads, 2 queues and
  4 sessions refills a queue while its routine leaves and while it is cancelled.
  One handler thread and 5 operations block everything at once unless a thread
  is added, also when one increase fails. Two handlers and 2 file sessions let a
  completion overtake its request on either side of unbind.
- `data`: a ring of 4 has to expand once with its content wrapped around the
  end; 9 timers, two pairs of them equal, reach every case of insertion and
  erasure (TLC's coverage shows no expression of `RbTree` unevaluated); 4 handles
  on 3 keys give a replaced value that is still held, in caches of size 2 and
  unlimited. Limits of formats are scaled down (a header name of 3 symbols for 64
  bytes, a JSON depth of 2, numbers of 3 figures) so that they are met and passed;
  `MaxVectors` 11 lets encode run out of vectors; every allocation up to the sixth
  fails in some behaviour. Strings have up to 3 characters, one of each kind.
- `workflow`: a root series with nested parallels, an empty parallel as last
  task, a parallel and a task pushed by others, 2 cancels. The server has a limit
  of 1 and 3 connections: two that exceed the limit while the first has two
  requests, and a service that is started twice.
- `sched`: 3 threads, 3 targets with limits 1, 1, 2 and 4 changes of a group: two
  waiters of the group and one of a target in it, and targets that leave and
  return.
- `poller`: three nodes are a deleted one, the one that took its place on the
  same descriptor, and a timer; time runs from 0 to 3, as it takes three
  different deadlines to insert into the middle of the tree, and to insert into
  the tree when the list has been emptied. The deadline of a node that is in
  neither list nor tree is forgotten, since nothing reads it.
- `server`, `client`: two handlers are the fewest for the races the comments of
  the code speak of. The second connection of the server makes the drain concern
  an idle one and a busy one. Three requests over one connection reuse it while
  the first handler is not through with it, and two requests over two meet a
  stop with one connection idle and the other in use.

Symmetry is used in `data`, for the two tasks of the ring, and in
`thrdpool_zero`. Neither has a liveness property; `Implements` is the refinement
of a specification without fairness.

Deadlock is checked in `server`, `client` and `client_unlock`, where a final
stuttering step marks the orderly end. The other systems may really stop: their
finitely many calls have been made, and a thread that waits in `msgqueue_get` or
`epoll_wait` for ever is right to do so. What must not stop is said by the
liveness properties.

### Fairness

- Message queue, thread pool, executor: each thread that can go on does (weak
  fairness of the steps of each thread). A thread is never obliged to make a
  call, only to finish one. Weak fairness is the scheduler of the operating
  system; where a mutex is contended the properties hold without the strong
  fairness that POSIX mutexes do not promise.
- Synchronous operations: threads run, and what a callback waits for is
  delivered once a handler thread is free to deliver it. File I/O: threads run,
  and operations given to the kernel finish.
- Series: tasks end. Server: what the communicator promises under its own
  fairness (connections of an unbound service end, at the latest by their
  timeouts, and `handle_unbound` follows), tasks end, and the program that shuts
  the server down goes on to wait for it.
- Scheduler: a woken thread gets the mutex, and whoever holds a slot releases it.
- Poller: the thread runs, time passes, a stop that began goes on, and
  `epoll_wait` reports the level-triggered pipe in the end (strong fairness: it
  is ready each time the thread waits, but not while the thread works).
- Communicator, server side: threads run; writes end, and reads that have a
  timeout end, since the poller ends them when it expires; the application
  answers or drops each session, which is its duty. Client side: threads run;
  connecting, writing and reading a reply end, at the latest by their timeouts.

## Findings

- **thrdpool.c:195** (`thrdpool_zero`). `thrdpool_increase` starts the new thread
  before it counts it, and a worker reads `nthreads` without the mutex (line
  61). In a pool of no threads with a queued task the new thread runs the task,
  reads 0 and frees the pool, though nobody has destroyed it: the comment at
  line 62 says "Thread pool was destroyed by the task.". `PoolSafe` shows that
  the protocol is right when increase is called on a pool that has threads, as
  the pools of the communicator and the executor do unless they are configured
  with 0 or decreased to 0.
- **Communicator.cc:589** (`client_unlock`). In the case "This may happen only
  if handler_threads > 1." (line 582) the handler leaves the entry to another
  handler, but unlocks `target->mutex` first and `entry->mutex` second. Between
  the two the other handler can free the entry. This is the only place where a
  client entry is used after its release: `NoUseAfterRelease` of the run
  `client` covers all others.
- **URIParser.cc:314** (`uri`). The comment at line 41 gives the form
  `scheme://[userinfo@]host[:port][/path][?query][#fragment]`. When the path is
  missing, the loop over the authority goes on behind the `?`, so that an `@` or
  `:` of the query ends a userinfo or a host: the URI is refused, or its parts
  come out wrong. Among the URIs of the run `data` this is the only
  deviation from the form: `UriInv` excludes the inputs of `QueryAfterHost` only.
- **Communicator.cc:1614** (`datagram`). `reply` has a branch for datagram
  services ("udp", line 1625) that is never reached: a session of a datagram
  keeps `passive` 1, where the stream path sets 2, and `reply` refuses every
  session whose `passive` is not 2.

## What is proved

TLAPS checks eight theorems, for every value of the constants and the bounds.

**MsgQueueProofs.** `QueueInvariant == Spec => []Inv`. The property one wants is
that no wakeup is lost and that a swap does not lose messages; neither is
inductive. A put signals after it has unlocked, so "a getter sleeps beside a
message" is possible as long as some thread is on its way to the signal, which
is what `NoLostGetWakeup` says. That a swap meets an empty get list needs that
nobody else changes the get list meanwhile, hence `MutexOwnership`; that `Full`
and the test for messages mean what they say needs `CountIsPutList`; and that
each message is in one place needs `ArgHeld`. Their conjunction is inductive.
The delicate step is a signal: `SignalGetEffect` shows that the one getter it
wakes is the only one there can be, because a sleeping getter keeps
`get_mutex`.
`QueueRefinement == Spec => Implements` uses the invariant to show that each
step is a step of `BlockingQueue` or leaves `get_list \o put_list` alone: the
swap because the get list is empty, a get because the head of the
concatenation is then the head of the get list (`HeadTailConcat`), and a put at
the head of the put list because it cuts the concatenation at its seam
(`CutConcat`).
Assumed: `MsgMax` and `MaxCalls` are natural numbers and the two null values are
not members of their sets.

**SeriesQueueProofs.** `RingInvariant == Spec => []Inv` and
`RingRefinement == Spec => Implements`. The invariant is the type of the indices
and that the slots from `front` to `back` hold tasks. One lemma per operation
(`PushFrontEffect`, `PushBackEffect`, `PopEffect`) says what it does to the
sequence of queued tasks, with the wrapped and the expanded cases; the
refinement then follows step by step.
Assumed: the ring starts with at least two slots (it has 4 in the code), and
`NoTask` is no task.

**PoolProofs.** `PoolSafe`: `Spec => []PoolInv` if increase is not called on a
pool of no threads; the first finding shows that this hypothesis is needed.
`PoolInv` speaks of threads that have been joined and of a pool that is gone,
neither of which says why the next join will be right. The inductive invariant
`PoolIInv` adds where each thread can be (`Control`), that the count is exact
even when the pool is freed (`Counts`), where each task is (`NoneLost`), and, for
the joins, that the threads that left have an order (`Chain`): each joins the one
before it, `tid` is the last, they end in that order, and a thread has been
joined exactly if its successor has ended. The order is no variable of the
program, so the invariant says that one exists; the exit routine extends it by
one thread (`LinkAdded`), a join finishes a link (`LinkEnded`), and when the
destroyer finds the last thread ended all of them have ended (`LastJoined`).
Assumed: the threads are finitely many, and the null values and the exit task are
not members of their sets.

**SyncProofs.** `SyncSafe == SyncSpec => []SyncInv`. `SyncInv` with its types is
inductive; what has to be shown is that the arithmetic of `sync_operation_end`
leaves at least as many threads as operations still wait and at most twice as
many (`SpareBounds`). Assumed: there is at least one handler thread.

**ServerProofs.** `ServerSafe == ServerSpec => []ServerInv`. Each conjunct of
`ServerInv` needs what the others leave out, so the inductive invariant
`ServerIInv` ties every task to the state of its session (`TasksFit`), every open
session to its connection (`SessionsHaveConnections`), every connection to its
place in the count (`PlacesFit`) and the stages of the owner to what the service
still holds (`OwnerFits`). `CountExact` then follows because each step moves at
most one connection in or out of the counted set. The proof uses `Service` as a
black box: what its actions do to connections and sessions is stated once
(`ServiceKeeps`, `ServiceSettles`). Assumed: the connections are finitely many
and the limit is a natural number.

**IOProofs, IORefProofs.** `IoSafe == IoSpec => []IoInv`. `IoInv` says that a
session is in the list while its operation is outstanding, that the reference
count is exact, and that the thread with the last reference is alone with the
list. None of this is kept by a step unless each operation is in one place only:
in the kernel, in the ring, in a result that waits or in the hands of one thread
(`OnePlace`, `Twice`, `WithSession`), and the place agrees with what its session
has gone through (`Phases`). The reference of the open descriptor goes once
because its node is deleted once and leaves one result, or one thread, that shuts
the service down (`Base`). The poller takes a completion from the ring for each
count it has read, so the counter has to cover the ring (`Counted`). `IOProofs` has these
parts; `IORefProofs` adds the count (`Refs`), where each step moves at most one
result or thread in or out of a counted set, and that a thread in the last loop
has nobody beside it (`LastOne`), which follows from a count of zero. The
conjunction, `IoIInv`, is inductive. Assumed: the handler threads are finitely
many, and the null session is no session.

`PoolIInv`, `ServerIInv` and `IoIInv` were also checked with TLC on the instances of the
runs before they were proved.

Only model-checked:

- the liveness properties: fairness is out of the prover's reach;
- all that rests on recursive operators: `RbTree`, `TimerTree`, `LRUCache`,
  `HttpParser`, `HttpMessage`, `JsonText`, `JsonDoc`, `URI`, `StringUtil`,
  `CommSched` (its heap) and `Workflow`;
- `Executor`, whose lists lose an element by a filter on sequences, and what a
  filter computes needs induction over sequences;
- `Poller`, `CommServer` with `ImplementsService` and `CommClient`: their invariants are large conjunctions over many control points, and only
  their checked form is kept.

## What is not modelled

`PROJECT.json` lists every part with its reason. In short:

- mpoller, CommRequest, SleepRequest, IORequest, WFTaskFactory, ProtocolMessage,
  list.h: adapters, constructors and macros without state of their own.
  EncodeStream is used by nothing in the repository, and `IOService_thread` is not
  built on Linux.
- TLS and CRC-32C: computations outside the control the models are about. The
  syntax of JSON numbers: a number is given by its digits and exponent.
- Inside the communicator: `push`; requests made while it is deinitialised, which
  its interface excludes; a `new_session` that returns NULL; the translation of
  sleep results. Client tasks of `WFTask.inl`: their end is the `handle` of
  `CommClient`.
- Inside the poller: the capacity of its pipe (line 1011 of `poller.c`: a full
  pipe blocks a caller that holds the mutex). The models send fewer commands than
  a pipe holds.
- Inside HTTP: erasing headers through a cursor, and `HttpHeaderMap`, a copy of
  the headers for lookup.
- Failures of allocation that leave everything as it was.
