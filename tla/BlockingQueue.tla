--------------------------- MODULE BlockingQueue ---------------------------
(***************************************************************************)
(* What the message queue of src/kernel/msgqueue.c promises to its users:  *)
(* one sequence of messages.  A put appends at the tail, a put_head        *)
(* inserts in front of some suffix of the queue, a get removes the head.   *)
(* No step loses, duplicates or reorders a queued message.                 *)
(***************************************************************************)
EXTENDS Naturals, Sequences

CONSTANT Msgs      \* the messages, each put at most once

VARIABLES todo,    \* the messages that no call has inserted yet
          queue,   \* the messages inserted and not yet delivered, head first
          taken    \* the messages that gets have returned

vars == <<todo, queue, taken>>

Init == todo = Msgs /\ queue = <<>> /\ taken = {}

Put(m) ==
  /\ m \in todo
  /\ todo' = todo \ {m}
  /\ queue' = Append(queue, m)
  /\ UNCHANGED taken

PutHead(m) ==
  /\ m \in todo
  /\ todo' = todo \ {m}
  /\ \E i \in 0..Len(queue) :
       queue' = SubSeq(queue, 1, i) \o <<m>> \o SubSeq(queue, i + 1, Len(queue))
  /\ UNCHANGED taken

Get ==
  /\ queue # <<>>
  /\ queue' = Tail(queue)
  /\ taken' = taken \cup {Head(queue)}
  /\ UNCHANGED todo

Next == Get \/ \E m \in Msgs : Put(m) \/ PutHead(m)

Spec == Init /\ [][Next]_vars
=============================================================================
