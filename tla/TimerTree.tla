----------------------------- MODULE TimerTree -----------------------------
(***************************************************************************)
(* The tree of timed nodes of src/kernel/poller.c: the red-black tree      *)
(* timeo_tree with its cached first and last node.  Module Poller models   *)
(* it as the sequence of its nodes in order of their deadlines; order is   *)
(* that sequence, and TreeInv says that the tree always spells it.         *)
(***************************************************************************)
EXTENDS RbTree, SequencesExt

CONSTANTS Timers,        \* the poller nodes
          timeout        \* their deadlines

VARIABLES timeo_tree, tree_first, tree_last,
          order          \* the sequence module Poller keeps in its place

tree_vars == <<timeo_tree, tree_first, tree_last, order>>

TreeInit == /\ timeo_tree = EmptyTree(Timers) /\ order = <<>>
            /\ tree_first = Nil /\ tree_last = Nil

timeout_cmp(n, m) == timeout[n] - timeout[m]

(* The place of n below p: a pair of the parent and the side. *)
RECURSIVE Descend(_, _, _)
Descend(T, n, p) ==
  LET d == IF timeout_cmp(n, p) < 0 THEN "left" ELSE "right"
  IN  IF T.child[p][d] = Nil THEN <<p, d>> ELSE Descend(T, n, T.child[p][d])

Place(n) == IF timeo_tree.root = Nil THEN <<Nil, "left">>
            ELSE IF timeout_cmp(n, tree_last) >= 0 THEN <<tree_last, "right">>
            ELSE Descend(timeo_tree, n, timeo_tree.root)

(* Where module Poller puts n: behind the nodes due no later. *)
Inserted(n) ==
  LET k == Len(SelectSeq(order, LAMBDA m : timeout[m] <= timeout[n]))
  IN  InsertAt(order, k + 1, n)

poller_tree_insert(n) ==
  LET at == Place(n)
      empty == timeo_tree.root = Nil
  IN  /\ n \notin Range(order)
      /\ tree_first' = IF empty \/ at = <<tree_first, "left">> THEN n ELSE tree_first
      /\ tree_last' = IF empty \/ timeout_cmp(n, tree_last) >= 0 THEN n ELSE tree_last
      /\ timeo_tree' = rb_insert_color(rb_link_node(timeo_tree, n, at[1], at[2]), n)
      /\ order' = Inserted(n)

poller_tree_erase(n) ==
  /\ n \in Range(order)
  /\ tree_first' = IF n = tree_first THEN rb_next(timeo_tree, n) ELSE tree_first
  /\ tree_last' = IF n = tree_last THEN rb_prev(timeo_tree, n) ELSE tree_last
  /\ timeo_tree' = rb_erase(timeo_tree, n)
  /\ order' = Remove(order, n)

(* __poller_handle_timeout takes the due nodes off the front, one by one. *)
TakeFirst ==
  LET next == rb_next(timeo_tree, tree_first)
  IN  /\ tree_first # Nil
      /\ tree_first' = next
      /\ tree_last' = IF next = Nil THEN Nil ELSE tree_last
      /\ timeo_tree' = rb_erase(timeo_tree, tree_first)
      /\ order' = Tail(order)

TreeNext == \/ \E n \in Timers : poller_tree_insert(n) \/ poller_tree_erase(n)
            \/ TakeFirst

-----------------------------------------------------------------------------
(* After any mix of insertions, erasures and expiries the tree is a balanced
   red-black tree whose links agree, its nodes read from left to right are
   the sequence of module Poller (so equal deadlines keep their order of
   arrival), and tree_first and tree_last are its ends: a stale tree_last
   would make the shortcut of __poller_tree_insert hang a node below a node
   that is no longer there.                                                *)
TreeInv ==
  /\ tree_first \in Timers \cup {Nil} /\ tree_last \in Timers \cup {Nil}
  /\ WellFormed(timeo_tree)
  /\ Inorder(timeo_tree, timeo_tree.root) = order
  /\ tree_first = rb_first(timeo_tree) /\ tree_last = rb_last(timeo_tree)
=============================================================================
