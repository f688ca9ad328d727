------------------------------- MODULE RbTree -------------------------------
(***************************************************************************)
(* The red-black tree of src/kernel/rbtree.c, as operators on a tree       *)
(* T = [root, parent, child, color].  The code writes every rebalancing    *)
(* step twice, once for each side; here the side d is a parameter.  The    *)
(* search belongs to the user of the tree: TimerTree and LRUCache.         *)
(***************************************************************************)
EXTENDS Integers, Sequences

CONSTANT Nil         \* the null pointer, no node of a tree

Opposite(d) == IF d = "left" THEN "right" ELSE "left"

EmptyTree(S) ==
  [root |-> Nil, parent |-> [n \in S |-> Nil], color |-> [n \in S |-> "black"],
   child |-> [n \in S |-> [left |-> Nil, right |-> Nil]]]

IsRed(T, n) == n # Nil /\ T.color[n] = "red"
Paint(T, n, c) == IF n = Nil THEN T ELSE [T EXCEPT !.color[n] = c]
SetParent(T, n, p) == IF n = Nil THEN T ELSE [T EXCEPT !.parent[n] = p]
SideOf(T, p, n) == IF T.child[p].left = n THEN "left" ELSE "right"

(* m takes the place of n below p, or at the root. *)
Relink(T, p, n, m) == IF p = Nil THEN [T EXCEPT !.root = m]
                      ELSE [T EXCEPT !.child[p][SideOf(T, p, n)] = m]

(* __rb_rotate_left for d = "left" and __rb_rotate_right for d = "right". *)
rotate(T, n, d) ==
  LET up == T.child[n][Opposite(d)]
      moved == T.child[up][d]
      T1 == SetParent([T EXCEPT !.child[n][Opposite(d)] = moved], moved, n)
      T2 == [T1 EXCEPT !.child[up][d] = n, !.parent[up] = T.parent[n]]
  IN  SetParent(Relink(T2, T.parent[n], n, up), n, up)

rb_link_node(T, n, p, d) ==
  LET leaf == [T EXCEPT !.parent[n] = p, !.color[n] = "red",
                        !.child[n] = [left |-> Nil, right |-> Nil]]
  IN  IF p = Nil THEN [leaf EXCEPT !.root = n] ELSE [leaf EXCEPT !.child[p][d] = n]

RECURSIVE rb_insert_color(_, _)
rb_insert_color(T, node) ==
  LET p == T.parent[node]
      g == T.parent[p]
      d == SideOf(T, g, p)
      uncle == T.child[g][Opposite(d)]
      inner == T.child[p][Opposite(d)] = node
      T1 == IF inner THEN rotate(T, p, d) ELSE T
      upper == IF inner THEN node ELSE p
      lower == IF inner THEN p ELSE node
  IN  IF ~IsRed(T, p) THEN Paint(T, T.root, "black")
      ELSE IF IsRed(T, uncle)
      THEN rb_insert_color(
             Paint(Paint(Paint(T, uncle, "black"), p, "black"), g, "red"), g)
      ELSE rb_insert_color(
             rotate(Paint(Paint(T1, upper, "black"), g, "red"), g, Opposite(d)),
             lower)

RECURSIVE rb_erase_color(_, _, _)
rb_erase_color(T, node, p) ==
  LET d == SideOf(T, p, node)
      sibling == T.child[p][Opposite(d)]
      T1 == IF IsRed(T, sibling)
            THEN rotate(Paint(Paint(T, sibling, "black"), p, "red"), p, d) ELSE T
      other == T1.child[p][Opposite(d)]
      near == T1.child[other][d]
      far == T1.child[other][Opposite(d)]
      T2 == IF IsRed(T1, far) THEN T1
            ELSE rotate(Paint(Paint(T1, near, "black"), other, "red"),
                        other, Opposite(d))
      other2 == T2.child[p][Opposite(d)]
      T3 == Paint(Paint(Paint(T2, other2, T2.color[p]), p, "black"),
                  T2.child[other2][Opposite(d)], "black")
      T4 == rotate(T3, p, d)
  IN  IF IsRed(T, node) \/ node = T.root THEN Paint(T, node, "black")
      ELSE IF ~IsRed(T1, near) /\ ~IsRed(T1, far)
      THEN rb_erase_color(Paint(T1, other, "red"), p, T1.parent[p])
      ELSE Paint(T4, T4.root, "black")

RECURSIVE Outermost(_, _, _)
Outermost(T, n, d) == IF T.child[n][d] = Nil THEN n
                      ELSE Outermost(T, T.child[n][d], d)

(* rb_first for d = "left" and rb_last for d = "right". *)
rb_end(T, d) == IF T.root = Nil THEN Nil ELSE Outermost(T, T.root, d)
rb_first(T) == rb_end(T, "left")
rb_last(T) == rb_end(T, "right")

RECURSIVE AncestorFrom(_, _, _)
AncestorFrom(T, n, d) ==
  LET p == T.parent[n]
  IN  IF p # Nil /\ T.child[p][d] = n THEN AncestorFrom(T, p, d) ELSE p

(* rb_next for d = "right" and rb_prev for d = "left". *)
rb_step(T, n, d) == IF T.child[n][d] # Nil
                    THEN Outermost(T, T.child[n][d], Opposite(d))
                    ELSE AncestorFrom(T, n, d)
rb_next(T, n) == rb_step(T, n, "right")
rb_prev(T, n) == rb_step(T, n, "left")

KeepsParent(n, old, p) == p             \* mutant: fixes up below the erased node
FixupParent(n, old, p) == IF p = old THEN n ELSE p

(* Erasing old, which has two children: its successor n leaves its own place
   and takes the place, the colour and the children of old.                *)
TakeOver(T, old) ==
  LET n == Outermost(T, T.child[old].right, "left")
      c == T.child[n].right
      p == T.parent[n]
      T1 == Relink(SetParent(T, c, p), p, n, c)
      T2 == [T1 EXCEPT !.parent[n] = T1.parent[old], !.color[n] = T1.color[old],
                       !.child[n] = T1.child[old]]
      T3 == Relink(T2, T2.parent[old], old, n)
      T4 == SetParent(SetParent(T3, T3.child[old].left, n), T3.child[old].right, n)
  IN  [tree |-> T4, child |-> c, parent |-> FixupParent(n, old, p),
       color |-> T.color[n]]

(* Erasing n, which has at most one child. *)
Splice(T, n) ==
  LET c == IF T.child[n].left = Nil THEN T.child[n].right ELSE T.child[n].left
      p == T.parent[n]
  IN  [tree |-> Relink(SetParent(T, c, p), p, n, c), child |-> c, parent |-> p,
       color |-> T.color[n]]

(* The links left in the erased node are never read again: Forget gives its
   fields the values of a node that was never linked.                      *)
Forget(T, n) == [T EXCEPT !.parent[n] = Nil, !.color[n] = "black",
                          !.child[n] = [left |-> Nil, right |-> Nil]]

rb_erase(T, n) ==
  LET R == IF T.child[n].left # Nil /\ T.child[n].right # Nil
           THEN TakeOver(T, n) ELSE Splice(T, n)
  IN  Forget(IF R.color = "black" THEN rb_erase_color(R.tree, R.child, R.parent)
             ELSE R.tree, n)

rb_replace_node(T, victim, new) ==
  LET T1 == Relink(T, T.parent[victim], victim, new)
      T2 == SetParent(SetParent(T1, T.child[victim].left, new),
                      T.child[victim].right, new)
  IN  Forget([T2 EXCEPT !.parent[new] = T.parent[victim],
                        !.color[new] = T.color[victim],
                        !.child[new] = T.child[victim]], victim)

-----------------------------------------------------------------------------
(* What a well-formed tree is. *)
RECURSIVE Inorder(_, _)
Inorder(T, n) == IF n = Nil THEN <<>>
                 ELSE Inorder(T, T.child[n].left) \o <<n>> \o
                      Inorder(T, T.child[n].right)

RECURSIVE BlackHeights(_, _)
BlackHeights(T, n) ==
  IF n = Nil THEN {0}
  ELSE {h + (IF IsRed(T, n) THEN 0 ELSE 1) :
          h \in BlackHeights(T, T.child[n].left)
                \cup BlackHeights(T, T.child[n].right)}

(* The root is black and has no parent, child and parent links agree, no red
   node has a red child, every path down meets as many black nodes, and the
   four walks follow the in-order sequence.                                *)
WellFormed(T) ==
  LET order == Inorder(T, T.root)
      At(i) == IF i \in DOMAIN order THEN order[i] ELSE Nil
  IN  /\ ~IsRed(T, T.root) /\ (T.root # Nil => T.parent[T.root] = Nil)
      /\ \E h \in 0..Len(order) : BlackHeights(T, T.root) = {h}
      /\ rb_first(T) = At(1) /\ rb_last(T) = At(Len(order))
      /\ \A i \in DOMAIN order :
            /\ \A d \in {"left", "right"} :
                  LET c == T.child[order[i]][d]
                  IN  c # Nil => /\ T.parent[c] = order[i]
                                 /\ ~(IsRed(T, order[i]) /\ IsRed(T, c))
            /\ rb_next(T, order[i]) = At(i + 1)
            /\ rb_prev(T, order[i]) = At(i - 1)
=============================================================================
