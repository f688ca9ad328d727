------------------------------ MODULE JsonDoc ------------------------------
(***************************************************************************)
(* JSON values as a program builds and takes them apart with the functions *)
(* of src/util/json_parser.c.  An object keeps its members in a list, in   *)
(* the order of insertion, and in a red-black tree, by name (equal names   *)
(* are allowed); an array is a list.  Any malloc may fail.                 *)
(*                                                                         *)
(* The tree is given by its order: the sequence of the list positions of   *)
(* its nodes from left to right (RbTree models rb_insert_color and         *)
(* rb_erase, which keep that order).                                       *)
(***************************************************************************)
EXTENDS Integers, Sequences, SequencesExt, FiniteSetsExt

CONSTANTS Docs,                 \* the json_value_t pointers of the program
          NoDoc,
          Names,                \* numbers, for their order under strcmp
          MaxBlocks             \* bound: allocated blocks

VARIABLES docs,                 \* what each pointer refers to
          blocks                \* blocks allocated and not yet freed
doc_vars == <<docs, blocks>>

Container == {"object", "array"}
Empty(type) == IF type \in Container
               THEN [type |-> type, list |-> <<>>, tree |-> <<>>, size |-> 0]
               ELSE [type |-> type]

(* The blocks that __destroy_json_value frees. *)
RECURSIVE BlocksOf(_)
BlocksOfAll(list) == FoldLeft(LAMBDA n, x : n + 1 + BlocksOf(x.val), 0, list)
BlocksOf(v) == CASE v.type = "string" -> 1
                 [] v.type \in Container -> BlocksOfAll(v.list)
                 [] OTHER -> 0

DocInit == docs = [d \in Docs |-> NoDoc] /\ blocks = 0

-----------------------------------------------------------------------------
(* __insert_json_member, or list_add for an array, behind the p-th entry: to
   the right of all nodes with a name that is not greater.                 *)
Shifted(tree, p) == [k \in DOMAIN tree |-> IF tree[k] > p THEN tree[k] + 1 ELSE tree[k]]
Link(c, p, x) ==
  LET left == Cardinality({k \in DOMAIN c.tree : c.list[c.tree[k]].name <= x.name})
  IN [c EXCEPT !.list = InsertAt(@, p + 1, x),
               !.tree = IF c.type = "array" THEN <<>>
                        ELSE InsertAt(Shifted(@, p), left + 1, p + 1)]

(* list_del and rb_erase. *)
OnlyListDel(c, p) == [c EXCEPT !.list = RemoveAt(@, p)]      \* mutant: no rb_erase
Unlink(c, p) ==
  LET rest == SelectSeq(c.tree, LAMBDA q : q # p)
  IN [c EXCEPT !.list = RemoveAt(@, p),
               !.tree = [k \in DOMAIN rest |-> IF rest[k] > p THEN rest[k] - 1 ELSE rest[k]]]

Free(d) == docs[d] = NoDoc
Owned(d, type) == ~Free(d) /\ docs[d].type \in type
NameFor(c) == IF c.type = "object" THEN Names ELSE {0}

(* json_value_create: of a string the second malloc is the string's. *)
json_value_create(d, type) ==
  /\ Free(d)
  /\ docs' = [docs EXCEPT ![d] = Empty(type)]
  /\ blocks' = blocks + 1 + BlocksOf(Empty(type))

(* __json_object_insert and __json_array_insert with a new value; append,
   insert_after and insert_before differ in the position.                  *)
Insert(d, p, name, type) ==
  LET x == [name |-> name, val |-> Empty(type)]
  IN /\ docs' = [docs EXCEPT ![d] = [Link(docs[d], p, x) EXCEPT !.size = @ + 1]]
     /\ blocks' = blocks + 1 + BlocksOf(Empty(type))

(* The same with type 0: the value of a json_value_t is moved into the entry
   and the json_value_t is freed.                                          *)
InsertMoved(d, p, name, src) ==
  LET x == [name |-> name, val |-> docs[src]]
  IN /\ src # d /\ ~Free(src)
     /\ docs' = [docs EXCEPT ![d] = [Link(docs[d], p, x) EXCEPT !.size = @ + 1],
                             ![src] = NoDoc]
     /\ blocks' = blocks + 1 - 1

(* json_object_remove and json_array_remove: the value moves into a new
   json_value_t, the entry is freed.                                       *)
TakeOut(d, p, to) ==
  /\ Free(to) /\ p \in DOMAIN docs[d].list
  /\ docs' = [docs EXCEPT ![d] = [Unlink(docs[d], p) EXCEPT !.size = @ - 1],
                          ![to] = docs[d].list[p].val]
  /\ blocks' = blocks + 1 - 1

(* __copy_json_value with m mallocs that succeed: the copy, the mallocs left
   and the blocks taken; a failure destroys what was copied so far.        *)
Undone(v) == BlocksOf(v)
RECURSIVE copy_value(_, _)
CopyEntry(r, x) ==
  IF ~r.ok THEN r
  ELSE IF r.m = 0 THEN [r EXCEPT !.ok = FALSE]
  ELSE LET c == copy_value(x.val, r.m - 1)
       IN IF ~c.ok THEN [r EXCEPT !.ok = FALSE, !.m = c.m, !.taken = @ + c.taken]
          ELSE [ok |-> TRUE, m |-> c.m, taken |-> r.taken + 1 + c.taken,
                val |-> Link(r.val, Len(r.val.list), [name |-> x.name, val |-> c.val])]
copy_value(v, m) ==
  CASE v.type = "string" -> [ok |-> m > 0, m |-> IF m > 0 THEN m - 1 ELSE 0,
                             taken |-> IF m > 0 THEN 1 ELSE 0, val |-> v]
    [] v.type \in Container ->
         LET r == FoldLeft(CopyEntry, [ok |-> TRUE, m |-> m, taken |-> 0,
                                       val |-> Empty(v.type)], v.list)
         IN IF r.ok THEN [r EXCEPT !.val.size = v.size]
            ELSE [r EXCEPT !.taken = @ - Undone(r.val)]
    [] OTHER -> [ok |-> TRUE, m |-> m, taken |-> 0, val |-> v]

json_value_copy(d, to, m) ==
  LET c == copy_value(docs[d], m)
  IN /\ ~Free(d) /\ Free(to)
     /\ docs' = [docs EXCEPT ![to] = IF c.ok THEN c.val ELSE NoDoc]
     /\ blocks' = blocks + c.taken + IF c.ok THEN 1 ELSE 0

json_value_destroy(d) ==
  /\ ~Free(d)
  /\ docs' = [docs EXCEPT ![d] = NoDoc]
  /\ blocks' = blocks - 1 - BlocksOf(docs[d])

(* A call that runs out of memory before it has changed anything. *)
NoMemory == UNCHANGED doc_vars

DocStep ==
  \/ \E d \in Docs, type \in {"null", "string", "object", "array"} : json_value_create(d, type)
  \/ \E d \in Docs : /\ Owned(d, Container)
                     /\ \E p \in 0..Len(docs[d].list), name \in NameFor(docs[d]) :
                          \/ \E type \in {"null", "string"} : Insert(d, p, name, type)
                          \/ \E src \in Docs : InsertMoved(d, p, name, src)
  \/ \E d, to \in Docs : /\ Owned(d, Container)
                         /\ \E p \in 1..Len(docs[d].list) : TakeOut(d, p, to)
  \/ \E d, to \in Docs, m \in 0..MaxBlocks : json_value_copy(d, to, m)
  \/ \E d \in Docs : json_value_destroy(d)
  \/ NoMemory

DocNext == DocStep /\ blocks' <= MaxBlocks

DocSpec == DocInit /\ [][DocNext]_doc_vars
-----------------------------------------------------------------------------
Allocated(d) == IF Free(d) THEN 0 ELSE 1 + BlocksOf(docs[d])

RECURSIVE WellKept(_)
WellKept(v) == v.type \in Container =>
  /\ v.size = Len(v.list)
  /\ \A k \in DOMAIN v.list : WellKept(v.list[k].val)
  /\ v.type = "object" =>
       /\ Len(v.tree) = Len(v.list) /\ Range(v.tree) = DOMAIN v.list
       /\ \A k \in 1..(Len(v.tree) - 1) :
            v.list[v.tree[k]].name <= v.list[v.tree[k + 1]].name

(* However values are built, moved into each other, copied and taken apart, the
   list, the tree and the size of every object hold the same members, the tree
   in the order that json_object_find descends by, and every block belongs to
   exactly one value, whichever malloc of a copy failed.                   *)
DocInv == /\ \A d \in Docs : ~Free(d) => WellKept(docs[d])
          /\ blocks = MapThenSumSet(Allocated, Docs)
=============================================================================
