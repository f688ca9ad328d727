------------------------------ MODULE LRUCache ------------------------------
(***************************************************************************)
(* The cache of src/util/LRUCache.h: handles with a reference count, found *)
(* through a red-black tree on their keys, and kept in the list in_use     *)
(* while a caller holds one and in not_use, oldest first, while none does. *)
(* The operations of the code nest (put erases, erase_node drops a         *)
(* reference, the last reference frees the handle), so each of them is an  *)
(* operator on the whole cache C and an action applies one of them.        *)
(***************************************************************************)
EXTENDS RbTree, SequencesExt

CONSTANTS Keys,           \* integers, compared with <
          Handles,        \* bound: the addresses of handles, ordered
          MaxHeld,        \* bound: references of callers to one handle
          MaxSizes        \* the values of set_max_size, 0 for no limit

VARIABLES cache,          \* the cache with all its handles
          held            \* how often callers hold each handle

cache_vars == <<cache, held>>

CacheInit ==
  /\ cache \in [cache_map : {EmptyTree(Handles)}, max_size : {0},
                size : {0}, not_use : {<<>>}, in_use : {<<>>},
                key : {[h \in Handles |-> Nil]}, ref : {[h \in Handles |-> 0]},
                in_cache : {{}}]
  /\ held = [h \in Handles |-> 0]

Unlist(C, h) == [C EXCEPT !.not_use = Remove(@, h), !.in_use = Remove(@, h)]

NoMove(C, h) == [C EXCEPT !.ref[h] = @ + 1]  \* mutant: stays in not_use
ref(C, h) ==
  LET C1 == IF h \in C.in_cache /\ C.ref[h] = 1
            THEN [Unlist(C, h) EXCEPT !.in_use = Append(@, h)] ELSE C
  IN  [C1 EXCEPT !.ref[h] = @ + 1]

(* The last reference runs the deleter of the value and frees the handle. *)
unref(C, h) ==
  LET C1 == [C EXCEPT !.ref[h] = @ - 1]
  IN  IF C1.ref[h] = 0
      THEN [C1 EXCEPT !.key[h] = Nil]
      ELSE IF h \in C.in_cache /\ C1.ref[h] = 1
      THEN [Unlist(C1, h) EXCEPT !.not_use = Append(@, h)]
      ELSE C1

erase_node(C, h) ==
  unref([Unlist(C, h) EXCEPT !.in_cache = @ \ {h}, !.size = @ - 1], h)

Drop(C, h) == erase_node([C EXCEPT !.cache_map = rb_erase(@, h)], h)

RECURSIVE LowerBound(_, _, _, _)
(* The search of get and put below p: the leftmost handle whose key is not
   less than k, and the place where the search fell off the tree.          *)
LowerBound(C, k, p, found) ==
  LET d == IF ~(C.key[p] < k) THEN "left" ELSE "right"
      best == IF d = "left" THEN p ELSE found
      next == C.cache_map.child[p][d]
  IN  IF next = Nil THEN [bound |-> best, parent |-> p, side |-> d]
      ELSE LowerBound(C, k, next, best)

Search(C, k) == IF C.cache_map.root = Nil
                THEN [bound |-> Nil, parent |-> Nil, side |-> "left"]
                ELSE LowerBound(C, k, C.cache_map.root, Nil)
Matches(C, k, h) == h # Nil /\ ~(k < C.key[h])
Found(C, k) == LET h == Search(C, k).bound IN IF Matches(C, k, h) THEN h ELSE Nil

RECURSIVE Evict(_)
Evict(C) == IF C.max_size > 0 /\ C.size > C.max_size /\ C.not_use # <<>>
            THEN Evict(Drop(C, Head(C.not_use))) ELSE C

RECURSIVE PruneAll(_)
PruneAll(C) == IF C.not_use = <<>> THEN C ELSE PruneAll(Drop(C, Head(C.not_use)))

Put(C, k, h) ==
  LET at == Search(C, k)
      C1 == [C EXCEPT !.key[h] = k, !.in_cache = @ \cup {h}, !.ref[h] = 2,
                      !.in_use = Append(@, h), !.size = @ + 1]
      C2 == IF Matches(C, k, at.bound)
            THEN erase_node([C1 EXCEPT !.cache_map =
                               rb_replace_node(@, at.bound, h)], at.bound)
            ELSE [C1 EXCEPT !.cache_map =
                    rb_insert_color(rb_link_node(@, h, at.parent, at.side), h)]
  IN  Evict(C2)

set_max_size(max) == /\ cache' = [cache EXCEPT !.max_size = max]
                     /\ UNCHANGED held

get(k) ==
  LET h == Found(cache, k)
  IN  IF h = Nil THEN UNCHANGED cache_vars
      ELSE /\ held[h] < MaxHeld
           /\ cache' = ref(cache, h) /\ held' = [held EXCEPT ![h] = @ + 1]

(* The new handle may be at an address used before. *)
put(k) ==
  \E h \in Handles :
    /\ cache.ref[h] = 0 /\ \A g \in Handles : g < h => cache.ref[g] # 0
    /\ cache' = Put(cache, k, h) /\ held' = [held EXCEPT ![h] = 1]

release(h) ==
  /\ held[h] > 0
  /\ cache' = unref(cache, h) /\ held' = [held EXCEPT ![h] = @ - 1]

del(k) ==
  LET h == Found(cache, k)
  IN  /\ cache' = IF h = Nil THEN cache ELSE Drop(unref(ref(cache, h), h), h)
      /\ UNCHANGED held

prune == cache' = PruneAll(cache) /\ UNCHANGED held

(* ~LRUCache, which callers may run once they hold no handle, and the
   constructor of the next cache.                                          *)
renew ==
  LET drop(C, h) == unref([C EXCEPT !.in_cache = @ \ {h}], h)
      gone == FoldLeft(drop, cache, cache.not_use)
  IN  /\ \A h \in Handles : held[h] = 0
      /\ cache' = [gone EXCEPT !.cache_map = EmptyTree(Handles), !.max_size = 0,
                               !.size = 0, !.not_use = <<>>, !.in_use = <<>>]
      /\ UNCHANGED held

CacheNext == \/ \E k \in Keys : get(k) \/ put(k) \/ del(k)
             \/ \E h \in Handles : release(h)
             \/ \E max \in MaxSizes : set_max_size(max)
             \/ prune
             \/ renew

-----------------------------------------------------------------------------
(* After any sequence of calls: every handle has one reference for each
   caller that holds it and one for the cache, so it is freed exactly when
   the last of them goes and none is left when the cache is destroyed; the
   cached handles are in in_use while a caller holds them and else in
   not_use, whose handles prune and put free; and the tree holds exactly the
   cached handles, in order of their keys, so that get finds the one handle
   of a key.                                                               *)
CacheInv ==
  LET T == cache.cache_map
      sorted == Inorder(T, T.root)
  IN  /\ cache.in_cache \subseteq Handles /\ cache.max_size \in MaxSizes
      /\ cache.size = Cardinality(cache.in_cache)
      /\ \A h \in Handles :
            cache.ref[h] = held[h] + (IF h \in cache.in_cache THEN 1 ELSE 0)
      /\ IsInjective(cache.not_use) /\ IsInjective(cache.in_use)
      /\ Range(cache.not_use) = {h \in cache.in_cache : cache.ref[h] = 1}
      /\ Range(cache.in_use) = {h \in cache.in_cache : cache.ref[h] > 1}
      /\ WellFormed(T) /\ Range(sorted) = cache.in_cache
      /\ \A i \in 1..Len(sorted) - 1 : cache.key[sorted[i]] < cache.key[sorted[i + 1]]
      /\ \A h \in cache.in_cache : Found(cache, cache.key[h]) = h
=============================================================================
