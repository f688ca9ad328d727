------------------------------- MODULE MCData -------------------------------
(***************************************************************************)
(* The sequential parts, each alone: the task ring of a series, the timer  *)
(* tree of a poller, the LRU cache, JSON documents, HTTP messages, URIs,   *)
(* URL strings and JSON texts.  A behaviour picks one of them and calls    *)
(* its operations in any order.                                            *)
(***************************************************************************)
EXTENDS SeriesQueue, TimerTree, LRUCache, JsonDoc, StringUtil, MCHttp, MCURI, MCJson

VARIABLE part            \* the one the behaviour is about

(* Two pairs of equal deadlines; nine nodes reach every case of rb_erase. *)
MCTimeout == <<1, 1, 2, 3, 3, 4, 5, 6, 7>>

(* A blank, the characters that url_encode or a query treat specially, hex
   digits and a byte above 127.                                            *)
MCStrings == UpTo(3, {32, 37, 38, 43, 50, 61, 98, 200})

DataInit ==
  /\ part \in {"ring", "tree", "cache", "document", "http", "uri", "string", "json"}
  /\ Init /\ TreeInit /\ CacheInit /\ DocInit /\ HttpInit /\ UriInit /\ StrInit /\ JsonInit
  /\ part # "http" => phase = "handle" /\ request = CHOOSE r \in Requests : TRUE

lists == <<vars, tree_vars, cache_vars, doc_vars>>
texts == <<http_vars, uri_vars, str_vars, json>>

DataNext ==
  /\ UNCHANGED part
  /\ \/ part = "ring" /\ Next /\ UNCHANGED <<tree_vars, cache_vars, doc_vars, texts>>
     \/ part = "tree" /\ TreeNext /\ UNCHANGED <<vars, cache_vars, doc_vars, texts>>
     \/ part = "cache" /\ CacheNext /\ UNCHANGED <<vars, tree_vars, doc_vars, texts>>
     \/ part = "document" /\ DocNext /\ UNCHANGED <<vars, tree_vars, cache_vars, texts>>
     \/ part = "http" /\ HttpNext /\ UNCHANGED <<lists, uri_vars, str_vars, json>>
     \/ part = "uri" /\ UriNext /\ UNCHANGED <<lists, http_vars, str_vars, json>>
     \/ part = "string" /\ StrNext /\ UNCHANGED <<lists, http_vars, uri_vars, json>>
     \/ part = "json" /\ JsonNext /\ UNCHANGED <<lists, http_vars, uri_vars, str_vars>>

DataSpec == DataInit /\ [][DataNext]_<<part, lists, texts>>

Symmetry == Permutations(Tasks)
=============================================================================
