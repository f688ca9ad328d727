-------------------------------- MODULE URI --------------------------------
(***************************************************************************)
(* URIParser and ParsedURI (src/util/URIParser.cc, URIParser.h).  Positions *)
(* count from 0 as in the code and a text ends with NUL.  The characters   *)
(* are one of each kind that the tables of the parser tell apart: "a"      *)
(* stands for letters, "1" for digits, the others for themselves.          *)
(***************************************************************************)
EXTENDS Integers, Sequences, FiniteSets

CONSTANTS Uris,      \* the parts of the URIs that are parsed
          Again      \* bound: those that are parsed into a used object

VARIABLES uri,       \* the ParsedURI object
          parts      \* the parts whose text was parsed last

uri_vars == <<uri, parts>>

NUL == "NUL"
Before == <<"scheme", "userinfo", "host", "port">>              \* checked for characters
Part == <<"scheme", "userinfo", "host", "port", "query", "fragment", "path">>
PartSet == {Part[k] : k \in 1..7}
valid_char == [scheme |-> {"a", "1"}, userinfo |-> {"a", "1", ":"},
               host |-> {"a", "1", ":", "[", "]"}, port |-> {"1"}]

CharOf(str, i) == IF i < Len(str) THEN str[i + 1] ELSE NUL
NoUri == [p \in PartSet |-> <<>>]                              \* <<>> is NULL
ParsedInit == [state |-> "INIT", field |-> NoUri]

-----------------------------------------------------------------------------
(* Where the parser is: bounds of the parts, the part before the next
   delimiter, and what the loops remember.                                 *)
Zero == [p \in PartSet |-> 0]
Scan(i, end) == [i |-> i, start |-> Zero, end |-> end, pre |-> "scheme",
                 in_ipv6 |-> FALSE, skip_path |-> FALSE]

Colons(str) == {i \in 0..(Len(str) - 1) : CharOf(str, i) = ":"}
First(S) == CHOOSE i \in S : \A j \in S : i <= j
SchemeEnd(str) == IF Colons(str) = {} THEN 0 ELSE First(Colons(str))

AfterScheme(str) ==
  LET i == SchemeEnd(str) + 1
      s == Scan(i, [Zero EXCEPT !.scheme = i - 1])
  IN IF CharOf(str, i) = "/" /\ CharOf(str, i + 1) = "/"
     THEN [s EXCEPT !.i = i + 2, !.pre = "host", !.start.host = i + 2,
                    !.in_ipv6 = CharOf(str, i + 2) = "[",
                    !.start.userinfo = IF CharOf(str, i + 2) = "[" THEN 0 ELSE i + 2]
     ELSE [s EXCEPT !.pre = "path", !.start.path = i]

(* One character of the authority loop that does not end it. *)
AfterAt(str, s) ==
  [s EXCEPT !.in_ipv6 = @ \/ CharOf(str, s.i + 1) = "[", !.end.userinfo = s.i,
            !.start.host = s.i + 1, !.pre = "host"]
InBrackets(str, s) == s.in_ipv6 /\ CharOf(str, s.i - 1) # "]"
AfterColon(str, s) ==
  IF InBrackets(str, s) THEN s
  ELSE [s EXCEPT !.in_ipv6 = FALSE, !.end.host = s.i, !.start.port = s.i + 1, !.pre = "port"]
AfterQuestion(s) == [s EXCEPT !.end[s.pre] = s.i, !.start.query = s.i + 1,
                              !.pre = "query", !.skip_path = TRUE]

RECURSIVE Authority(_, _)
Authority(str, s) ==
  LET c == CharOf(str, s.i)
      Next(t) == Authority(str, [t EXCEPT !.i = @ + 1])
  IN CASE c = "@" -> Next(AfterAt(str, s))
       [] c = ":" -> Next(AfterColon(str, s))
       [] c = "?" -> Next(AfterQuestion(s))
       [] c = "#" -> [s EXCEPT !.end[s.pre] = s.i, !.start.fragment = s.i + 1,
                               !.end.fragment = Len(str), !.pre = "none", !.skip_path = TRUE]
       [] c = "/" /\ ~s.skip_path -> [s EXCEPT !.start.path = s.i]
       [] c = NUL -> [s EXCEPT !.skip_path = TRUE]
       [] OTHER -> Next(s)

EndPart(s) == IF s.pre = "none" THEN s ELSE [s EXCEPT !.end[s.pre] = s.i]

(* The loop over path, query and fragment: each is ended by the first
   delimiter of the next one.                                              *)
Hits(str, i, S) == {j \in i..Len(str) : CharOf(str, j) \in S \cup {NUL}}
AfterPath(str, s) ==
  LET p == First(Hits(str, s.i, {"?", "#"}))
      query == CharOf(str, p) = "?"
      q == IF query THEN First(Hits(str, p + 1, {"#"})) ELSE p
      frag == CharOf(str, q) = "#"
  IN [s EXCEPT !.end.path = p,
               !.start.query = IF query THEN p + 1 ELSE @, !.end.query = IF query THEN q ELSE @,
               !.start.fragment = IF frag THEN q + 1 ELSE @,
               !.end.fragment = IF frag THEN Len(str) ELSE @]

Scanned(str) ==
  LET s == AfterScheme(str)
      a == EndPart(IF s.start.path = 0 THEN Authority(str, s) ELSE s)
  IN IF a.skip_path THEN a ELSE AfterPath(str, a)

Valid(str, s) ==
  \A k \in 1..4 : \A j \in s.start[Before[k]]..(s.end[Before[k]] - 1) :
    CharOf(str, j) \in valid_char[Before[k]]

Stripped(x) == IF x[1] = "[" /\ x[Len(x)] = "]" THEN SubSeq(x, 2, Len(x) - 1) ELSE x
Field(str, s, p) ==
  IF s.end[p] <= s.start[p] THEN <<>>
  ELSE LET x == SubSeq(str, s.start[p] + 1, s.end[p]) IN IF p = "host" THEN Stripped(x) ELSE x
Fields(str) == LET s == Scanned(str) IN [p \in PartSet |-> Field(str, s, p)]

Accepted(str) == SchemeEnd(str) > 0 /\ Valid(str, Scanned(str))

-----------------------------------------------------------------------------
(* scheme://[userinfo@]host[:port][/path][?query][#fragment] *)
Opt(mark, x) == IF x = <<>> THEN <<>> ELSE mark \o x
Text(u) ==
  u.scheme \o <<":">>
  \o (IF u.host = <<>> THEN <<>>
      ELSE <<"/", "/">> \o (IF u.userinfo = <<>> THEN <<>> ELSE u.userinfo \o <<"@">>)
           \o u.host \o Opt(<<":">>, u.port))
  \o u.path \o Opt(<<"?">>, u.query) \o Opt(<<"#">>, u.fragment)

UriInit == uri = ParsedInit /\ parts = NoUri

(* parse: on success each field is replaced, realloc may fail at the k-th. *)
StoredKept(old, new, k) == [p \in PartSet |->           \* mutant: old field not freed
  IF new[p] = <<>> THEN old[p] ELSE new[p]]
Stored(old, new, k) == [p \in PartSet |->
  IF \E j \in 1..7 : Part[j] = p /\ j < k THEN new[p]
  ELSE IF k <= 7 /\ Part[k] = p THEN <<>> ELSE old[p]]

Parse(u) ==
  /\ uri = ParsedInit \/ u \in Again
  /\ parts' = u
  /\ IF Accepted(Text(u))
     THEN \E k \in {1, 3, 8} :
            uri' = [state |-> IF k = 8 THEN "SUCCESS" ELSE "ERROR",
                    field |-> Stored(uri.field, Fields(Text(u)), k)]
     ELSE uri' = [uri EXCEPT !.state = "INVALID"]

(* The object is assigned to another one, which takes its place here; a strdup
   may fail.                                                               *)
Copy ==
  /\ uri' \in IF uri.state = "SUCCESS" THEN {uri, [state |-> "ERROR", field |-> NoUri]}
              ELSE {[uri EXCEPT !.field = NoUri]}
  /\ UNCHANGED parts

(* The object was moved from. *)
MoveFrom == uri' = ParsedInit /\ parts' = NoUri

UriNext == (\E u \in Uris : Parse(u)) \/ Copy \/ MoveFrom

UriSpec == UriInit /\ [][UriNext]_uri_vars
-----------------------------------------------------------------------------
Chars(x) == {x[k] : k \in 1..Len(x)}
WellFormedUri(u) == u # NoUri /\ \A k \in {1, 2, 4} : Chars(u[Before[k]]) \subseteq valid_char[Before[k]]

(* A query directly after the host with one of these is taken apart again by
   the loop over the authority.                                            *)
QueryAfterHost(u) == u.host # <<>> /\ u.path = <<>> /\ Chars(u.query) \cap {":", "@", "?"} # {}

Given(u) == [u EXCEPT !.host = IF @ = <<>> THEN @ ELSE Stripped(@)]

(* The text of a well-formed URI is accepted and gives back its parts, exactly
   these: a field of an earlier URI never shows through, whatever was parsed
   into the object before and however that ended.                          *)
UriInv ==
  ~QueryAfterHost(parts) =>
    /\ uri.state = "SUCCESS" => WellFormedUri(parts) /\ uri.field = Given(parts)
    /\ uri.state = "INVALID" => ~WellFormedUri(parts)

(* The same for every URI of the form that heads the source file. *)
EveryUriParsed == uri.state = "INVALID" => ~WellFormedUri(parts)
=============================================================================
