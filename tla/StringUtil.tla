----------------------------- MODULE StringUtil -----------------------------
(***************************************************************************)
(* StringUtil (src/util/StringUtil.cc) and the splitting of queries and    *)
(* paths (src/util/URIParser.cc).  Characters are their codes.             *)
(***************************************************************************)
EXTENDS Integers, Sequences, SequencesExt

CONSTANTS Strings,     \* the strings given to the functions
          MaxLevel     \* bound: how often a string is encoded

VARIABLES origin,      \* the string that was given
          str,         \* what it has become
          level        \* how often it is encoded

str_vars == <<origin, str, level>>

Space == 32
Percent == 37
Amp == 38
Plus == 43
Slash == 47
Equal == 61
DecDigits == 48..57
Upper == 65..90
Lower == 97..122
Alnum == DecDigits \cup Upper \cup Lower
XDigits == DecDigits \cup 65..70 \cup 97..102

Unreserved == Alnum \cup {45, 95, 46, 33, 126, 42, 39, 40, 41}     \* - _ . ! ~ * ' ( )
Reserved == {58, 47, 64, 63, 35, 38}                               \* : / @ ? # &

htoi(c) == IF c \in DecDigits THEN c - 48 ELSE IF c \in Upper THEN c - 55 ELSE c - 87
itoh(n) == IF n > 9 THEN n - 10 + 65 ELSE n + 48

EncodeChar(c, keep) == IF c = Space THEN <<Plus>>
                       ELSE IF c \in keep THEN <<c>>
                       ELSE <<Percent, itoh(c \div 16), itoh(c % 16)>>
Encode(s, keep) == FlattenSeq([k \in 1..Len(s) |-> EncodeChar(s[k], keep)])
KeepPlus == Unreserved \cup Reserved \cup {Plus}      \* mutant: '+' stands for itself, too
url_encode_keeps == Unreserved \cup Reserved
url_encode(s) == Encode(s, url_encode_keeps)
url_encode_component(s) == Encode(s, Unreserved)

(* __url_decode works in place; the NUL after the string stops the lookahead. *)
RECURSIVE url_decode(_)
url_decode(s) ==
  IF s = <<>> THEN <<>>
  ELSE IF s[1] = Percent /\ Len(s) > 2 /\ s[2] \in XDigits /\ s[3] \in XDigits
  THEN <<16 * htoi(s[2]) + htoi(s[3])>> \o url_decode(SubSeq(s, 4, Len(s)))
  ELSE <<IF s[1] = Plus THEN Space ELSE s[1]>> \o url_decode(Tail(s))

RECURSIVE Split(_, _)
Split(s, sep) ==
  LET at == SelectInSeq(s, LAMBDA c : c = sep)
  IN IF at = 0 THEN <<s>>
     ELSE <<SubSeq(s, 1, at - 1)>> \o Split(SubSeq(s, at + 1, Len(s)), sep)

Nonempty(x) == x # <<>>
split_filter_empty(s, sep) == SelectSeq(Split(s, sep), Nonempty)
split_path(s) == split_filter_empty(s, Slash)

(* The key and value of each element of a query that has a key. *)
Pair(ele) == LET kv == Split(ele, Equal)
             IN [key |-> kv[1], val |-> IF Len(kv) = 1 THEN <<>> ELSE kv[2]]
PairsOf(query) ==
  LET arr == split_filter_empty(query, Amp)
  IN SelectSeq([k \in 1..Len(arr) |-> Pair(arr[k])], LAMBDA p : p.key # <<>>)

KeysOf(query) == {PairsOf(query)[k].key : k \in 1..Len(PairsOf(query))}
split_query_strict(query) == [key \in KeysOf(query) |->
  LET own == SelectSeq(PairsOf(query), LAMBDA p : p.key = key)
  IN [k \in 1..Len(own) |-> own[k].val]]

(* The first element with a key counts. *)
RECURSIVE Emplaced(_, _)
Emplaced(pairs, res) ==
  IF pairs = <<>> THEN res
  ELSE LET p == Head(pairs) IN
       Emplaced(Tail(pairs), IF p.key \in DOMAIN res THEN res
                             ELSE [x \in DOMAIN res \cup {p.key} |->
                                     IF x = p.key THEN p.val ELSE res[x]])
split_query(query) == Emplaced(PairsOf(query), [x \in {} |-> <<>>])

-----------------------------------------------------------------------------
StrInit == origin = <<>> /\ str = <<>> /\ level = 0

Give(s) == level = 0 /\ str = <<>> /\ origin' = s /\ str' = s /\ UNCHANGED level
EncodeStr == /\ level < MaxLevel /\ level' = level + 1
             /\ str' \in {url_encode(str), url_encode_component(str)}
             /\ UNCHANGED origin
DecodeStr == /\ level > 0 /\ level' = level - 1
             /\ str' = url_decode(str)
             /\ UNCHANGED origin
StrNext == (\E s \in Strings : Give(s)) \/ EncodeStr \/ DecodeStr

StrSpec == StrInit /\ [][StrNext]_str_vars
-----------------------------------------------------------------------------
Join(pieces, sep) == FoldLeft(LAMBDA x, y : x \o <<sep>> \o y, Head(pieces), Tail(pieces))

(* What was encoded, by whichever of the two functions, comes back when it is
   decoded as often.  Splitting loses nothing but the separators, and both
   ways to split a query agree on the first value of each key.             *)
StrInv ==
  /\ level = 0 => str = origin
  /\ \A sep \in {Amp, Equal} : Join(Split(str, sep), sep) = str
  /\ LET one == split_query(str)
         all == split_query_strict(str)
     IN DOMAIN one = DOMAIN all /\ \A key \in DOMAIN one : one[key] = Head(all[key])
=============================================================================
