------------------------------ MODULE JsonText ------------------------------
(***************************************************************************)
(* The parser of src/util/json_parser.c: strings, numbers, and values with *)
(* the memory they take.  A text is cut up differently for each: strings   *)
(* are sequences of character codes that end with NUL, numbers are given   *)
(* by their digits, values are sequences of tokens.                        *)
(***************************************************************************)
EXTENDS Integers, Sequences, SequencesExt, FiniteSetsExt

CONSTANTS StringTexts, Integrals, Fractions, Exponents,        \* bounds: inputs
          ValueTexts, Documents, Mallocs,
          Figures,              \* 18: digits that fit into the mantissa
          Powers,               \* 308: the last entry of __power_of_10
          Subnormal,            \* 16: powers of ten below 10^-Powers
          JSON_DEPTH_LIMIT

VARIABLE json                   \* an input and what became of it

Quote == 34
Backslash == 92
LetterU == 117
Escapes == {Quote, Backslash, 47, 98, 102, 110, 114, 116}      \* " \ / b f n r t

CharAt(s, i) == IF i <= Len(s) THEN s[i] ELSE 0

(* __json_string_length from position i on: the length, or -2, and the position
   of the quote that ends the string.                                      *)
RECURSIVE string_length(_, _, _)
string_length(s, i, len) ==
  CASE CharAt(s, i) = Quote -> [len |-> len, at |-> i]
    [] CharAt(s, i) = Backslash /\ CharAt(s, i + 1) # 0 -> string_length(s, i + 2, len + 1)
    [] CharAt(s, i) >= 32 /\ CharAt(s, i) # Quote /\ CharAt(s, i) # Backslash ->
         string_length(s, i + 1, len + 1)
    [] OTHER -> [len |-> -2, at |-> i]

HexValue(c) == CASE c \in 48..57 -> c - 48
                 [] c \in 65..70 -> c - 55
                 [] c \in 97..102 -> c - 87
                 [] OTHER -> -1
parse_hex4(s, i) ==
  IF \E k \in 0..3 : HexValue(CharAt(s, i + k)) < 0 THEN -2
  ELSE FoldLeft(LAMBDA code, k : code * 16 + HexValue(s[i + k]), 0, <<0, 1, 2, 3>>)

High(code) == code \in 55296..56319          \* d800-dbff
Low(code) == code \in 56320..57343           \* dc00-dfff
Paired(s, i) == /\ CharAt(s, i) = Backslash /\ CharAt(s, i + 1) = LetterU
                /\ Low(parse_hex4(s, i + 2))
Joined(code, next) == ((code % 1024) * 1024) + (next % 1024) + 65536
utf8(code) == CASE code <= 127 -> 1 [] code \in 128..2047 -> 2
                [] code \in 2048..65535 -> 3 [] OTHER -> 4

(* __parse_json_unicode: how many bytes it writes and how many characters it
   reads.                                                                  *)
Unicode(s, i) ==
  LET code == parse_hex4(s, i) IN
  CASE code < 0 \/ Low(code) -> [n |-> -2, used |-> 0]
    [] High(code) /\ Paired(s, i + 4) ->
         [n |-> utf8(Joined(code, parse_hex4(s, i + 6))), used |-> 10]
    [] High(code) /\ ~Paired(s, i + 4) -> [n |-> -2, used |-> 0]
    [] OTHER -> [n |-> utf8(code), used |-> 4]

(* __parse_json_string: the bytes written, or -2, and where it ended. *)
RECURSIVE parse_string(_, _, _)
parse_string(s, i, n) ==
  CASE CharAt(s, i) = Quote -> [n |-> n, at |-> i]
    [] CharAt(s, i) = Backslash /\ CharAt(s, i + 1) \in Escapes -> parse_string(s, i + 2, n + 1)
    [] CharAt(s, i) = Backslash /\ CharAt(s, i + 1) = LetterU ->
         LET u == Unicode(s, i + 2)
         IN IF u.n < 0 THEN [n |-> -2, at |-> i]
            ELSE parse_string(s, i + 2 + u.used, n + u.n)
    [] CharAt(s, i) = Backslash /\ CharAt(s, i + 1) \notin Escapes \cup {LetterU} ->
         [n |-> -2, at |-> i]
    [] OTHER -> parse_string(s, i + 1, n + 1)

(* The string is measured, its memory allocated, and then parsed into it. *)
ParseStr(s) ==
  LET room == string_length(s, 1, 0)
  IN [kind |-> "string", text |-> s, room |-> room,
      got |-> IF room.len < 0 THEN [n |-> -2, at |-> 0] ELSE parse_string(s, 1, 0)]

-----------------------------------------------------------------------------
(* __evaluate_json_number.  A decimal is mant * 10^exp; the sign, which only
   negates the result, is left out.                                        *)
FromDigits(digits) == FoldLeft(LAMBDA m, d : m * 10 + d, 0, digits)
Least(a, b) == IF a < b THEN a ELSE b
Zeros(digits) == IF \A k \in DOMAIN digits : digits[k] = 0 THEN Len(digits)
                 ELSE Min({k \in DOMAIN digits : digits[k] # 0}) - 1
Skip(digits, k) == SubSeq(digits, k + 1, Len(digits))

FromInteger(int, frac, exp) ==
  IF int[1] # 0
  THEN LET k == Least(Len(int), Figures)
       IN [mant |-> FromDigits(SubSeq(int, 1, k)), figures |-> k, exp |-> exp + Len(int) - k,
           frac |-> frac]
  ELSE [mant |-> 0, figures |-> 0, exp |-> exp - Zeros(frac), frac |-> Skip(frac, Zeros(frac))]

FromFraction(d) ==
  LET k == Least(Len(d.frac), Figures - d.figures)
  IN [mant |-> d.mant * 10^k + FromDigits(SubSeq(d.frac, 1, k)), figures |-> d.figures + k,
      exp |-> d.exp - k]

RECURSIVE Shrunk(_)
Shrunk(d) == IF d.exp < 0 /\ d.mant % 10 = 0
             THEN Shrunk([mant |-> d.mant \div 10, figures |-> d.figures - 1, exp |-> d.exp + 1])
             ELSE d
Normal(d) ==
  IF d.figures = 0 THEN d
  ELSE LET k == IF d.exp > 0 THEN Least(d.exp, Figures - d.figures) ELSE 0
       IN Shrunk([mant |-> d.mant * 10^k, figures |-> d.figures + k, exp |-> d.exp - k])

LastFactor == Powers - Figures + 1            \* 291

(* What becomes of the mantissa, and the entries of __power_of_10 it takes. *)
Result(d) ==
  CASE d.exp = 0 \/ d.figures = 0 -> [op |-> "none", powers |-> {}]
    [] d.figures # 0 /\ d.exp > LastFactor -> [op |-> "infinity", powers |-> {}]
    [] d.figures # 0 /\ d.exp \in 1..LastFactor -> [op |-> "times", powers |-> {d.exp}]
    [] d.figures # 0 /\ d.exp < 0 /\ d.exp > -(Powers + 1) ->
         [op |-> "over", powers |-> {-d.exp}]
    [] d.figures # 0 /\ d.exp <= -(Powers + 1) /\ d.exp > -(Powers + Subnormal) - d.figures ->
         [op |-> "over", powers |-> {-d.exp - Powers, Powers}]
    [] OTHER -> [op |-> "zero", powers |-> {}]

Evaluated(int, frac, exp) == Normal(FromFraction(FromInteger(int, frac, exp)))
ParseNumber(int, frac, exp) ==
  [kind |-> "number", int |-> int, frac |-> frac, exp |-> exp,
   got |-> Evaluated(int, frac, exp), result |-> Result(Evaluated(int, frac, exp))]

-----------------------------------------------------------------------------
(* Values.  The tokens are brackets, comma, colon, "s" and "r" for strings, "x"
   for a string with a bad escape, "n" for a number or a literal, and "_" for
   white space.  A call gets the number of mallocs that will succeed and
   returns ret, the position, the mallocs left, the blocks it has allocated
   and not freed, and the value.                                           *)
Answer(ret, i, m, blocks, val) == [ret |-> ret, i |-> i, m |-> m, blocks |-> blocks, val |-> val]
Failed(ret, m, blocks) == Answer(ret, 0, m, blocks, <<>>)

RECURSIVE Blank(_, _)
Blank(t, i) == IF i <= Len(t) /\ t[i] = "_" THEN Blank(t, i + 1) ELSE i
Tok(t, i) == IF i <= Len(t) THEN t[i] ELSE "NUL"

(* The blocks that __destroy_json_value frees: of a string, and of each member
   or element with its value.                                              *)
RECURSIVE Weight(_)
WeightOfAll(items) == FoldLeft(LAMBDA n, x : n + 1 + Weight(x[2]), 0, items)
Weight(val) == CASE val[1] = "string" -> 1
                 [] val[1] \in {"object", "array"} -> WeightOfAll(val[2])
                 [] OTHER -> 0

(* The text of a value. *)
RECURSIVE Render(_)
RenderAll(items, close) == FlattenSeq([k \in 1..Len(items) |->
  (IF k > 1 THEN <<",">> ELSE <<>>) \o (IF close = "}" THEN <<items[k][1], ":">> ELSE <<>>)
  \o Render(items[k][2])])
Render(val) == CASE val[1] = "object" -> <<"{">> \o RenderAll(val[2], "}") \o <<"}">>
                 [] val[1] = "array" -> <<"[">> \o RenderAll(val[2], "]") \o <<"]">>
                 [] OTHER -> <<val[2]>>

RECURSIVE parse_value(_, _, _, _), parse_items(_, _, _, _, _, _)

(* __parse_json_object and __parse_json_array: what was linked before an error
   is destroyed.                                                           *)
LeftLinked(items) == 0                        \* mutant: not destroyed
Destroyed(items) == WeightOfAll(items)
Closed(r, close) == IF r.ret < 0 THEN [r EXCEPT !.blocks = @ - Destroyed(r.val)]
                    ELSE [r EXCEPT !.val = <<IF close = "}" THEN "object" ELSE "array", @>>]
parse_container(t, i, depth, m, close) ==
  IF depth = JSON_DEPTH_LIMIT THEN Failed(-3, m, 0)
  ELSE Closed(IF Tok(t, i) = close THEN Answer(0, i + 1, m, 0, <<>>)
              ELSE parse_items(t, i, depth + 1, m, close, <<>>), close)

(* The position behind the name of a member and its colon, or 0. *)
PastColon(t, c) == IF Tok(t, c) = ":" THEN Blank(t, c + 1) ELSE 0
NameEnd(t, i) == IF Tok(t, i) = "x" THEN 0 ELSE PastColon(t, Blank(t, i + 1))

(* After a member or element, whose block is counted here: the next one, the
   end, or an error.                                                       *)
AfterItem(t, i, depth, m, close, items, blocks) ==
  CASE Tok(t, i) = "," -> parse_items(t, Blank(t, i + 1), depth, m, close, items)
    [] Tok(t, i) = close -> Answer(0, i + 1, m, blocks, items)
    [] OTHER -> Answer(-2, 0, m, blocks, items)
Linked(t, depth, close, items, name, r) ==
  IF r.ret < 0 THEN Answer(r.ret, 0, r.m, WeightOfAll(items) + r.blocks, items)
  ELSE AfterItem(t, Blank(t, r.i), depth, r.m, close, Append(items, <<name, r.val>>),
                 WeightOfAll(items) + 1 + r.blocks)

(* One member or element after the other; items are those already linked, and
   the blocks of a failure include theirs.  The malloc of the entry comes after
   the name was measured and before it is parsed.                          *)
Quits(ret, m, items) == Answer(ret, 0, m, WeightOfAll(items), items)
parse_item(t, i, at, depth, m, close, items) ==
  IF m = 0 THEN Quits(-1, 0, items)
  ELSE IF at = 0 THEN Quits(-2, m - 1, items)
  ELSE Linked(t, depth, close, items, IF close = "}" THEN t[i] ELSE "",
              parse_value(t, at, depth, m - 1))
parse_items(t, i, depth, m, close, items) ==
  IF close = "}" /\ Tok(t, i) \notin {"s", "r", "x"} THEN Quits(-2, m, items)
  ELSE parse_item(t, i, IF close = "}" THEN NameEnd(t, i) ELSE i, depth, m, close, items)

parse_token(t, i, tok, depth, m) ==
  CASE tok \in {"s", "r", "x"} /\ m = 0 -> Failed(-1, 0, 0)
    [] tok \in {"s", "r"} /\ m > 0 -> Answer(0, i + 1, m - 1, 1, <<"string", tok>>)
    [] tok = "x" /\ m > 0 -> Failed(-2, m - 1, 0)
    [] tok = "n" -> Answer(0, i + 1, m, 0, <<"number", tok>>)
    [] tok \in {"{", "["} -> parse_container(t, Blank(t, i + 1), depth, m,
                                            IF tok = "{" THEN "}" ELSE "]")
    [] OTHER -> Failed(-2, m, 0)
parse_value(t, i, depth, m) == parse_token(t, i, Tok(t, i), depth, m)

(* json_value_parse: the value itself is the first block; doc is the value that
   the text was written from, if any.                                      *)
Parsed(t, m, doc, r, whole) ==
  [kind |-> "value", text |-> t, mallocs |-> m, doc |-> doc, ok |-> r.ret = 0 /\ whole,
   val |-> r.val,
   blocks |-> IF r.ret < 0 THEN r.blocks
              ELSE IF whole THEN r.blocks + 1 ELSE r.blocks - Weight(r.val)]
Checked(t, m, doc, r) == Parsed(t, m, doc, r, Blank(t, r.i) = Len(t) + 1)
ParseValue(t, m, doc) ==
  Checked(t, m, doc, IF m = 0 THEN Failed(-1, 0, 0) ELSE parse_value(t, Blank(t, 1), 0, m - 1))

-----------------------------------------------------------------------------
(* Arbitrary texts, and those of documents. *)
Texts == {<<t, <<>>>> : t \in ValueTexts} \cup {<<Render(v), v>> : v \in Documents}

JsonInit == json = [kind |-> "none"]

JsonNext ==
  /\ json.kind = "none"
  /\ \/ \E s \in StringTexts : json' = ParseStr(s)
     \/ \E int \in Integrals, frac \in Fractions, exp \in Exponents :
          json' = ParseNumber(int, frac, exp)
     \/ \E m \in Mallocs, x \in Texts : json' = ParseValue(x[1], m, x[2])

JsonSpec == JsonInit /\ [][JsonNext]_json
-----------------------------------------------------------------------------
(* The string never outgrows the memory that was measured for it, and ends at
   the quote where the measuring ended.                                    *)
StringFits == json.kind = "string" /\ json.got.n >= 0 =>
  json.got.n <= json.room.len /\ json.got.at = json.room.at

(* A reference: all significant digits, of which Figures count. *)
Significant(x) == Skip(x.int \o x.frac, Zeros(x.int \o x.frac))
SameValue(m, e, n, f) == \/ m = 0 /\ n = 0
                         \/ e >= f /\ m * 10^(e - f) = n
                         \/ e < f /\ m = n * 10^(f - e)

(* A number is its first Figures significant digits times a power of ten.  The
   table is never left, infinity stands for what exceeds it, zero for what is
   below the smallest double.                                              *)
NumberExact == json.kind = "number" =>
  LET sig == Significant(json)
      n == Least(Len(sig), Figures)
      scale == json.exp - Len(json.frac) + Len(sig) - n
  IN /\ SameValue(json.got.mant, json.got.exp, FromDigits(SubSeq(sig, 1, n)), scale)
     /\ json.result.powers \subseteq 0..Powers
     /\ json.result.op = "infinity" => scale + n > Powers + 1
     /\ json.result.op = "zero" => scale + n <= -(Powers + Subnormal)

RECURSIVE Depth(_)
Depth(val) == IF val[1] \in {"object", "array"}
              THEN 1 + Max({0} \cup {Depth(val[2][k][2]) : k \in DOMAIN val[2]}) ELSE 0
EnoughFor(val) == json.mallocs > Weight(val) /\ Depth(val) <= JSON_DEPTH_LIMIT

(* A text is accepted only as the value that it is the text of, and the text of
   a value is accepted unless memory or depth run out.  Whatever goes wrong, a
   syntax error at any place, the depth or any malloc, all that was allocated
   is freed; a value that is returned owns all of it.                      *)
ValueParsed == json.kind = "value" =>
  /\ IF json.ok THEN /\ Render(json.val) = SelectSeq(json.text, LAMBDA x : x # "_")
                     /\ json.blocks = 1 + Weight(json.val)
                ELSE json.blocks = 0
  /\ json.doc # <<>> => json.ok = EnoughFor(json.doc)

(* What the JSON parser returns for a string, a number or a value. *)
JsonTextInv == StringFits /\ NumberExact /\ ValueParsed
=============================================================================
