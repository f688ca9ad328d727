------------------------------- MODULE MCJson -------------------------------
(***************************************************************************)
(* Inputs for JsonText.  Strings are put together of two pieces, an escape *)
(* or a fragment of one each.  Numbers have up to four digits before the   *)
(* point and three after it, with a table that ends at 10^5.  Values are   *)
(* documents nested one level deeper than the limit, documents with one    *)
(* token replaced, and all texts of up to three tokens.                    *)
(***************************************************************************)
EXTENDS JsonText

Hex(digits) == <<Backslash, LetterU>> \o digits
Pieces == {<<97>>, <<10>>, <<Backslash>>, <<Backslash, Quote>>, <<Backslash, 110>>,
           <<Backslash, 120>>, Hex(<<49>>),
           Hex(<<48, 48, 52, 49>>), Hex(<<48, 55, 102, 102>>), Hex(<<102, 70, 102, 102>>),
           Hex(<<100, 56, 48, 48>>), Hex(<<100, 99, 48, 48>>)}
MCStringTexts == {x \o y \o z : x \in Pieces, y \in Pieces, z \in {<<>>, <<Quote>>, <<Quote, 97>>}}

UpTo(n, S) == UNION {[1..k -> S] : k \in 0..n}
MCIntegrals == {<<0>>} \cup {<<5>> \o d : d \in UpTo(3, {0, 5})}
MCFractions == UpTo(3, {0, 5})
MCExponents == -12..9

Containers(V) ==
  {<<"array", x>> : x \in {<<>>} \cup {<<<<"", v>>>> : v \in V}
                          \cup {<<<<"", v>>, <<"", w>>>> : v \in V, w \in V}}
  \cup {<<"object", x>> : x \in {<<>>} \cup {<<<<"s", v>>>> : v \in V}
                                \cup {<<<<"s", v>>, <<"r", w>>>> : v \in V, w \in V}}
Str == <<"string", "s">>
One == <<"array", <<<<"", <<"number", "n">>>>>>>>
MCDocuments == Containers({Str} \cup Containers({Str, One}))

Tokens == {"{", "}", "[", "]", ",", ":", "s", "x", "n", "_"}
Broken == {[b EXCEPT ![k] = x] :
             b \in {t \in {Render(d) : d \in MCDocuments} : Len(t) \in 5..8},
             k \in 1..5, x \in Tokens}
MCValueTexts == UpTo(3, Tokens) \cup Broken
=============================================================================
