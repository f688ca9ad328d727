----------------------------- MODULE HttpParser -----------------------------
(***************************************************************************)
(* The incremental HTTP parser of src/protocol/http_parser.c (line numbers *)
(* refer to it).  Bytes are symbols: "CR", "LF", "SP", ":", "NUL" (a byte  *)
(* that is not allowed in a header), digits, and words, each of which      *)
(* stands for a run of ordinary bytes.  Comparisons without regard to case *)
(* are equality, and a blank is a blank, be it a space or a tab.  The      *)
(* limits count symbols.  Allocation never fails.                          *)
(***************************************************************************)
EXTENDS Integers, Sequences, SequencesExt

CONSTANTS START_LINE_MAX, HEADER_NAME_MAX, HEADER_VALUE_MAX,
          CHUNK_LINE_MAX, TRAILER_LINE_MAX, CHUNK_SIZE_MAX

Unknown == -1                             \* (size_t)-1

DigitValue == [d \in {"0", "1", "2", "3", "4", "5", "6", "7", "8", "9"} |->
                 CASE d = "0" -> 0 [] d = "1" -> 1 [] d = "2" -> 2 [] d = "3" -> 3
                   [] d = "4" -> 4 [] d = "5" -> 5 [] d = "6" -> 6 [] d = "7" -> 7
                   [] d = "8" -> 8 [] d = "9" -> 9]
IsDigit(x) == x \in DOMAIN DigitValue

(* The first n symbols, what follows them, and the first symbol of a set. *)
Upto(t, n) == SubSeq(t, 1, IF n < Len(t) THEN n ELSE Len(t))
After(t, n) == SubSeq(t, n + 1, Len(t))
FirstOf(t, S) == SelectInSeq(t, LAMBDA x : x \in S)
FirstNot(t, S) == SelectInSeq(t, LAMBDA x : x \notin S)
Digits(t) == LET k == FirstNot(t, DOMAIN DigitValue) IN IF k = 0 THEN t ELSE Upto(t, k - 1)
Number(t, base) == FoldLeft(LAMBDA v, d : v * base + DigitValue[d], 0, Digits(t))
LTrim(t) == LET k == FirstNot(t, {"SP"}) IN IF k = 0 THEN <<>> ELSE After(t, k - 1)
RTrim(t) == Reverse(LTrim(Reverse(t)))

(* http_parser_init, lines 546-569 *)
NewParser(is_resp) ==
  [header_state |-> "START_LINE", header_offset |-> 0,
   transfer_length |-> Unknown, content_length |-> IF is_resp THEN Unknown ELSE 0,
   chunk_state |-> "CHUNK_DATA", chunk_offset |-> 0,
   start |-> <<<<>>, <<>>, <<>>>>, header_list |-> <<>>, namebuf |-> <<>>, msgbuf |-> <<>>,
   has_connection |-> FALSE, has_content_length |-> FALSE, has_keep_alive |-> FALSE,
   expect_continue |-> FALSE, keep_alive |-> TRUE, chunked |-> FALSE,
   complete |-> FALSE, is_resp |-> is_resp]

(* The outcome of a step of the parser: it goes on (1), wants more (0), or
   the message is malformed (-2).                                          *)
Goes(p) == [ret |-> 1, p |-> p]
More(p) == [ret |-> 0, p |-> p]
Bad(p) == [ret |-> -2, p |-> p]
Gives(k, p) == IF k = 0 THEN More(p) ELSE Bad(p)

StartsEmpty(t) == Len(t) >= 2 /\ t[1] = "CR" /\ t[2] = "LF"

(* The index of the CR that ends the line, 0 if it has not come yet, -2 if
   the line is too long or malformed: the loops of lines 259-298, 451-484
   and 498-514.                                                            *)
LineEnd(t, max, stop) ==
  LET k == FirstOf(Upto(t, max), {"CR"} \cup stop)
  IN CASE k = 0 -> IF Len(t) < max THEN 0 ELSE -2
       [] k > 0 /\ t[k] # "CR" -> -2
       [] k > 0 /\ t[k] = "CR" /\ k = Len(t) -> 0
       [] k > 0 /\ t[k] = "CR" /\ k < Len(t) -> IF t[k + 1] = "LF" THEN k ELSE -2

(* Lines 187-242.  Later headers override earlier ones. *)
check_message_header(p, name, value) ==
  CASE name = <<"Expect">> ->
         [p EXCEPT !.expect_continue = @ \/ value = <<"100-continue">>]
    [] name = <<"Connection">> ->
         [p EXCEPT !.has_connection = TRUE,
                   !.keep_alive = IF value = <<"Keep-Alive">> THEN TRUE
                                  ELSE IF value = <<"close">> THEN FALSE ELSE @]
    [] name = <<"Keep-Alive">> -> [p EXCEPT !.has_keep_alive = TRUE]
    [] name = <<"Content-Length">> ->
         [p EXCEPT !.has_content_length = TRUE,
                   !.content_length = IF /\ value # <<>> /\ Len(value) <= 15
                                         /\ IsDigit(value[1])
                                      THEN Number(value, 10) ELSE @]
    [] name = <<"Transfer-Encoding">> -> [p EXCEPT !.chunked = value # <<"identity">>]
    [] OTHER -> p

(* A header is added at the end of the list, or takes the place of the first
   one of its name.  Either way its value is looked at.                    *)
add_message_header(p, name, value) ==
  [p EXCEPT !.header_list = Append(@, <<name, value>>)]

(* The first header of a name: 0 if there is none. *)
find(p, name) == SelectInSeq(p.header_list, LAMBDA h : h[1] = name)

set_message_header(p, name, value) ==
  LET k == find(p, name)
  IN IF k = 0 THEN add_message_header(p, name, value)
     ELSE [p EXCEPT !.header_list[k] = <<name, value>>]

add_header(p, name, value) ==
  check_message_header(add_message_header(p, name, value), name, value)
set_header(p, name, value) ==
  check_message_header(set_message_header(p, name, value), name, value)

OldVersion(v) == v = <<"HTTP/1.0">> \/ (v # <<>> /\ v[1] = "HTTP/0")
NoBody(code) == (code # <<>> /\ code[1] \in {"100", "101"})
                \/ code = <<"204">> \/ code = <<"304">>

(* __match_request_line and __match_status_line *)
match_line(p, a, b, c) ==
  [p EXCEPT !.start = <<a, b, c>>,
            !.keep_alive = @ /\ ~OldVersion(IF p.is_resp THEN a ELSE c),
            !.transfer_length = IF p.is_resp /\ NoBody(b) THEN 0 ELSE @]

parse_start_line(p, t) ==
  LET k == LineEnd(t, START_LINE_MAX, {"NUL"})
      line == Upto(t, k - 1)
      i == FirstOf(line, {"SP"})
      j == FirstOf(After(line, i), {"SP"})
  IN CASE StartsEmpty(t) -> Goes([p EXCEPT !.header_offset = @ + 2])
       [] ~StartsEmpty(t) /\ k <= 0 -> Gives(k, p)
       [] ~StartsEmpty(t) /\ k > 0 /\ (i = 0 \/ j = 0) -> Bad(p)
       [] OTHER -> Goes([match_line(p, Upto(line, i - 1), Upto(After(line, i), j - 1),
                                    After(line, i + j))
                           EXCEPT !.header_offset = @ + k + 1,
                                  !.header_state = "HEADER_NAME"])

parse_header_name(p, t) ==
  LET k == FirstOf(Upto(t, HEADER_NAME_MAX), {":", "NUL"})
  IN CASE StartsEmpty(t) -> Goes([p EXCEPT !.header_offset = @ + 2,
                                           !.header_state = "HEADER_COMPLETE"])
       [] ~StartsEmpty(t) /\ k = 0 -> IF Len(t) < HEADER_NAME_MAX THEN More(p) ELSE Bad(p)
       [] ~StartsEmpty(t) /\ k > 0 ->
            IF t[k] = "NUL" THEN Bad(p)
            ELSE Goes([p EXCEPT !.namebuf = Upto(t, k - 1), !.header_offset = @ + k,
                                !.header_state = "HEADER_VALUE"])

(* The value may go on in the next line if that begins with a blank, so the
   byte after the line must be there.  v is the value so far and i the number
   of symbols that have been read.                                         *)
RECURSIVE parse_value_from(_, _, _, _)
parse_value_from(p, t, i, v) ==
  LET u == LTrim(After(t, i))                       \* from the first non-blank
      b == Len(t) - Len(u)
      k == FirstOf(u, {"CR", "NUL"})
      room == HEADER_VALUE_MAX - Len(v)
      w == RTrim(v \o Upto(u, k - 1))
  IN CASE u = <<>> -> More(p)
       [] u # <<>> /\ (k = 0 \/ k > room) ->
            IF Len(u) > room THEN Bad(p) ELSE More(p)
       [] u # <<>> /\ k > 0 /\ k <= room /\ k = Len(u) -> More(p)
       [] u # <<>> /\ k > 0 /\ k <= room /\ k < Len(u) ->
            IF u[k] = "NUL" \/ u[k + 1] # "LF" THEN Bad(p)
            ELSE IF k + 1 = Len(u) THEN More(p)
            ELSE IF u[k + 2] = "SP" THEN parse_value_from(p, t, b + k + 2, Append(w, "SP"))
            ELSE Goes([add_header(p, p.namebuf, w) EXCEPT
                         !.header_offset = @ + b + k + 1, !.header_state = "HEADER_NAME"])

parse_header_value(p, t) == parse_value_from(p, t, 0, <<>>)

(* Lines 414-438: resumes where header_offset stands. *)
HeaderStep(p, t) ==
  CASE p.header_state = "START_LINE" -> parse_start_line(p, t)
    [] p.header_state = "HEADER_VALUE" -> parse_header_value(p, t)
    [] p.header_state = "HEADER_NAME" -> parse_header_name(p, t)

RECURSIVE HeaderGoesOn(_)
HeaderGoesOn(r) ==
  IF r.ret > 0 /\ r.p.header_state # "HEADER_COMPLETE"
  THEN HeaderGoesOn(HeaderStep(r.p, After(r.p.msgbuf, r.p.header_offset)))
  ELSE r
parse_message_header(p) == HeaderGoesOn(Goes(p))

(* A chunk is taken when all of it is there; the two bytes after its data are
   skipped, whatever they are.                                             *)
parse_chunk_data(p, t) ==
  LET k == LineEnd(t, CHUNK_LINE_MAX, {})
      line == LTrim(Upto(t, k - 1))
      size == Number(line, 16)
  IN CASE k <= 0 -> Gives(k, p)
       [] k > 0 /\ Digits(line) = <<>> -> Bad(p)
       [] k > 0 /\ Digits(line) # <<>> /\ size = 0 ->
            Goes([p EXCEPT !.chunk_offset = @ + k + 1, !.chunk_state = "TRAILER_PART"])
       [] k > 0 /\ Digits(line) # <<>> /\ size > 0 ->
            IF size >= CHUNK_SIZE_MAX THEN Bad(p)
            ELSE IF Len(t) < size + k + 3 THEN More(p)
            ELSE Goes([p EXCEPT !.chunk_offset = @ + size + k + 3])

parse_trailer_part(p, t) ==
  LET k == LineEnd(t, TRAILER_LINE_MAX, {})
  IN IF k <= 0 THEN Gives(k, p)
     ELSE Goes([p EXCEPT !.chunk_offset = @ + k + 1,
                         !.chunk_state = IF k = 1 THEN "CHUNK_COMPLETE" ELSE @])

ChunkStep(p, t) == IF p.chunk_state = "CHUNK_DATA" THEN parse_chunk_data(p, t)
                   ELSE parse_trailer_part(p, t)

RECURSIVE ChunksGoOn(_)
ChunksGoOn(r) ==
  IF r.ret > 0 /\ r.p.chunk_state # "CHUNK_COMPLETE"
  THEN ChunksGoOn(ChunkStep(r.p, After(r.p.msgbuf, r.p.chunk_offset)))
  ELSE r
parse_chunk(p) == ChunksGoOn(Goes(p))

(* The header has just been completed: how the end of the body is told. *)
BodyBegins(p) ==
  IF p.chunked THEN [p EXCEPT !.chunk_offset = p.header_offset,
                              !.chunk_state = "CHUNK_DATA"]
  ELSE IF p.transfer_length = Unknown THEN [p EXCEPT !.transfer_length = p.content_length]
  ELSE p

KeepsAll(p, total, n) ==                   \* mutant: swallows the next message
  [ret |-> 1, n |-> n, p |-> [p EXCEPT !.msgbuf = Upto(@, total), !.complete = TRUE]]

(* The message ends at total: what was appended beyond it is given back. *)
Ends(p, total, n) ==
  [ret |-> 1, n |-> n - (Len(p.msgbuf) - total),
   p |-> [p EXCEPT !.msgbuf = Upto(@, total), !.complete = TRUE]]

(* http_parser_append_message, lines 571-644: the header h, then the body; n
   is the number of symbols of buf that belong to the message.             *)
Outcome(r, n) == [ret |-> r.ret, n |-> n, p |-> r.p]
HeaderDone(r) == IF r.ret > 0 THEN Goes(BodyBegins(r.p)) ELSE r
append_header(p) == IF p.header_state = "HEADER_COMPLETE" THEN Goes(p)
                    ELSE HeaderDone(parse_message_header(p))

append_sized(p, total, n) ==
  IF Len(p.msgbuf) >= total THEN Ends(p, total, n) ELSE Outcome(More(p), n)
append_chunked(c, n) ==
  IF c.ret > 0 THEN Ends(c.p, c.p.chunk_offset, n) ELSE Outcome(c, n)

append_body(h, n) ==
  IF h.ret <= 0 THEN Outcome(h, n)
  ELSE IF h.p.transfer_length # Unknown
       THEN append_sized(h.p, h.p.header_offset + h.p.transfer_length, n)
  ELSE IF h.p.chunked THEN append_chunked(parse_chunk(h.p), n)
  ELSE Outcome(More(h.p), n)

append_message(p, buf) ==
  IF p.complete THEN Outcome(Goes(p), 0)
  ELSE append_body(append_header([p EXCEPT !.msgbuf = @ \o buf]), Len(buf))

(* http_parser_get_body, lines 651-663, of a complete message. *)
get_body(p) == After(p.msgbuf, p.header_offset)

(* HttpUtil::decode_chunked_body: HttpChunkCursor::next reads the chunks of the
   body once more.                                                         *)
RECURSIVE Chunks(_)
Chunks(t) ==
  LET size == Number(LTrim(t), 16)
      k == FirstOf(t, {"CR"})
  IN IF size = 0 THEN <<>>
     ELSE SubSeq(t, k + 2, k + 1 + size) \o Chunks(After(t, k + size + 3))

decode_chunked_body(p) == IF p.chunked THEN Chunks(get_body(p)) ELSE get_body(p)
=============================================================================
