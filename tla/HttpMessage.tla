----------------------------- MODULE HttpMessage ----------------------------
(***************************************************************************)
(* One HTTP message on its way: a server task completes and encodes the    *)
(* response that the application has put together (HttpTaskImpl.cc,        *)
(* HttpMessage.cc), or a stream comes from some other peer; the bytes      *)
(* arrive in pieces of any size; and HttpRequest::append or                *)
(* HttpResponse::append reads them.  Line numbers refer to HttpMessage.cc. *)
(***************************************************************************)
EXTENDS HttpParser

CONSTANTS Streams,        \* of other peers: [is_resp, bytes, limit]
          Requests,       \* of the server: [parser, seq]; the value of a
                          \*   Keep-Alive header is a sequence of <<key, number>>
          AppHeaders,     \* <<name, value>> that the application may add or set
          AppBlocks,      \* blocks of output that it may append
          AppChunked,     \* the chunked bodies among them: [coded, data]
          AppVersions, AppCodes,
          MaxHttpOps,         \* how many of these calls it makes
          MaxVectors,     \* ENCODE_IOV_MAX of Communicator.cc
          DefaultTimeo, KEEPALIVE_MAX

VARIABLES phase,          \* "handle", "build", "encode", "receive", "over"
          request,        \* the request, later what is kept of it
          keep_alive_timeo, ops,
          resp,           \* the output: [parser, output_body, output_body_size]
          content,        \* history: the bytes that the application has appended,
          own,            \*   and whether it set its own Connection header
          wire, pos,      \* the bytes sent; how many of them were appended
          msg,            \* the input: [parser, cur_size, size_limit]
          base,           \* where the message being read begins
          verdict,        \* "more", "done", "bad", "large", "unsent"
          feedback        \* the interim or error reply to a request

server == <<request, keep_alive_timeo, ops, resp, content, own>>
http_vars == <<phase, request, keep_alive_timeo, ops, resp, content, own, wire, pos, msg,
          base, verdict, feedback>>

Unlimited == 1000
CRLF == <<"CR", "LF">>

NewMessage(is_resp, limit) ==
  [parser |-> NewParser(is_resp), cur_size |-> 0, size_limit |-> limit]
NewOutput == [parser |-> NewParser(TRUE), output_body |-> <<>>, output_body_size |-> 0]

HttpInit ==
  /\ keep_alive_timeo = DefaultTimeo /\ ops = 0
  /\ resp = NewOutput /\ content = <<>> /\ own = FALSE
  /\ pos = 0 /\ base = 0 /\ verdict = "more" /\ feedback = <<>>
  /\ \/ /\ phase = "handle" /\ request \in Requests
        /\ wire = <<>> /\ msg = NewMessage(TRUE, Unlimited)
     \/ \E s \in Streams :
          /\ phase = "receive" /\ request = <<>>
          /\ wire = s.bytes /\ msg = NewMessage(s.is_resp, s.limit)

-----------------------------------------------------------------------------
(* WFHttpServerTask::handle keeps what it needs of the request. *)
handle ==
  /\ phase = "handle" /\ phase' = "build"
  /\ LET p == request.parser
         k == find(p, <<"Keep-Alive">>)
     IN request' = [alive |-> p.keep_alive, seq |-> request.seq,
                    params |-> IF p.keep_alive /\ p.has_keep_alive
                               THEN p.header_list[k][2] ELSE <<>>]
  /\ UNCHANGED <<keep_alive_timeo, ops, resp, content, own, wire, pos, msg, base,
                 verdict, feedback>>

(* The application puts the response together. *)
Build ==
  /\ phase = "build" /\ ops < MaxHttpOps
  /\ ops' = ops + 1
  /\ UNCHANGED <<phase, request, keep_alive_timeo, own, wire, pos, msg, base, verdict,
                 feedback>>

AddHeader(h) ==
  /\ Build
  /\ resp' = [resp EXCEPT !.parser = add_header(@, h[1], h[2])]
  /\ UNCHANGED content

SetHeader(h) ==
  /\ Build
  /\ resp' = [resp EXCEPT !.parser = set_header(@, h[1], h[2])]
  /\ UNCHANGED content

(* set_http_version and set_status_code; message_out fills in what is unset. *)
SetStart(i, word) ==
  /\ Build
  /\ resp' = [resp EXCEPT !.parser.start[i] = word]
  /\ UNCHANGED content

append_output_body(b) ==
  /\ Build
  /\ resp' = [resp EXCEPT !.output_body = Append(@, b), !.output_body_size = @ + Len(b)]
  /\ content' = content \o b

clear_output_body ==
  /\ Build
  /\ resp' = [resp EXCEPT !.output_body = <<>>, !.output_body_size = 0]
  /\ content' = <<>>

-----------------------------------------------------------------------------
(* WFHttpServerTask::message_out *)
Or(word, default) == IF word = <<>> THEN default ELSE word
set_response_status(p, code) ==            \* every code has a phrase
  [p EXCEPT !.start[2] = code, !.start[3] = <<"phrase">>]
WithStatus(p0) ==
  LET p == [p0 EXCEPT !.start[1] = Or(@, <<"HTTP/1.1">>)]
  IN IF p.start[2] # <<>> /\ p.start[3] # <<>> THEN p
     ELSE set_response_status(p, Or(p.start[2], <<"200">>))

Decimal[n \in Nat] ==
  IF n < 10 THEN <<CHOOSE d \in DOMAIN DigitValue : DigitValue[d] = n>>
  ELSE Decimal[n \div 10] \o Decimal[n % 10]

WithLength(p, size) ==
  IF p.chunked \/ p.has_content_length THEN p
  ELSE add_header(p, <<"Content-Length">>, Decimal[size])

(* The request may ask for a timeout and for a limit on the number of requests
   of the connection; the first value of each counts.                      *)
Param(key) == SelectInSeq(request.params, LAMBDA x : x[1] = key)
LimitReached == Param("max") > 0 /\ request.seq >= request.params[Param("max")][2]
Asked ==
  IF LimitReached THEN 0
  ELSE IF Param("timeout") > 0 THEN 1000 * request.params[Param("timeout")][2]
  ELSE DefaultTimeo
Clamped(t) == IF t < 0 \/ t > KEEPALIVE_MAX THEN KEEPALIVE_MAX ELSE t
AsRequested(p) == request.alive     \* mutant: overlooks the response's own header
IsAlive(p) == IF p.has_connection THEN p.keep_alive ELSE request.alive
Timeo(p) == IF IsAlive(p) THEN Clamped(Asked) ELSE 0

WithConnection(p, timeo) ==
  IF p.has_connection THEN p
  ELSE add_header(p, <<"Connection">>, IF timeo = 0 THEN <<"close">> ELSE <<"Keep-Alive">>)

message_out ==
  /\ phase = "build"
  /\ LET p == WithLength(WithStatus(resp.parser), resp.output_body_size)
     IN /\ keep_alive_timeo' = Timeo(p)
        /\ resp' = [resp EXCEPT !.parser = WithConnection(p, Timeo(p))]
  /\ own' = resp.parser.has_connection
  /\ phase' = "encode"
  /\ UNCHANGED <<request, ops, content, wire, pos, msg, base, verdict, feedback>>

-----------------------------------------------------------------------------
(* HttpMessage::encode, lines 150-237: a vector for each of the six parts of
   the start line, for each header, for the empty line and for each block of
   the body; the last vector takes all blocks that are left.               *)
Sum(blocks) == FoldLeft(LAMBDA n, b : n + Len(b), 0, blocks)

(* A block of size bytes into which the others are copied (combine_from). *)
Combined(blocks, size) ==
  LET all == FlattenSeq(blocks)
  IN [i \in 1..size |-> IF i <= Len(all) THEN all[i] ELSE "NUL"]

WholeSize(blocks, total, k) == total        \* mutant: size is not counted down
SizeLeft(blocks, total, k) == total - Sum(Upto(blocks, k))

BodyVectors(blocks, total, room) ==
  IF Len(blocks) <= room THEN blocks
  ELSE LET k == room - 1
       IN Append(Upto(blocks, k), Combined(After(blocks, k), SizeLeft(blocks, total, k)))

HeaderLine(h) == h[1] \o <<":", "SP">> \o h[2] \o CRLF
HeaderLines(l) == FlattenSeq([i \in DOMAIN l |-> HeaderLine(l[i])])
StartLine(s) == s[1] \o <<"SP">> \o s[2] \o <<"SP">> \o s[3] \o CRLF

TooMany(headers) == 6 + Len(headers) + 1 >= MaxVectors
encode ==
  /\ phase = "encode"
  /\ LET headers == resp.parser.header_list
         blocks == BodyVectors(resp.output_body, resp.output_body_size,
                               MaxVectors - 7 - Len(headers))
     IN IF TooMany(headers)
        THEN phase' = "over" /\ UNCHANGED <<resp, wire>>       \* EOVERFLOW
        ELSE /\ phase' = "receive"
             /\ resp' = [resp EXCEPT !.output_body = blocks]
             /\ wire' = StartLine(resp.parser.start) \o HeaderLines(headers) \o CRLF
                        \o FlattenSeq(blocks)
  /\ UNCHANGED <<request, keep_alive_timeo, ops, content, own, pos, msg, base,
                 verdict, feedback>>

-----------------------------------------------------------------------------
(* HttpMessage::append, lines 239-259 *)
Limited(m, r, size) ==
  [n |-> r.n,
   m |-> [m EXCEPT !.parser = r.p, !.cur_size = IF r.ret >= 0 THEN size ELSE @],
   verdict |-> CASE r.ret < 0 -> "bad"
                 [] r.ret >= 0 /\ size > m.size_limit -> "large"
                 [] r.ret = 0 /\ size <= m.size_limit -> "more"
                 [] r.ret > 0 /\ size <= m.size_limit -> "done"]
Counted(m, r) == Limited(m, r, m.cur_size + r.n)
append_limited(m, buf) == Counted(m, append_message(m.parser, buf))

Piece(k) == SubSeq(wire, pos + 1, pos + k)
Receive(k) ==
  /\ phase = "receive" /\ verdict = "more"
  /\ k \in 1..Len(wire) - pos

Continues(p) == p.expect_continue /\ p.header_state = "HEADER_COMPLETE"
Announced(m) == IF m.parser.transfer_length = Unknown THEN 0
                ELSE m.parser.header_offset + m.parser.transfer_length

(* HttpRequest::append with handle_expect_continue; sent says whether the
   interim reply could be written at once.                                 *)
RequestRead(r, sent) ==
  LET asks == r.verdict = "more" /\ Continues(r.m.parser)
      refuses == asks /\ Announced(r.m) > msg.size_limit
  IN /\ msg' = IF asks THEN [r.m EXCEPT !.parser.expect_continue = FALSE] ELSE r.m
     /\ pos' = pos + r.n
     /\ verdict' = IF refuses THEN "large"
                    ELSE IF asks /\ ~sent THEN "unsent" ELSE r.verdict
     /\ feedback' = feedback \o CASE refuses -> <<417>>
                                  [] asks /\ ~refuses -> <<100>>
                                  [] r.verdict = "bad" -> <<400>>
                                  [] r.verdict = "large" -> <<413>>
                                  [] OTHER -> <<>>

AppendRequest(k, sent) ==
  /\ Receive(k) /\ ~msg.parser.is_resp
  /\ RequestRead(append_limited(msg, Piece(k)), sent)
  /\ UNCHANGED <<phase, server, wire, base>>

(* HttpResponse::append: an interim response is dropped. *)
Interim(p) == p.start[2] = <<"100">>
ResponseRead(r) ==
  LET drop == r.verdict = "done" /\ Interim(r.m.parser)
  IN /\ msg' = IF drop THEN [r.m EXCEPT !.parser = NewParser(TRUE)] ELSE r.m
     /\ pos' = pos + r.n
     /\ base' = IF drop THEN pos + r.n ELSE base
     /\ verdict' = IF drop THEN "more" ELSE r.verdict

AppendResponse(k) ==
  /\ Receive(k) /\ msg.parser.is_resp
  /\ ResponseRead(append_limited(msg, Piece(k)))
  /\ UNCHANGED <<phase, server, wire, feedback>>

HttpNext ==
  \/ \E h \in AppHeaders : AddHeader(h) \/ SetHeader(h)
  \/ \E b \in AppBlocks : append_output_body(b)
  \/ \E v \in AppVersions : SetStart(1, v)
  \/ \E c \in AppCodes : SetStart(2, c)
  \/ handle \/ clear_output_body \/ message_out \/ encode
  \/ \E k \in 1..Len(wire) : \/ AppendResponse(k)
                             \/ \E sent \in BOOLEAN : AppendRequest(k, sent)

HttpSpec == HttpInit /\ [][HttpNext]_http_vars

-----------------------------------------------------------------------------
HttpTypeOK ==
  /\ phase \in {"handle", "build", "encode", "receive", "over"}
  /\ verdict \in {"more", "done", "bad", "large", "unsent"}
  /\ pos \in 0..Len(wire) /\ base \in 0..pos
  /\ keep_alive_timeo \in 0..KEEPALIVE_MAX
  /\ Range(feedback) \subseteq {100, 400, 413, 417}

Facts(p) == [p EXCEPT !.expect_continue = FALSE]
AtOnce(bytes) == append_message(NewParser(msg.parser.is_resp), bytes)

SameEnd(whole) ==
  /\ verdict = "done" => whole.n = pos - base /\ pos <= msg.size_limit
  /\ verdict = "bad" => whole.ret = -2
  /\ verdict = "large" => \/ pos > msg.size_limit
                          \/ whole.n > msg.size_limit \/ whole.ret <= 0

(* However the bytes of a message are cut into pieces, what the parser knows
   of it is what it would know had they come at once, it ends at the same
   byte, and it is found malformed or too large by the same bytes; a message
   that is accepted is within the limit.  Parsing resumes at header_offset and
   chunk_offset and decides at the end of each piece whether to wait.      *)
ResumedAsAtOnce ==
  /\ verdict \in {"more", "done"} =>
       Facts(AtOnce(SubSeq(wire, base + 1, pos)).p) = Facts(msg.parser)
  /\ SameEnd(AtOnce(After(wire, base)))

(* The state of a message is consistent at every moment. *)
MessageInv == HttpTypeOK /\ ResumedAsAtOnce

CodedRight == /\ resp.parser.chunked => \E c \in AppChunked : c.coded = content
              /\ NoBody(resp.parser.start[2]) => content = <<>>

(* What a server sends is what the client reads: for every way to put a
   response together the header that message_out completes and the vectors
   that encode fills make a message that ends with its last byte and has the
   same status, the same headers and the same body, and the chunks that the
   application coded are decoded to its data, provided that it codes them
   right and gives no body to a 204.                                       *)
RoundTrip ==
  request # <<>> /\ phase = "receive" /\ CodedRight =>
    /\ verdict \in {"more", "done"}
    /\ (verdict = "done") <=> (pos = Len(wire))
    /\ verdict = "done" => /\ msg.parser.start = resp.parser.start
                           /\ msg.parser.header_list = resp.parser.header_list
                           /\ get_body(msg.parser) = content
                           /\ msg.parser.chunked /\ content # <<>> =>
                                [coded |-> content,
                                 data |-> decode_chunked_body(msg.parser)] \in AppChunked

Connections == SelectSeq(resp.parser.header_list, LAMBDA h : h[1] = <<"Connection">>)

(* The Connection header has a value that __check_message_header does not know,
   and the version is an old one.  The value leaves keep_alive as it was: TRUE
   in the response being put together, as setting the version does not look at
   it, and FALSE in the one being read, as __match_status_line does.       *)
Undecided == /\ OldVersion(resp.parser.start[1])
             /\ Connections[1][2] \notin {<<"close">>, <<"Keep-Alive">>}

(* Both ends agree on what becomes of the connection: when the client reads
   that it is to be closed the server does not keep it, and unless the
   application has set its own Connection header the converse holds, too,
   whatever timeout and limit the request has asked for.  It takes that the
   application does not send two such headers.  The one case in which the
   server keeps a connection that the client closes is a response of an old
   version whose Connection header says neither close nor Keep-Alive.      *)
KeepAliveAgrees ==
  request # <<>> /\ verdict = "done" /\ Len(Connections) = 1 =>
    /\ ~msg.parser.keep_alive /\ keep_alive_timeo # 0 => Undecided
    /\ keep_alive_timeo = 0 /\ msg.parser.keep_alive => own
=============================================================================
