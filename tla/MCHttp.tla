------------------------------- MODULE MCHttp -------------------------------
(***************************************************************************)
(* Responses put together by a few calls, and streams of other peers made  *)
(* of good and bad start lines, headers and bodies.                        *)
(***************************************************************************)
EXTENDS HttpMessage

Line(words) == words \o CRLF
Hdr(name, value) == HeaderLine(<<<<name>>, value>>)

Good == {Line(<<"GET", "SP", "/", "SP", "HTTP/1.1">>),
         CRLF \o Line(<<"GET", "SP", "/", "SP", "HTTP/1.0">>)}
GoodStatus == {Line(<<"HTTP/1.1", "SP", c, "SP", "x", "SP", "x">>) : c \in {"200", "204"}}
              \cup {Line(<<"HTTP/1.1", "SP", "100", "SP", "x">>) \o CRLF
                    \o Line(<<"HTTP/1.0", "SP", "200", "SP", "x">>)}
BadStart == {Line(<<"GET", "SP", "/">>), <<"GET", "NUL">>, <<"GET", "CR", "x">>,
             <<"GET", "SP", "/", "SP", "x", "x", "x", "x", "x">>}

Headers == {Hdr("Content-Length", <<"2">>), Hdr("Content-Length", <<"1", "2">>),
            Hdr("Content-Length", <<"x">>), Hdr("Expect", <<"100-continue">>),
            Hdr("Transfer-Encoding", <<"chunked">>), Hdr("Connection", <<"Keep-Alive">>),
            <<"x", ":", "CR", "LF", "SP", "y", "SP", "CR", "LF">>,
            <<"x", "x", ":", "y", "CR", "LF">>, <<"x", "x", "x", ":">>, <<"x", "NUL">>,
            <<"x", ":", "y", "y", "y", "y">>, <<"x", ":", "NUL", "y">>,
            <<"x", ":", "y", "CR", "y">>}
Pairs == {<<Hdr("Content-Length", <<"2">>), Hdr("Expect", <<"100-continue">>)>>,
          <<Hdr("Transfer-Encoding", <<"chunked">>),
            Hdr("Transfer-Encoding", <<"identity">>)>>,
          <<Hdr("Content-Length", <<"1">>), Hdr("Transfer-Encoding", <<"chunked">>)>>}
Heads == {<<>>} \cup Headers \cup {p[1] \o p[2] : p \in Pairs}

Chunk == <<"1", "CR", "LF", "y", "CR", "LF">>
LastChunk == <<"0", "CR", "LF">>
Bodies == {<<>>, <<"CR", "LF", "y">>, Chunk \o LastChunk \o CRLF \o <<"y">>,
           Chunk \o LastChunk \o <<"y", "CR", "LF", "CR", "LF">>}
BadChunks == {<<"y", "CR", "LF">>, <<"9", "CR", "LF", "y">>, <<"1", "CR", "y">>,
              <<"SP", "1", "SP", "y">>, LastChunk \o <<"CR", "y">>,
              LastChunk \o <<"y", "y", "y", "y">>}

Stream(r, b, l) == [is_resp |-> r, bytes |-> b, limit |-> l]
MCStreams ==
  {Stream(FALSE, s \o h \o CRLF \o b, l) :
     s \in Good, h \in Heads, b \in Bodies, l \in {14, Unlimited}}
  \cup {Stream(TRUE, s \o h \o CRLF \o b, Unlimited) :
          s \in GoodStatus, h \in Heads, b \in Bodies}
  \cup {Stream(TRUE, s \o Hdr("Transfer-Encoding", <<"chunked">>) \o CRLF \o b, Unlimited) :
          s \in GoodStatus, b \in BadChunks}
  \cup {Stream(r, s \o CRLF, Unlimited) : r \in BOOLEAN, s \in BadStart}

Request(version, params) ==
  LET p == match_line(NewParser(FALSE), <<"GET">>, <<"/">>, <<version>>)
  IN [seq |-> 3, parser |-> IF params = <<>> THEN p
                            ELSE add_header(p, <<"Keep-Alive">>, params)]
MCRequests ==
  {Request("HTTP/1.0", <<<<"timeout", 5>>>>), Request("HTTP/1.1", <<>>),
   Request("HTTP/1.1", <<<<"timeout", 5>>, <<"max", 3>>>>),
   Request("HTTP/1.1", <<<<"max", 4>>, <<"timeout", -1>>>>)}

MCHeaders == {<<<<"X">>, <<>>>>, <<<<"Connection">>, <<"close">>>>,
              <<<<"Connection">>, <<"Keep-Alive">>>>, <<<<"Connection">>, <<"x">>>>,
              <<<<"Transfer-Encoding">>, <<"chunked">>>>}
MCChunked == {[coded |-> Chunk \o Chunk \o LastChunk \o CRLF, data |-> <<"y", "y">>]}
MCBlocks == {CRLF} \cup {c.coded : c \in MCChunked}
MCVersions == {<<"HTTP/1.0">>}
MCCodes == {<<"204">>}
=============================================================================
