------------------------------- MODULE MCURI -------------------------------
(***************************************************************************)
(* URIs made of parts that contain the delimiters of other parts wherever  *)
(* the grammar allows it, and a few with bad characters.                   *)
(***************************************************************************)
EXTENDS URI

PartsOf(scheme, userinfo, host, port, path, query, fragment) ==
  [scheme |-> scheme, userinfo |-> userinfo, host |-> host, port |-> port,
   path |-> path, query |-> query, fragment |-> fragment]

MCUris ==
  {PartsOf(<<"a">>, u, h, p, path, q, f) :
     u \in {<<>>, <<"a", ":", "a">>}, h \in {<<"a">>, <<"[", ":", "1", "]">>},
     p \in {<<>>, <<"1">>, <<"a">>}, path \in {<<>>, <<"/">>, <<"/", "@", ":">>},
     q \in {<<>>, <<"a">>, <<"/", "a">>, <<"?", ":", "@">>}, f \in {<<>>, <<"#", "?">>}}
  \cup {PartsOf(s, <<>>, <<>>, <<>>, path, q, f) :
          s \in {<<"a">>, <<"a", "1">>, <<"@">>}, path \in {<<"a", "@">>, <<"/", ":">>},
          q \in {<<>>, <<"a">>, <<"?", ":", "@">>}, f \in {<<>>, <<"#", "?">>}}

(* What is parsed into an object that has been used. *)
MCAgain == {PartsOf(<<"a">>, <<>>, <<"a">>, <<>>, <<>>, <<>>, <<>>),
            PartsOf(<<"@">>, <<>>, <<>>, <<>>, <<"a", "@">>, <<>>, <<>>),
            PartsOf(<<"a">>, <<>>, <<>>, <<>>, <<"a">>, <<"a">>, <<>>)}
=============================================================================
