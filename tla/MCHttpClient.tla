---------------------------- MODULE MCHttpClient ----------------------------
(* Answers with every way of framing a body, small enough to cut anywhere. *)
EXTENDS AsyncCalls

Line(code) == <<"HTTP", "/", "1.1", " ", code, " ", "OK", CR, LF>>
Length(n) == <<"CONTENT-", "LENGTH", ":", " ", n, CR, LF>>
Chunked == <<"TRANSFER-ENCODING", ":", "chunked", LF>>
Type == <<"CONTENT-TYPE", ":", "text", "/", "xml", CR, LF>>
End == <<CR, LF>>
Ans(units, body) == [units |-> units, body |-> body]

WithLength == Ans(<<CR, LF>> \o Line("200") \o Length("3") \o End \o <<"a", "b", "c">>, <<"a", "b", "c">>)
TooLong == Ans(Line("200") \o Length("4") \o End \o <<"a", "b", "c", "a">>, <<"a", "b", "c", "a">>)
InChunks == Ans(Line("200") \o Chunked \o End \o <<"1", CR, LF, "a", CR, LF, "2", ";", "x", LF, "b", "c", CR, LF,
                  "0", CR, LF, "EXT", ":", CR, LF, CR, LF>>, <<"a", "b", "c">>)
ToTheEnd == Ans(Line("200") \o <<"EXT", ":", CR, LF>> \o End \o <<"a", "b">>, <<"a", "b">>)
Folded == Ans(Line("200") \o <<"EXT", ":", " ", "v", CR, LF, " ", "w", CR, LF, "EXT", ":", "z", LF>>
                \o Length("1") \o End \o <<"a">>, <<"a">>)
Refused == Ans(Line("405") \o End, <<>>)
Empty == Ans(Line("204") \o End, <<>>)
Old == Ans(<<"HTTP", "/", "1.0", " ", "200", " ", "OK", LF>>, <<>>)
Response == Ans(Line("200") \o Type \o Length("1") \o End \o <<"response">>, <<"response">>)
Fault == Ans(Line("500") \o Type \o Length("1") \o End \o <<"fault401">>, <<"fault401">>)
Value == Ans(Line("200") \o Type \o Length("1") \o End \o <<"value">>, <<"value">>)
NoNumber == Ans(Line("500") \o Type \o Length("1") \o End \o <<"fault0">>, <<"fault0">>)

\* What a server of the SDK's own says when it refuses.
OwnStatus == Ans(http_SendStatusResponse(405, <<1, 2>>), <<"page">>)

MCAnswers(op) ==
  CASE op \in {"download", "get", "getex"} ->
         {WithLength, TooLong, InChunks, ToTheEnd, Folded, Empty, Old}
    [] op \in {"post", "chunkedpost"} -> {WithLength, Empty, Old, OwnStatus}
    [] OTHER -> {Refused, Response, Value, Fault, NoNumber}
MCPieces == {<<"a">>, <<"b", "c">>, <<>>}
MCSizes == {1, 2}
=============================================================================
