---------------------------- MODULE HttpMessages ----------------------------
(***************************************************************************)
(* The messages the library writes (http_MakeMessage and its callers in    *)
(* genlib/net/http/httpreadwrite.c and soap/soap_ctrlpt.c), as the units   *)
(* that HttpParser reads.                                                  *)
(***************************************************************************)
EXTENDS HttpParser

EOL == <<CR, LF>>

Digit(n) == CHOOSE d \in DOMAIN DigitValue : DigitValue[d] = n

HeaderLine(name, value) == <<name, ":", " ">> \o value \o EOL

\* One directive of a format, with its arguments.
Part(major, minor, d) ==
  LET version == <<"HTTP", "/", CHOOSE v \in DOMAIN VersionValue : VersionValue[v] = <<major, minor>>>>
  IN CASE d.k \in {"s", "b"} -> d.text
       [] d.k = "c" -> EOL
       [] d.k = "d" -> <<Digit(d.n)>>
       [] d.k = "K" -> HeaderLine("TRANSFER-ENCODING", <<"chunked">>)
       [] d.k = "G" -> d.text
       [] d.k = "D" -> HeaderLine("DATE", <<"now">>)
       [] d.k = "L" -> IF d.accept THEN HeaderLine("CONTENT-LANGUAGE", <<"en">>) ELSE <<>>
       [] d.k = "C" -> IF major > 1 \/ (major = 1 /\ minor = 1)
                       THEN HeaderLine("CONNECTION", <<"close">>) ELSE <<>>
       [] d.k = "N" -> HeaderLine("CONTENT-LENGTH", <<Digit(d.n)>>)
       [] d.k = "S" -> HeaderLine("SERVER", <<"sdk">>)      \* ends its own line
       [] d.k = "U" -> HeaderLine("USER-AGENT", <<"sdk">>)
       [] d.k = "R" -> version \o <<" ", Digit(d.n), " ", "text">> \o EOL
       [] d.k = "T" -> HeaderLine("CONTENT-TYPE", d.text)
       [] d.k = "B" -> HeaderLine("CONTENT-LENGTH", <<"1">>)
                         \o HeaderLine("CONTENT-TYPE", <<"text", "/", "html">>) \o EOL \o <<"page">>
       [] OTHER -> <<d.method, " ">> \o d.text \o <<" ">> \o version \o EOL       \* Q

http_MakeMessage(major, minor, fmt) ==
  FoldLeft(LAMBDA buf, d : buf \o Part(major, minor, d), <<>>, fmt)

Fmt(k) == [k |-> k]
FmtText(k, text) == [k |-> k, text |-> text]
FmtNum(k, n) == [k |-> k, n |-> n]
RequestLine(method, url) == [k |-> "Q", method |-> method, text |-> url]

\* HTTP/1.1 for a request of 1.1 or later, else the request's own version.
http_CalcResponseVersion(major, minor) ==
  IF major > 1 \/ (major = 1 /\ minor >= 1) THEN <<1, 1>> ELSE <<major, minor>>

http_SendStatusResponse(code, version) ==
  LET v == http_CalcResponseVersion(version[1], version[2])
  IN http_MakeMessage(v[1], v[2], <<FmtNum("R", code), Fmt("S"), Fmt("C"), FmtNum("B", code)>>)

Host == HeaderLine("HOST", <<"host">>)

MakeGetMessage(path) ==
  http_MakeMessage(1, 1, <<RequestLine("GET", path), FmtText("b", Host), Fmt("D"), Fmt("C"), Fmt("U"), Fmt("c")>>)

MakeGetMessageEx(path, low, high) ==
  http_MakeMessage(1, 1,
    <<RequestLine("GET", path), FmtText("b", Host),
      FmtText("G", HeaderLine("Range", <<"bytes", "=", Digit(low), "-", Digit(high)>>)),
      Fmt("D"), Fmt("C"), Fmt("U"), Fmt("c")>>)

UPNP_USING_CHUNKED == -3

MakePostMessage(path, contentLength, contentType) ==
  http_MakeMessage(1, 1,
    <<RequestLine("POST", path), FmtText("b", Host), Fmt("D"), Fmt("C"), Fmt("U"), FmtText("T", contentType),
      IF contentLength = UPNP_USING_CHUNKED THEN Fmt("K") ELSE FmtNum("N", contentLength), Fmt("c")>>)

\* What the library's own server takes from a request: http_RecvMessage, and for a
\* POST, whose headers end the message, http_RecvPostMessage behind it.
PostBody(r) ==
  IF r.status = "SUCCESS" /\ r.p.method = "POST"
  THEN parser_parse_entity([r.p EXCEPT !.position = "ENTITY"]) ELSE r
ServerReads(units) == PostBody(parser_append(parser_request_init, units))

Xml == <<"text", "/", "xml">>

\* A SOAP request is a POST with the name of the action in a header of its own.  The
\* query of a variable ends its headers twice, so that its body, which ends in a line
\* end, begins with one and loses the other.
SoapAction(service_type, action) ==
  HeaderLine("SOAPACTION", <<QUOTE, service_type, "#", action, QUOTE>>)

SoapRequest(path, body, ends) ==
  http_MakeMessage(1, 1,
    <<RequestLine("POST", path), FmtText("b", Host), FmtNum("N", Len(body)), FmtText("T", Xml),
      FmtText("s", SoapAction("urn", "action")), Fmt("U")>> \o ends \o <<FmtText("b", body)>>)

ActionRequest(path, action) == SoapRequest(path, <<action>> \o EOL, <<Fmt("c")>>)
ActionExRequest(path, header, action) == SoapRequest(path, <<header, action>> \o EOL, <<Fmt("c")>>)
StatusRequest(path, var) == SoapRequest(path, <<var>> \o EOL, <<Fmt("c"), Fmt("c")>>)

\* The same request as an M-POST: the method gets a prefix and the action's header a
\* MAN header before it and the prefix that MAN names.
add_man_header(request) ==
  LET at == Min({i \in DOMAIN request : request[i] = "SOAPACTION"})
  IN <<"M-" \o request[1]>> \o SubSeq(request, 2, at - 1)
       \o HeaderLine("MAN", <<QUOTE, "envelope", QUOTE, ";", " ", "ns", "=", "01">>)
       \o <<"01-SOAPACTION">> \o SubSeq(request, at + 1, Len(request))
=============================================================================
