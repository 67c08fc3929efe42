----------------------------- MODULE HttpClient -----------------------------
(***************************************************************************)
(* The HTTP client of the library (genlib/net/http/httpreadwrite.c,        *)
(* genlib/net/sock.c): a download, an open-read-cancel-close GET, an       *)
(* open-write-close POST and a SOAP request with its M-POST retry, over    *)
(* one connection whose peer delivers the answer in any pieces, breaks off *)
(* or stays silent.                                                        *)
(*                                                                         *)
(* A call keeps its socket, parser and buffers to itself, so one call runs *)
(* at a time; only UpnpCancelHttpGet works on the handle of a call that is *)
(* running.  The system calls are external: each may fail.                 *)
(***************************************************************************)
EXTENDS HttpMessages

CONSTANTS Answers(_),   \* what a peer may answer to an operation: [units, body]
          Ops,          \* the calls of the application
          Urls,         \* the urls it passes
          Sizes,        \* the sizes it reads with
          Pieces,       \* what it writes to a POST: sequences of units
          MaxUnits,     \* the units one recv returns at most
          Timeouts,     \* the timeouts it passes, in seconds; 0 is none
          MaxCalls,     \* bound: calls that open a connection
          MaxWrites,    \* bound: writes of one POST
          MaxContentLength   \* g_maxContentLength, 0 for no limit

ASSUME ClientAssumption ==
  /\ Ops \subseteq {"download", "get", "getex", "post", "chunkedpost", "action", "actionex", "status"}
  /\ Urls \subseteq {"page", "nopath", "other"}
  /\ MaxUnits \in Nat \ {0} /\ MaxCalls \in Nat /\ MaxWrites \in 0..4
  /\ Timeouts \subseteq Nat /\ MaxContentLength \in Nat
  /\ \A op \in Ops : \A a \in Answers(op) : a.units \in Seq(STRING)

VARIABLES call,     \* the call that runs: its operation and where it is
          conn,     \* its connection: socket, peer, parser, what was received
          handle,   \* the handle of an open GET or POST ("failed": of a GET that was not opened)
          cancel,   \* its cancel flag
          out,      \* what the reads of the handle have delivered
          written,  \* what the application asked to write
          result,   \* what the last call returned
          leaked,   \* the operations that left a socket open which nobody can close any more
          calls

vars == <<call, conn, handle, cancel, out, written, result, leaked, calls>>

Gets == {"get", "getex"}
Posts == {"post", "chunkedpost"}
Soaps == {"action", "actionex", "status"}

Idle == [op |-> "none", pc |-> "none", size |-> 0, method |-> "NONE", seconds |-> 0]
NoAnswer == [units |-> <<>>, body |-> <<>>]
NoConn == [sock |-> "closed", wire |-> <<>>, peer |-> "gone", left |-> 0, sent |-> <<>>,
           p |-> parser_response_init("NONE"), got |-> <<>>, okclose |-> FALSE,
           answer |-> NoAnswer]
NoResult == [op |-> "none", ret |-> "none", code |-> 0, doc |-> <<>>]
Result(op, ret) == [NoResult EXCEPT !.op = op, !.ret = ret]

Init == /\ call = Idle /\ conn = NoConn /\ handle = "none" /\ cancel = FALSE
        /\ out = <<>> /\ written = <<>> /\ leaked = {}
        /\ result = NoResult /\ calls = 0

\* The call returns: its connection goes, unless a handle keeps it.
Returns(ret, code, doc, keep) ==
  /\ result' = [op |-> call.op, ret |-> ret, code |-> code, doc |-> doc]
  /\ call' = Idle
  /\ IF keep THEN TRUE ELSE conn' = NoConn

(***************************************************************************)
(* The calls.  A url must be an http url with a host.  An empty path is    *)
(* replaced by "/", but the GETs, the POST and the download look for a     *)
(* slash behind the host and refuse a url without one; the query of a      *)
(* variable takes host and path as they are.                               *)
(***************************************************************************)
http_FixUrl(url) == IF url = "other" THEN "E_INVALID_URL" ELSE "SUCCESS"
Path(url) == IF url = "page" THEN <<"/", "page">> ELSE <<"/">>

Begins(op, valid, request, method, seconds) ==
  /\ op \in Ops /\ call.op = "none" /\ handle = "none"
  /\ cancel' = FALSE /\ out' = <<>> /\ written' = <<>>
  /\ IF valid
     THEN /\ call' = [op |-> op, pc |-> "connect", size |-> 0, method |-> method,
                     seconds |-> seconds]
          /\ conn' = [NoConn EXCEPT !.left = seconds, !.sent = request]
          /\ result' = NoResult
     ELSE /\ result' = Result(op, "E_INVALID_URL")
          /\ UNCHANGED <<call, conn>>
  /\ UNCHANGED <<handle, leaked>>

Slashed(url) == http_FixUrl(url) = "SUCCESS" /\ url # "nopath"

http_Download(url, t) == Begins("download", Slashed(url), MakeGetMessage(Path(url)), "GET", t)

http_OpenHttpGetProxy(url, t) == Begins("get", Slashed(url), MakeGetMessage(Path(url)), "GET", t)

http_OpenHttpGetEx(url, t) ==
  Begins("getex", Slashed(url), MakeGetMessageEx(Path(url), 1, 2), "GET", t)

http_OpenHttpPost(url, length, t) ==
  Begins(IF length = UPNP_USING_CHUNKED THEN "chunkedpost" ELSE "post", Slashed(url),
         MakePostMessage(Path(url), length, Xml), "POST", t)

SoapSendAction(url, t) ==
  Begins("action", http_FixUrl(url) = "SUCCESS", ActionRequest(Path(url), "doc"), "SOAP_POST", t)

SoapSendActionEx(url, t) ==
  Begins("actionex", http_FixUrl(url) = "SUCCESS", ActionExRequest(Path(url), "header", "doc"),
         "SOAP_POST", t)

SoapGetServiceVarStatus(url, t) ==
  Begins("status", url # "other",
         StatusRequest(IF url = "nopath" THEN <<>> ELSE Path(url), "doc"), "SOAP_POST", t)

\* No socket, or no connection before DEFAULT_TCP_CONNECT_TIMEOUT: the socket is closed.
ConnectFails ==
  /\ call.pc = "connect"
  /\ Returns("E_SOCKET_CONNECT", 0, <<>>, FALSE)
  /\ UNCHANGED <<handle, cancel, out, written, leaked, calls>>

private_connect ==
  /\ call.pc = "connect"
  /\ call' = [call EXCEPT !.pc = "send"]
  /\ conn' = [conn EXCEPT !.sock = "open", !.peer = "open",
                          !.p = parser_response_init(call.method), !.got = <<>>,
                          !.okclose = FALSE]
  /\ UNCHANGED <<handle, cancel, out, written, result, leaked, calls>>

\* http_SendMessage reports success even when the write stopped short: the call goes
\* on to wait for an answer that a peer without a request does not send.  The seconds
\* a write takes come off the timeout, too.
http_SendMessage ==
  /\ call.pc = "send" /\ call.op \notin Posts
  /\ \E a \in Answers(call.op) \cup {NoAnswer}, elapsed \in 0..conn.left :
       conn' = [conn EXCEPT !.answer = a, !.wire = a.units, !.left = @ - elapsed]
  /\ call' = [call EXCEPT !.pc = "recv"]
  /\ UNCHANGED <<handle, cancel, out, written, result, leaked, calls>>

\* Opening a POST ends here, its answer is read when it is closed.
PostOpens ==
  /\ call.pc = "send" /\ call.op \in Posts
  /\ handle' = call.op
  /\ Returns("SUCCESS", 0, <<>>, TRUE)
  /\ UNCHANGED <<conn, cancel, out, written, leaked, calls>>

(***************************************************************************)
(* The peer.  It may close after its answer, or break off before.          *)
(***************************************************************************)
PeerCloses ==
  /\ conn.peer = "open" /\ conn.sock = "open" /\ call.pc \in {"recv", "reading"}
  /\ \E rest \in {conn.wire, <<>>}, how \in {"closed", "reset"} :
       conn' = [conn EXCEPT !.peer = how, !.wire = IF how = "reset" THEN <<>> ELSE rest]
  /\ UNCHANGED <<call, handle, cancel, out, written, result, leaked, calls>>

(***************************************************************************)
(* sock_read: data, the end of the connection, an error or a timeout.  The *)
(* seconds that went by are taken off the caller's timeout; at zero the    *)
(* next read waits without one.                                            *)
(***************************************************************************)

SockReads(n, elapsed) ==
  /\ n \in 1..MaxUnits /\ n <= Len(conn.wire)
  /\ elapsed \in 0..conn.left

AfterRead(n, elapsed) ==
  [conn EXCEPT !.wire = SubSeq(@, n + 1, Len(@)), !.got = @ \o SubSeq(conn.wire, 1, n),
               !.left = @ - elapsed]

ReadsEnd == conn.wire = <<>> /\ conn.peer = "closed"
ReadFails == \/ conn.wire = <<>> /\ conn.peer = "reset"
             \/ conn.left > 0 /\ conn.peer = "open"

(***************************************************************************)
(* http_RecvMessage, for the calls that want the whole answer.             *)
(***************************************************************************)
\* get_response_value: only an XML answer with 200 or 500 is looked into.  It holds the
\* response that the call waits for ("good"), or a UPnP error; an error below 400, which atoi
\* makes of any text that is no number, is returned in place of the call's own codes.
ResponseValue(op, p, good, error) ==
  LET doc == IF Entity(p) = <<>> THEN "" ELSE Entity(p)[1]
      xml == /\ p.status_code \in {200, 500}
             /\ httpmsg_find_hdr(p, "CONTENT-TYPE") # {}
             /\ HeaderValue(p, "CONTENT-TYPE") = Xml
  IN CASE xml /\ doc \in good -> [ret |-> "SUCCESS", doc |-> <<doc>>]
       [] xml /\ doc \notin good /\ doc = "fault401" ->
            [ret |-> error, doc |-> IF op = "status" THEN <<"errorDescription">> ELSE <<"UPnPError">>]
       [] xml /\ doc \notin good /\ doc = "fault0" -> [ret |-> "SUCCESS", doc |-> <<>>]
       [] OTHER -> [ret |-> "E_BAD_RESPONSE", doc |-> <<>>]

Asked(op) == IF op = "status" THEN {"value"} ELSE {"response"}

get_response_value(op, p) == ResponseValue(op, p, Asked(op), "UPNP_401")

\* A SOAP request refused with 405 is sent once more as M-POST, over a connection of
\* its own and with the whole timeout.
soap_request_and_response(p) ==
  IF p.status_code = 405 /\ call.method = "SOAP_POST"
  THEN /\ call' = [call EXCEPT !.pc = "connect", !.method = "M-POST"]
       /\ conn' = [NoConn EXCEPT !.sent = add_man_header(conn.sent), !.left = call.seconds]
       /\ UNCHANGED result
  ELSE LET value == get_response_value(call.op, p)
       IN Returns(value.ret, p.status_code, value.doc, FALSE)

\* The whole answer is there.  A download keeps the body of a 200 only.  A closed POST
\* passes on the error code variable, which a good answer leaves unset.
Finishes(p) ==
  /\ \/ /\ call.op = "download"
        /\ Returns(IF p.status_code = 200 THEN "SUCCESS" ELSE "STATUS", p.status_code,
                   IF p.status_code = 200 THEN Entity(p) ELSE <<>>, FALSE)
     \/ call.op \in Soaps /\ soap_request_and_response(p)
     \/ /\ call.op = "closepost"
        /\ \E unset \in {0, p.status_code} : Returns("SUCCESS", unset, Entity(p), FALSE)
  /\ handle' = "none"

Breaks(ret, code) ==
  /\ Returns(ret, code, <<>>, FALSE)
  /\ handle' = "none"

Received(r, n, elapsed) ==
  CASE r.status = "SUCCESS" ->
         IF MaxContentLength > 0 /\ r.p.content_length > MaxContentLength
         THEN Breaks("E_OUTOF_BOUNDS", 413) ELSE Finishes(r.p)
    [] r.status = "FAILURE" -> Breaks("E_BAD_HTTPMSG", r.p.http_error_code)
    [] OTHER -> /\ conn' = [AfterRead(n, elapsed) EXCEPT !.p = r.p,
                              !.okclose = @ \/ r.status = "INCOMPLETE_ENTITY"]
                /\ UNCHANGED <<call, result, handle>>

RecvMessage(n, elapsed) ==
  /\ call.pc = "recv" /\ call.op \notin Gets /\ SockReads(n, elapsed)
  /\ Received(parser_append(conn.p, SubSeq(conn.wire, 1, n)), n, elapsed)
  /\ UNCHANGED <<cancel, out, written, leaked, calls>>

\* The end of the connection ends a body without a length, and breaks any other.
RecvEnds ==
  /\ call.pc = "recv" /\ call.op \notin Gets /\ ReadsEnd
  /\ IF conn.okclose THEN Finishes(conn.p) ELSE Breaks("E_BAD_HTTPMSG", 400)
  /\ UNCHANGED <<cancel, out, written, leaked, calls>>

RecvFails ==
  /\ call.pc = "recv" /\ call.op \notin Gets /\ ReadFails
  /\ Breaks("E_SOCKET_ERROR", conn.p.http_error_code)
  /\ UNCHANGED <<cancel, out, written, leaked, calls>>

(***************************************************************************)
(* http_OpenHttpGet: the response line and the headers.                    *)
(***************************************************************************)
HeadersBehind(line) == IF line.status = "OK" THEN parser_parse_headers(line.p) ELSE line
LineThenHeaders(p) ==
  HeadersBehind(IF p.position = "RESPONSE_LINE" THEN parser_parse_responseline(p) ELSE R("OK", p))

\* The memory around a connection goes without sock_destroy: a socket that is open stays so.
Abandons(op) ==
  /\ conn' = NoConn
  /\ leaked' = IF conn.sock = "open" THEN leaked \cup {op} ELSE leaked

\* A GET that cannot be opened keeps its socket: http_OpenHttpGetEx frees the handle
\* around it, http_OpenHttpGetProxy hands the handle over together with the error.
OpenFails ==
  /\ result' = Result(call.op, "E_BAD_RESPONSE")
  /\ call' = Idle
  /\ IF call.op = "getex"
     THEN Abandons("getex") /\ UNCHANGED handle
     ELSE /\ handle' = "failed"
          /\ conn' = [NoConn EXCEPT !.sock = conn.sock]
          /\ UNCHANGED leaked

Opens(n, elapsed, r) ==
  /\ r.status = "OK"
  /\ conn' = [AfterRead(n, elapsed) EXCEPT !.p = parser_get_entity_read_method(r.p).p]
  /\ handle' = "get"
  /\ Returns("SUCCESS", r.p.status_code, <<>>, TRUE)
  /\ UNCHANGED leaked

WaitsForHeaders(n, elapsed, r) ==
  /\ r.status = "INCOMPLETE"
  /\ conn' = [AfterRead(n, elapsed) EXCEPT !.p = r.p]
  /\ UNCHANGED <<call, result, handle, leaked>>

Heads(n, elapsed, r) ==
  \/ Opens(n, elapsed, r)
  \/ WaitsForHeaders(n, elapsed, r)
  \/ r.status \notin {"OK", "INCOMPLETE"} /\ OpenFails

ReadResponseLineAndHeaders(n, elapsed) ==
  /\ call.op \in Gets /\ call.pc = "recv" /\ SockReads(n, elapsed)
  /\ Heads(n, elapsed, LineThenHeaders([conn.p EXCEPT !.msg = @ \o SubSeq(conn.wire, 1, n)]))
  /\ UNCHANGED <<cancel, out, written, calls>>

GetOpenFails ==
  /\ call.op \in Gets /\ call.pc = "recv" /\ (ReadsEnd \/ ReadFails)
  /\ OpenFails
  /\ UNCHANGED <<cancel, out, written, calls>>

\* The application takes the error for the whole story and drops the handle.
FailedHandleDropped ==
  /\ handle = "failed" /\ call.op = "none"
  /\ handle' = "none" /\ Abandons("get")
  /\ UNCHANGED <<call, cancel, out, written, result, calls>>

(***************************************************************************)
(* http_ReadHttpGet: the entity, as much as is asked for.                  *)
(***************************************************************************)
Usable(status) == status \in {"SUCCESS", "CONTINUE", "INCOMPLETE", "INCOMPLETE_ENTITY"}

Reads(size, seconds, r) ==
  IF Usable(r.status)
  THEN /\ call' = [op |-> "read", pc |-> "reading", size |-> size, method |-> "GET",
                    seconds |-> seconds]
       /\ conn' = [conn EXCEPT !.p = r.p, !.left = seconds,
                               !.okclose = r.status = "INCOMPLETE_ENTITY"]
       /\ result' = NoResult
  ELSE /\ result' = Result("read", "E_BAD_RESPONSE")
       /\ UNCHANGED call
       /\ conn' = [conn EXCEPT !.p = r.p]

ReadBegins(size, seconds) ==
  /\ call.op = "none" /\ handle = "get"
  /\ Reads(size, seconds, IF conn.p.position = "COMPLETE" THEN R("SUCCESS", conn.p)
                          ELSE parser_parse_entity(conn.p))
  /\ UNCHANGED <<handle, cancel, out, written, leaked, calls>>

NeedsMore ==
  /\ conn.p.amount_discarded + call.size > conn.p.entity_length
  /\ cancel = FALSE /\ conn.p.position # "COMPLETE"

TakesBody(n, elapsed, r) ==
  /\ conn' = [AfterRead(n, elapsed) EXCEPT !.p = r.p,
                !.okclose = @ \/ r.status = "INCOMPLETE_ENTITY"]
  /\ IF Usable(r.status) THEN UNCHANGED <<call, result>>
     ELSE Returns("E_BAD_RESPONSE", 0, <<>>, TRUE)

ReadReceives(n, elapsed) ==
  /\ call.pc = "reading" /\ NeedsMore /\ SockReads(n, elapsed)
  /\ TakesBody(n, elapsed,
               parser_parse_entity([conn.p EXCEPT !.msg = @ \o SubSeq(conn.wire, 1, n)]))
  /\ UNCHANGED <<handle, cancel, out, written, leaked, calls>>

ReadReachesEnd ==
  /\ call.pc = "reading" /\ NeedsMore /\ ReadsEnd
  /\ IF conn.okclose
     THEN /\ conn' = [conn EXCEPT !.p.position = "COMPLETE"]
          /\ UNCHANGED <<call, result>>
     ELSE /\ Returns("E_BAD_HTTPMSG", 0, <<>>, TRUE)
          /\ UNCHANGED conn
  /\ UNCHANGED <<handle, cancel, out, written, leaked, calls>>

ReadBreaks ==
  /\ call.pc = "reading" /\ NeedsMore /\ ReadFails
  /\ Returns("E_SOCKET_ERROR", 0, <<>>, TRUE)
  /\ UNCHANGED <<conn, handle, cancel, out, written, leaked, calls>>

\* The bytes handed over leave the buffer; amount_discarded keeps the books.
ReadEnds ==
  LET p == conn.p
      there == p.entity_length - p.amount_discarded
      size == IF call.size > there THEN there ELSE call.size
      data == SubSeq(p.msg, p.entity_start_position + 1, p.entity_start_position + size)
  IN /\ call.pc = "reading" /\ ~NeedsMore
     /\ IF cancel
        THEN /\ Returns("E_CANCELED", 0, <<>>, TRUE)
             /\ UNCHANGED <<out, conn>>
        ELSE /\ Returns("SUCCESS", 0, data, TRUE)
             /\ out' = out \o data
             /\ conn' = [conn EXCEPT !.p.msg = Deleted(@, p.entity_start_position, size),
                                     !.p.cursor = @ - size, !.p.amount_discarded = @ + size]
     /\ UNCHANGED <<handle, cancel, written, leaked, calls>>

\* Another thread sets the flag; a read that waits sees it after its next recv.
UpnpCancelHttpGet ==
  /\ handle = "get" /\ cancel = FALSE
  /\ cancel' = TRUE
  /\ UNCHANGED <<call, conn, handle, out, written, result, leaked, calls>>

UpnpCloseHttpGet ==
  /\ handle \in {"get", "failed"} /\ call.op = "none"
  /\ handle' = "none" /\ conn' = NoConn
  /\ result' = Result("close", "SUCCESS")
  /\ UNCHANGED <<call, cancel, out, written, leaked, calls>>

(***************************************************************************)
(* The POST handle.                                                        *)
(***************************************************************************)
ChunkAlways(units) ==      \* mutant: an empty write ends the chunks
  <<Digit(Len(units))>> \o EOL \o units \o EOL

\* A write goes out whole, as one chunk if the POST is chunked, or fails.
Chunk(units) == IF units = <<>> THEN <<>> ELSE <<Digit(Len(units))>> \o EOL \o units \o EOL

http_WriteHttpPost(units) ==
  /\ handle \in Posts /\ call.op = "none"
  /\ Len(written) + Len(units) <= MaxWrites
  /\ \/ /\ conn' = [conn EXCEPT !.sent = @ \o IF handle = "chunkedpost" THEN Chunk(units) ELSE units]
        /\ written' = written \o units
        /\ result' = Result("write", "SUCCESS")
     \/ /\ result' = Result("write", "E_SOCKET_ERROR")
        /\ UNCHANGED <<conn, written>>
  /\ UNCHANGED <<call, handle, cancel, out, leaked, calls>>

\* Closing ends the chunks and reads the answer; the handle goes however it ends.
http_CloseHttpPost(seconds) ==
  /\ handle \in Posts /\ call.op = "none"
  /\ call' = [op |-> "closepost", pc |-> "recv", size |-> 0, method |-> "POST", seconds |-> seconds]
  /\ \E a \in Answers(handle) \cup {NoAnswer} :
       conn' = [conn EXCEPT !.answer = a, !.wire = a.units, !.left = seconds,
                  !.sent = @ \o IF handle = "chunkedpost" THEN <<"0">> \o EOL \o EOL ELSE <<>>,
                  !.p = parser_response_init("POST")]
  /\ result' = NoResult
  /\ UNCHANGED <<handle, cancel, out, written, leaked, calls>>
-----------------------------------------------------------------------------
\* UpnpDownloadUrlItem, UpnpOpenHttpGet and the others pass their arguments on.
HttpCall(url, t) ==
  \/ http_Download(url, t)
  \/ http_OpenHttpGetProxy(url, t)
  \/ http_OpenHttpGetEx(url, t)
  \/ \E length \in 0..MaxWrites \cup {UPNP_USING_CHUNKED} : http_OpenHttpPost(url, length, t)

\* UpnpSendAction, UpnpSendActionEx and UpnpGetServiceVarStatus of a registered client.
SoapCall(url, t) ==
  \/ SoapSendAction(url, t)
  \/ SoapSendActionEx(url, t)
  \/ SoapGetServiceVarStatus(url, t)

App == \/ \E url \in Urls, t \in Timeouts :
          /\ calls < MaxCalls /\ calls' = calls + 1
          /\ HttpCall(url, t) \/ SoapCall(url, t)
       \/ \E size \in Sizes, t \in Timeouts : ReadBegins(size, t)
       \/ UpnpCancelHttpGet
       \/ UpnpCloseHttpGet
       \/ FailedHandleDropped
       \/ \E units \in Pieces : http_WriteHttpPost(units)
       \/ \E t \in Timeouts : http_CloseHttpPost(t)

Library ==
  \/ ConnectFails
  \/ private_connect
  \/ http_SendMessage
  \/ PostOpens
  \/ \E n \in 1..MaxUnits : \E e \in 0..Max(Timeouts) :
       \/ RecvMessage(n, e)
       \/ ReadResponseLineAndHeaders(n, e)
       \/ ReadReceives(n, e)
  \/ RecvEnds
  \/ RecvFails
  \/ GetOpenFails
  \/ ReadReachesEnd
  \/ ReadBreaks
  \/ ReadEnds

Next == App \/ Library \/ PeerCloses

\* The steps that need no peer, and when a step on received data can be taken (the
\* condition ENABLED of the rest of Library, which TLC cannot evaluate in time).
Local == ConnectFails \/ private_connect \/ http_SendMessage \/ PostOpens
CanReceive ==
  \/ call.pc = "reading" /\ ~NeedsMore
  \/ call.pc \in {"recv", "reading"} /\ (conn.wire # <<>> \/ ReadsEnd \/ ReadFails)

-----------------------------------------------------------------------------
TypeOK ==
  /\ call.op \in Ops \cup {"none", "read", "closepost"}
  /\ call.pc \in {"none", "connect", "send", "recv", "reading"}
  /\ conn.sock \in {"open", "closed"}
  /\ \E t \in Timeouts \cup {0} : conn.left \in 0..t
  /\ handle \in {"none", "failed", "get"} \cup Posts
  /\ cancel \in BOOLEAN
  /\ calls \in 0..MaxCalls

\* What a parser made of the answer: everything the library hands on.
Outcome(r) ==
  [status |-> r.status, headers |-> r.p.headers, code |-> r.p.status_code,
   position |-> r.p.position, length |-> r.p.entity_length, entity |-> Entity(r.p)]
SameOutcome(whole) == Outcome(whole) = Outcome([status |-> whole.status, p |-> conn.p])

\* The pieces an answer arrives in do not matter: a parser that was fed them one by
\* one stands where a parser that is fed all of them at once would stand
\* (parser_append, with the cursors that every failed match restores).
SplitIndependent ==
  call.pc = "recv" /\ call.op \notin Gets /\ conn.got # <<>> =>
    SameOutcome(parser_append(parser_response_init(call.method), conn.got))

\* A download that succeeds hands over the body the peer sent, all of it and nothing
\* else, however it was framed: by a length, in chunks or by the end of the connection.
DownloadIsTheBody ==
  call.op = "download" /\ call'.op = "none" /\ result'.ret = "SUCCESS"
    => \/ result'.doc = conn.answer.body
       \/ conn.okclose /\ IsPrefix(result'.doc, conn.answer.body)

\* The reads of a GET deliver the body in order without a gap, whatever sizes they ask
\* for and however the chunks fall: the buffer's deletions and amount_discarded agree.
ReadsDeliverTheBody == handle = "get" => IsPrefix(out', conn.answer.body)

\* A read that returns nothing without an error says that the body is over.
EmptyReadIsTheEnd ==
  call.op = "read" /\ call'.op = "none" /\ result'.ret = "SUCCESS" /\ result'.doc = <<>>
    => out = conn.answer.body \/ conn.p.ent_position = "UNTIL_CLOSE"

\* What the library's own parser makes of a request: the same method on the same path, and
\* the document of a SOAP request in the body.
Understood(r, sent) ==
  /\ r.status = "SUCCESS" \/ call.op \in Posts
  /\ r.p.method = call.method
  /\ r.p.url \o <<" ">> = SubSeq(sent, 3, 3 + Len(r.p.url))
  /\ call.op \in Soaps => Contains(Entity(r.p), "doc")

\* The writer and the reader of requests agree, also when the request was turned into an
\* M-POST.  (The query of a variable at a url without a path is left out: it has no path
\* either.)
RequestIsUnderstood ==
  call.pc = "connect" /\ call'.pc = "send" /\ conn.sent[3] = "/"
    => Understood(ServerReads(conn.sent), conn.sent)

\* The server that decodes a closed POST gets what the application wrote, in order: all
\* of it when the POST is chunked, else as much as its length promised.
Decoded(r) ==
  LET promised == IF handle = "chunkedpost" THEN Len(written) ELSE r.p.content_length
  IN /\ r.status = "SUCCESS" <=> promised <= Len(written)
     /\ Entity(r.p) = SubSeq(written, 1, Min({promised, Len(written)}))
PostIsDecoded == call.op # "closepost" /\ call'.op = "closepost" => Decoded(ServerReads(conn'.sent))

\* A SOAP call that reports success hands over the document its peer answered with, and
\* one that reports a UPnP error the error's; the answer 0 of a fault without a number
\* is the one success without a document.
SoapAnswerFits ==
  call.op \in Soaps /\ call'.op = "none" =>
    /\ result'.ret = "SUCCESS" => \/ result'.doc = conn.answer.body
                                  \/ conn.answer.body = <<"fault0">>
    /\ result'.ret = "UPNP_401" <=> result'.doc \in {<<"errorDescription">>, <<"UPnPError">>}

\* The socket of a connection is open only while a call runs on it or a handle can close
\* it, with one exception: a GET whose response line and headers do not come or make no
\* sense leaves its socket behind (http_OpenHttpGetEx frees the handle without
\* sock_destroy; the handle that http_OpenHttpGetProxy returns beside its error is
\* dropped).  No download, no POST, no SOAP request nor its retry as M-POST does.
SocketsOwned ==
  /\ conn.sock = "open" => call.op # "none" \/ handle # "none"
  /\ leaked \subseteq Gets

\* Every call comes back, if its peer does not stay silent for ever.
CallReturns == call.op # "none" ~> call.op = "none"

\* What the timeout parameter promises: a call made with one comes back whatever the
\* peer does.
TimeoutEnds == call.op # "none" /\ conn.left > 0 ~> call.op = "none"
=============================================================================
