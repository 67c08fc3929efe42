----------------------------- MODULE MiniServer -----------------------------
(***************************************************************************)
(* The life of a connection to the library's server                        *)
(* (genlib/miniserver/miniserver.c): accepted by the one listening thread, *)
(* handled by a job of its own that receives the request, dispatches it by *)
(* its method to the web server, SOAP or GENA, and closes the connection.  *)
(*                                                                         *)
(* Here the web server, the SOAP side of a device and the registration of  *)
(* the device meet: they share the alias and the handle lock.              *)
(***************************************************************************)
EXTENDS SoapDevice

CONSTANTS
  SlowPeers,              \* connections whose peer may keep its thread waiting
  HTTP_DEFAULT_TIMEOUT    \* seconds that a request may take to arrive

ASSUME TimeoutAssumption == HTTP_DEFAULT_TIMEOUT \in Nat \ {0}

VARIABLES
  patience,   \* connection |-> seconds that are left of them
  silent      \* connections whose peer neither sends nor reads nor goes away

\* What http_RecvMessage makes of a request: code is the error it is refused with, or 0;
\* url what becomes of it when it is cleaned, dir the directory it begins with.
Ranges == [kind : {"none", "malformed", "nodash"}] \cup [kind : {"bytes"}, first : Int, last : Int]
HttpRequest ==
  [method : STRING, code : {0} \cup 400..505, url : {"path", "escapes", "relative"}, path : STRING, dir : STRING,
   te : BOOLEAN, old : BOOLEAN, range : Ranges, post : STRING, xml : BOOLEAN, man : BOOLEAN,
   header : [kind : STRING, urn : STRING, name : STRING],
   body : [shape : STRING, urn : STRING, name : STRING]]

\* A directory of a table names the path of its index; a length of a virtual file that is
\* not known is negative, that of a file is not.
Entries(lengths) ==
  [kind : {"dir"}, index : STRING]
    \cup [kind : {"file"}, length : lengths, bytes : Nat, readable : BOOLEAN]

ASSUME RequestAssumption ==
  /\ \A c \in Conns : Requests[c] \subseteq HttpRequest
  /\ \A p \in DOMAIN Files : p \in STRING /\ Files[p] \in Entries(Nat)
  /\ \A p \in DOMAIN VirtualFiles : p \in STRING /\ VirtualFiles[p] \in Entries(Int)
  /\ Verdicts \subseteq [ErrCode : Int, ErrStr : BOOLEAN, result : BOOLEAN]

peerVars == <<patience, silent>>
vars == <<webVars, deviceRegistered, peerVars>>

Init ==
  /\ webServerEnabled \in BOOLEAN /\ gGetCallback = webServerEnabled
  /\ gDocumentRootDir = webServerEnabled
  /\ pVirtualDirList = [dirs |-> IF webServerEnabled THEN <<"/v", "/w">> ELSE <<>>, freed |-> FALSE]
  /\ gAliasDoc = NoDoc
  /\ docs = [d \in 1..MaxDocs |-> [ct |-> 0, state |-> "none"]]
  /\ withdrawn = [d \in 1..MaxDocs |-> 0]
  /\ app = "idle" /\ calls = 0 /\ configs = 0
  /\ conn = [c \in Conns |-> NoConn]
  /\ crashed = FALSE
  /\ deviceRegistered = FALSE
  /\ patience = [c \in Conns |-> HTTP_DEFAULT_TIMEOUT] /\ silent = {}

(***************************************************************************)
(* The application registers and unregisters its device.                   *)
(***************************************************************************)
\* UpnpRegisterRootDevice2 publishes the description and may fail behind it, which leaves
\* the document published.  One device at a time, and only while the web server, whose
\* mutex the call locks, is enabled.
RegistrationBegins == ~deviceRegistered /\ webServerEnabled /\ web_server_set_alias /\ UNCHANGED deviceRegistered

RegistrationEnds == PublishAlias /\ deviceRegistered' \in BOOLEAN

\* UpnpUnRegisterRootDevice withdraws the description under the handle lock.
Unregisters == deviceRegistered /\ WithdrawAlias /\ deviceRegistered' = FALSE

(***************************************************************************)
(* A connection.                                                           *)
(***************************************************************************)
web_server_accept(c) ==
  /\ AtStart(c, "idle")
  /\ Moves(c, [conn[c] EXCEPT !.pc = "receive"])
  /\ UNCHANGED <<SoapVars, peerVars>>

SoapMethods == {"SOAP_POST", "M-POST"}
Pages == {"GET", "HEAD", "POST", "SIMPLEGET"}
GenaMethods == {"NOTIFY", "SUBSCRIBE", "UNSUBSCRIBE"}

dispatch_request(method) ==
  CASE method \in SoapMethods -> "soap"
    [] method \in GenaMethods -> "gena"
    [] method \in Pages /\ gGetCallback -> "web"
    [] OTHER -> "none"

\* http_RecvMessage gets the request in parts.  The time that passed until a part came is
\* taken off the timeout; when nothing is left of it, it means no timeout (sock_read).
ReceivesPart(c) ==
  /\ AtStart(c, "receive") /\ c \in SlowPeers
  /\ \E elapsed \in 1..patience[c] : patience' = [patience EXCEPT ![c] = @ - elapsed]
  /\ silent' = silent \ {c}
  /\ UNCHANGED <<conn, SoapVars>>

Refused(c, k, code) ==
  \E ok \in BOOLEAN : Moves(c, [Answered(k, StatusHead(code), ok) EXCEPT !.pc = "close"])

\* The timeout ends while there is one, or the connection does.
ReceiveFails(c) == AtStart(c, "receive") /\ Refused(c, conn[c], 400) /\ UNCHANGED SoapVars

\* http_RecvMessage takes the request apart or names the code to refuse it with; a method
\* without a callback is an internal error.
Handles(c, k) ==
  LET to == dispatch_request(k.req.method)
  IN CASE k.req.code # 0 -> Refused(c, k, k.req.code)
       [] k.req.code = 0 /\ to = "none" -> Refused(c, k, 500)
       [] OTHER -> Moves(c, [k EXCEPT !.pc = to])

handle_request(c) ==
  /\ AtStart(c, "receive")
  /\ \E q \in Requests[c] : Handles(c, [conn[c] EXCEPT !.req = q])
  /\ UNCHANGED SoapVars

\* genaCallback and its handlers answer every request (GenaDevice and GenaControlPoint
\* model what they do).
genaCallback(c) ==
  /\ AtStart(c, "gena")
  /\ \E code \in {200, 412}, ok \in BOOLEAN :
       Moves(c, [Answered(conn[c], ResponseHead(code, 0, FALSE, NoRange), ok) EXCEPT !.pc = "close"])
  /\ UNCHANGED SoapVars

sock_destroyKeepsAlive(c) ==      \* mutant: a refused request leaves the connection open
  /\ AtStart(c, "close")
  /\ Moves(c, [NoConn EXCEPT !.pc = IF conn[c].heads = <<StatusHead(400)>> THEN "receive" ELSE "done",
                             !.alias = conn[c].alias])
  /\ UNCHANGED SoapVars

\* What belongs to the request goes with it; a reference to the alias may stay behind.
sock_destroy(c) ==
  /\ AtStart(c, "close")
  /\ Moves(c, [NoConn EXCEPT !.pc = "done", !.alias = conn[c].alias])
  /\ UNCHANGED SoapVars

ConnActs(c) ==
  \/ ReceiveFails(c) \/ handle_request(c) \/ genaCallback(c) \/ sock_destroy(c)
  \/ SoapStep(c) \/ (WebStep(c) /\ UNCHANGED deviceRegistered)
  \/ (RequestCrashes(c) /\ UNCHANGED deviceRegistered)

\* A step behind a wait for the peer is one that the peer has made possible.
ConnStep(c) ==
  \/ ReceivesPart(c)
  \/ /\ ConnActs(c)
     /\ silent' = silent \ {c}
     /\ patience' = [patience EXCEPT ![c] = HTTP_DEFAULT_TIMEOUT]

\* Where the thread of a connection reads from its peer, or sends more than the buffer of
\* the socket takes: a head, a status page or an answer of GENA is none of that.
AtPeer(k) ==
  \/ k.pc \in {"receive", "doc", "soapAnswer"}
  \/ k.pc = "post" /\ PostOpens(k.req, k.source)
  \/ k.pc = "file" /\ k.left # 0

PeerFallsSilent(c) ==
  /\ ~crashed /\ AtPeer(conn[c]) /\ c \in SlowPeers \ silent
  /\ silent' = silent \cup {c}
  /\ UNCHANGED <<webVars, deviceRegistered, patience>>

Registers == ~crashed /\ (RegistrationBegins \/ RegistrationEnds \/ Unregisters) /\ UNCHANGED peerVars

Next ==
  \/ \E c \in Conns : web_server_accept(c) \/ ConnStep(c) \/ PeerFallsSilent(c)
  \/ Registers
  \/ AppStep /\ UNCHANGED <<deviceRegistered, peerVars>>

\* A thread waits for a silent peer without limit: sock_read and sock_write select without
\* a timeout when it is 0, as http_RecvPostMessage and web_server_callback have it from the
\* start and handle_request when its seconds are used up, and send() has none at all.
WaitsForPeer(c) ==
  c \in silent /\ AtPeer(conn[c]) /\ (conn[c].pc = "receive" => patience[c] = 0)

\* A connection that waits for nobody goes on: it has a job with a thread, and a call that
\* registers a device, whose lock a SOAP request waits for, returns.  Nothing is assumed
\* of a peer.
CanStep(c) ==
  /\ ~crashed /\ conn[c].pc \notin {"idle", "done"}
  /\ ~(conn[c].pc = "soap" /\ app = "publish")
  /\ ~WaitsForPeer(c)

\* A step ConnStep(c) that does not crash, told by what no other step changes then.
GoesOn(c) == CanStep(c) /\ (conn'[c] # conn[c] \/ patience'[c] # patience[c])

\* Weak fairness of the steps of a connection, with their enabling condition written out.
Fairness ==
  /\ WF_vars(app = "publish" /\ Registers)
  /\ \A c \in Conns : []<>~CanStep(c) \/ []<><<GoesOn(c)>>_vars

Spec == Init /\ [][Next]_vars /\ Fairness

(***************************************************************************)
(* Properties.                                                             *)
(***************************************************************************)
HasReference(c, d) == conn[c].alias = d
InUse(c) == conn[c].pc \in {"head", "doc", "release"} /\ conn[c].source = "alias"

\* The count of a document (struct xml_alias_t.ct) is the number of copies that requests
\* still hold, one more while its owner has not given it up, and one less for every time
\* more that the owner gives it up; the memory goes when it gets to zero.  Requests that
\* take a copy, find that they want a file and never give it back are among the holders.
AliasCounted ==
  \A d \in DOMAIN docs :
    docs[d].state # "none" =>
      /\ docs[d].ct = Cardinality({c \in Conns : HasReference(c, d)}) + 1 - withdrawn[d]
      /\ docs[d].state = "live" <=> docs[d].ct > 0

\* A document that its owner gave up at most once stays in memory while a request sends
\* it, whatever is published meanwhile (alias_grab, alias_release).
HeldDocumentLives ==
  \A c \in Conns : InUse(c) /\ withdrawn[conn[c].alias] <= 1 => Live(conn[c].alias)

\* Nothing asserts or touches freed memory unless the description is changed, or a virtual
\* directory removed, while or before requests are handled.
OnlyChangesCrash ==
  crashed => \/ \E d \in DOMAIN docs : withdrawn[d] > 0
             \/ pVirtualDirList.freed

AliasSound == AliasCounted /\ HeldDocumentLives /\ OnlyChangesCrash

Finished(k) == k.pc = "close"
HeadOf(k) == k.heads[1]
Served(k) == Finished(k) /\ k.heads # <<>> /\ ~k.cut

\* A suffix range that is not the whole document, and the alias in part, are answered with
\* headers that do not fit the body, and a document of known length asked for in chunks
\* has no last one; the rest of http_SendMessage keeps what the head promised.
PlainDocument(k) ==
  /\ k.req.method \in {"GET", "HEAD"} /\ HeadOf(k).code \in {200, 206}
  /\ k.source = "alias" => HeadOf(k).code = 200 /\ ~HeadOf(k).chunked
  /\ k.req.range.kind = "bytes" => k.req.range.first >= 0 \/ k.instr.offset = 0

BodyFits(k) ==
  Served(k) /\ PlainDocument(k) /\ k.req.method = "GET" =>
    /\ HeadOf(k).length >= 0 => k.body = HeadOf(k).length
    /\ HeadOf(k).range # NoRange =>
         LET size == HeadOf(k).range[2] - HeadOf(k).range[1] + 1
         IN /\ k.instr.offset = HeadOf(k).range[1]
            /\ k.body <= size
            /\ ~HeadOf(k).chunked => k.body = size
    /\ HeadOf(k).chunked /\ k.instr.size < 0 => k.lastChunk

\* What was sent of a document is what the head announced: as many bytes as its length
\* says, as its range says (in chunks less, when the file has been cut short meanwhile:
\* the last chunk then follows as if it were the end), and a last chunk behind chunks of a
\* document whose length was not known beforehand (process_request decides,
\* http_SendMessage sends).
BodyFitsHead == \A c \in Conns : BodyFits(conn[c])

AnsweredOnce(k) ==
  /\ Len(k.heads) <= 1
  /\ Finished(k) /\ k.heads = <<>> => k.cut \/ k.req.method = "SIMPLEGET"

\* A connection gets one answer, except an HTTP/0.9 request, which gets only a document,
\* and one whose peer is gone.
OneAnswer == \A c \in Conns : AnsweredOnce(conn[c])

Readable(k) ==
  k.body > 0 => /\ k.req.url = "path"
                /\ k.source = "file" => Files[k.path].readable
                /\ k.source = "virtual" => VirtualFiles[k.path].readable

\* No document leaves the server for a url that climbs out of the root directory, for an
\* unreadable file or for a missing one, with an answer that says it did.
OnlyReadableServed == \A c \in Conns : Readable(conn[c])

SoapFits(k) ==
  /\ k.asked <= 1
  /\ k.asked = 1 => /\ k.req.path \in DOMAIN Services
                    /\ k.req.header.name = k.req.body.name /\ k.req.header.urn = k.req.body.urn
  /\ Served(k) /\ k.req.method \in SoapMethods /\ k.req.code = 0 =>
       /\ HeadOf(k).code = 200 <=> k.asked = 1 /\ k.verdict.result /\ k.verdict.ErrCode = 0
       /\ k.asked = 1 /\ k.source = "action" /\ k.verdict.ErrCode # 0 /\ k.verdict.ErrStr =>
            k.error = k.verdict.ErrCode

\* A control point is told that its action succeeded exactly when the application was
\* asked once and left a result and no error, and gets the error that it named with a
\* text.  The application is only asked for what header, body and path agree on.
SoapAnswersFit == \A c \in Conns : SoapFits(conn[c])

AnswersFit == BodyFitsHead /\ OneAnswer /\ OnlyReadableServed /\ SoapAnswersFit

\* Every accepted connection is closed in the end, whatever its request, however its
\* handling fails (handle_request reaches sock_destroy on every path) and however silent
\* its peer is, except one whose peer keeps the thread for ever in a wait that has no
\* timeout.
ConnectionsEnd ==
  \A c \in Conns : (conn[c].pc # "idle" ~> (conn[c].pc = "done" \/ crashed)) \/ <>[]WaitsForPeer(c)
=============================================================================
