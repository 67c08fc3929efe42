----------------------------- MODULE WebServer -----------------------------
(***************************************************************************)
(* The web server of the library (genlib/net/http/webserver.c) and the     *)
(* part of http_SendMessage that serves its documents: files below a root  *)
(* directory, files of virtual directories that the application provides,  *)
(* and the alias, one document that the library publishes from memory (the *)
(* description of a device).                                               *)
(*                                                                         *)
(* Any number of requests are handled at once, each on a thread of its own,*)
(* while the application publishes, withdraws and configures.  Only the    *)
(* alias has a lock and a reference count.                                 *)
(***************************************************************************)
EXTENDS Integers, Sequences, FiniteSets, SequencesExt

CONSTANTS
  Conns,              \* connections, each with one request
  Requests,           \* connection |-> what may arrive on it
  Files,              \* path |-> what stat and fopen say of a file
  VirtualFiles,       \* path |-> what get_info of the application says
  AliasName, AliasLength,
  MaxDocs,            \* documents published in a behaviour
  Calls, MaxCalls,    \* what the application calls, and how often at most
  MaxConfig,          \* how many of its calls change the configuration
  AddDirs, RemoveDirs,  \* the virtual directories it adds and removes
  WEB_SERVER_BUF_SIZE

ASSUME BoundsAssumption ==
  /\ IsFiniteSet(Conns)
  /\ MaxDocs \in Nat /\ MaxCalls \in Nat /\ MaxConfig \in Nat /\ AliasLength \in Nat
  /\ WEB_SERVER_BUF_SIZE \in Nat \ {0}

VARIABLES
  webServerEnabled,   \* bWebServerState
  gGetCallback,       \* whether requests for documents are dispatched at all
  gDocumentRootDir,   \* whether a root directory is set
  pVirtualDirList,    \* [dirs, freed]: the names, and whether its head is freed memory
  gAliasDoc,          \* the published document, 0 for none
  docs,               \* document |-> its count and whether its memory is still there
  withdrawn,          \* document |-> how often its owner has given it up
  app,                \* the call the application is in
  calls, configs,     \* calls made so far, and calls of UpnpEnableWebserver and the like
  conn,               \* connection |-> its request and how far it is
  crashed             \* an assertion failed or freed memory was used

cfgVars == <<webServerEnabled, gGetCallback, gDocumentRootDir, pVirtualDirList>>
aliasVars == <<gAliasDoc, docs, withdrawn>>
appVars == <<app, calls, configs>>
webVars == <<cfgVars, aliasVars, appVars, conn, crashed>>

NoDoc == 0
NoRange == <<>>
UPNP_USING_CHUNKED == -3

\* What a response promises: its code, CONTENT-LENGTH (-1 for none), whether it says
\* that its body comes in chunks, and <<first, last, total>> of CONTENT-RANGE.
ResponseHead(code, length, chunked, range) ==
  [code |-> code, length |-> length, chunked |-> chunked, range |-> range]

NoHead == ResponseHead(0, -1, FALSE, NoRange)

\* http_SendStatusResponse: a page of its own with its length.
StatusHead(code) == ResponseHead(code, 1, FALSE, NoRange)

NoInstr == [virtual |-> FALSE, chunk |-> FALSE, range |-> FALSE, offset |-> 0, size |-> 0]

\* What the application left of a SOAP request: an error, a text for it, a result.
NoVerdict == [ErrCode |-> 0, ErrStr |-> FALSE, result |-> FALSE]

\* A connection: where its thread is, the alias reference it holds, the document that it
\* sends and what it has sent.
NoConn == [pc |-> "idle", req |-> [method |-> "NONE"], alias |-> NoDoc, source |-> "none",
           path |-> "none", instr |-> NoInstr, head |-> NoHead, heads |-> <<>>, body |-> 0,
           left |-> 0, lastChunk |-> FALSE, cut |-> FALSE, asked |-> 0, verdict |-> NoVerdict, error |-> 0]

(***************************************************************************)
(* The alias.                                                              *)
(***************************************************************************)
is_valid_alias(d) == d # NoDoc

Live(d) == docs[d].state = "live"
Usable(d) == IF is_valid_alias(d) THEN Live(d) ELSE TRUE

alias_releaseEarly(ds, d) ==      \* mutant: freed with a reference left
  IF ~is_valid_alias(d) THEN ds
  ELSE [ds EXCEPT ![d] = [ct |-> @.ct - 1, state |-> IF @.ct <= 2 THEN "freed" ELSE @.state]]

\* A reference is given back under the lock; the memory goes with the last one.
alias_release(ds, d) ==
  IF ~is_valid_alias(d) THEN ds
  ELSE [ds EXCEPT ![d] = [ct |-> @.ct - 1, state |-> IF @.ct <= 1 THEN "freed" ELSE @.state]]

\* The server's copy may outlive its document: a release through it is then the use of
\* freed memory (and fails the assertion that the count is positive).
Published == is_valid_alias(gAliasDoc) /\ Live(gAliasDoc)
Dangling == ~Usable(gAliasDoc)

Crash == crashed' = TRUE /\ UNCHANGED <<cfgVars, aliasVars, appVars, conn>>

\* alias_release(&gAliasDoc): the server's copy becomes empty only when the count reached
\* zero, else it still points to the document.
ReleaseGlobal ==
  /\ docs' = alias_release(docs, gAliasDoc)
  /\ gAliasDoc' = IF is_valid_alias(gAliasDoc) /\ docs'[gAliasDoc].state = "freed" THEN NoDoc ELSE gAliasDoc
  /\ withdrawn' = IF is_valid_alias(gAliasDoc) THEN [withdrawn EXCEPT ![gAliasDoc] = @ + 1] ELSE withdrawn

AppCall(op) == app = "idle" /\ op \in Calls /\ calls < MaxCalls
Counted(config) == calls' = calls + 1 /\ configs' = configs + config
Configures == configs < MaxConfig /\ Counted(1)

Fresh == {d \in DOMAIN docs : docs[d].state = "none"}

\* web_server_set_alias: the old document is given up in one locked section ...
web_server_set_alias ==
  /\ AppCall("publish") /\ Fresh # {} /\ ~Dangling
  /\ ReleaseGlobal
  /\ app' = "publish" /\ Counted(0)
  /\ UNCHANGED <<cfgVars, conn, crashed>>

\* ... and the new one takes its place in another.
PublishAlias ==
  LET d == CHOOSE n \in Fresh : TRUE
  IN /\ app = "publish"
     /\ docs' = [docs EXCEPT ![d] = [ct |-> 1, state |-> "live"]]
     /\ gAliasDoc' = d
     /\ app' = "idle"
     /\ UNCHANGED <<cfgVars, withdrawn, calls, configs, conn, crashed>>

\* Without a new document the call returns behind the release.
WithdrawAlias ==
  /\ AppCall("withdraw") /\ ~Dangling
  /\ ReleaseGlobal
  /\ Counted(0)
  /\ UNCHANGED <<cfgVars, app, conn, crashed>>

\* A call that releases the alias when it is gone already, after it was withdrawn.
ReleaseOfFreed ==
  /\ Dangling
  /\ AppCall("publish") \/ AppCall("disable")
  /\ webServerEnabled
  /\ Crash

(***************************************************************************)
(* Configuration.                                                          *)
(***************************************************************************)
web_server_init ==
  /\ AppCall("enable") /\ ~webServerEnabled
  /\ webServerEnabled' = TRUE /\ gGetCallback' = TRUE
  /\ gDocumentRootDir' = FALSE /\ gAliasDoc' = NoDoc
  /\ pVirtualDirList' = [dirs |-> <<>>, freed |-> FALSE]
  /\ Configures
  /\ UNCHANGED <<docs, withdrawn, app, conn, crashed>>

\* The alias is released, then forgotten in a section of its own; the callback goes last.
web_server_destroy ==
  /\ AppCall("disable") /\ webServerEnabled /\ ~Dangling
  /\ ReleaseGlobal
  /\ gDocumentRootDir' = FALSE
  /\ app' = "destroy" /\ Configures
  /\ UNCHANGED <<webServerEnabled, gGetCallback, pVirtualDirList, conn, crashed>>

DisableWebserver ==
  /\ app = "destroy"
  /\ gAliasDoc' = NoDoc /\ webServerEnabled' = FALSE /\ gGetCallback' = FALSE
  /\ app' = "idle"
  /\ UNCHANGED <<gDocumentRootDir, pVirtualDirList, docs, withdrawn, calls, configs, conn, crashed>>

web_server_set_root_dir ==
  /\ AppCall("root")
  /\ gDocumentRootDir' = TRUE
  /\ Configures
  /\ UNCHANGED <<webServerEnabled, gGetCallback, pVirtualDirList, aliasVars, app, conn, crashed>>

SetVirtualDirs(list) ==
  /\ app = "idle" /\ calls < MaxCalls
  /\ pVirtualDirList' = list
  /\ Configures
  /\ UNCHANGED <<webServerEnabled, gGetCallback, gDocumentRootDir, aliasVars, app, conn, crashed>>

UpnpAddVirtualDir ==
  \E dir \in AddDirs :
    SetVirtualDirs(IF Contains(pVirtualDirList.dirs, dir) THEN pVirtualDirList
                   ELSE [pVirtualDirList EXCEPT !.dirs = Append(@, dir)])

\* Taken out from behind another one or as the only one.  The first of several is freed
\* and stays the head of the list.
UpnpRemoveVirtualDir ==
  LET dirs == pVirtualDirList.dirs
  IN \E dir \in RemoveDirs :
       SetVirtualDirs(IF Len(dirs) > 1 /\ dirs[1] = dir
                      THEN [pVirtualDirList EXCEPT !.freed = TRUE]
                      ELSE [pVirtualDirList EXCEPT !.dirs = Remove(@, dir)])

UpnpRemoveAllVirtualDirs ==
  "removeAll" \in Calls /\ SetVirtualDirs([dirs |-> <<>>, freed |-> FALSE])

(***************************************************************************)
(* process_request: which document, and the head of the response.          *)
(***************************************************************************)
\* isFileInVirtualDir: whether a directory of the list leads to the file.
isFileInVirtualDir(req) == Contains(pVirtualDirList.dirs, req.dir)

\* GetNextRange: "3-5" is (3, 5), "3-" is (3, -1), "-2" is (-1, 2).  Only the first of
\* several ranges is looked at.
RangePlan(code, first, size, header) == [code |-> code, offset |-> first, size |-> size, header |-> header]

CreateHTTPRangeResponseHeader(r, length) ==
  LET last == IF r.last >= length THEN length - 1 ELSE r.last
      refused == RangePlan(416, 0, length, NoRange)
  IN CASE r.kind = "malformed" -> RangePlan(400, 0, length, NoRange)
       [] r.kind = "nodash" -> refused
       [] r.kind = "bytes" /\ (length < 0 \/ length < r.first) -> refused
       [] r.kind = "bytes" /\ length >= 0 /\ 0 <= r.first /\ r.first <= r.last /\ r.first <= length ->
            RangePlan(200, r.first, last - r.first + 1, <<r.first, last, length>>)
       [] r.kind = "bytes" /\ 0 <= r.first /\ r.last = -1 /\ r.first < length ->
            RangePlan(200, r.first, length - r.first, <<r.first, length - 1, length>>)
       [] r.kind = "bytes" /\ r.first = -1 /\ r.last > 0 /\ r.last >= length /\ length >= 0 ->
            RangePlan(200, 0, length, <<0, length - 1, length>>)
       [] r.kind = "bytes" /\ r.first = -1 /\ r.last > 0 /\ r.last < length ->
            RangePlan(200, length - r.last, r.last, <<length - r.last + 1, length, length>>)
       [] OTHER -> refused

\* CheckOtherHTTPHeaders: TE asks for chunks, RANGE for a part of the document.
CheckOtherHTTPHeaders(req, virtual, length) ==
  LET whole == [virtual |-> virtual, chunk |-> req.te, range |-> FALSE, offset |-> 0, size |-> length]
      r == CreateHTTPRangeResponseHeader(req.range, length)
  IN IF req.range.kind = "none" THEN [code |-> 200, instr |-> whole, header |-> NoRange]
     ELSE [code |-> r.code, header |-> r.header,
           instr |-> [whole EXCEPT !.range = TRUE, !.offset = r.offset, !.size = r.size]]

\* The document behind a path; a directory stands for its index.html.
Lookup(table, path) ==
  LET info == IF path \in DOMAIN table THEN table[path] ELSE [kind |-> "none"]
      index == IF info.kind = "dir" /\ info.index \in DOMAIN table
               THEN table[info.index] ELSE [kind |-> "none"]
      file == IF info.kind = "dir" THEN index ELSE info
  IN CASE file.kind # "file" -> [code |-> 404]
       [] file.kind = "file" /\ ~file.readable -> [code |-> 403]
       [] OTHER -> [code |-> 200, length |-> file.length,
                    path |-> IF info.kind = "dir" THEN info.index ELSE path]

HeadFor(req, checked, length) ==
  LET i == checked.instr
  IN CASE i.range /\ i.chunk -> ResponseHead(206, -1, TRUE, checked.header)
       [] i.range /\ ~i.chunk -> ResponseHead(206, i.size, FALSE, checked.header)
       [] ~i.range /\ i.chunk -> ResponseHead(200, -1, TRUE, NoRange)
       [] OTHER -> ResponseHead(200, IF i.size >= 0 THEN i.size ELSE -1, FALSE, NoRange)

\* The rest of process_request once the source of the document is known.  "garbage" is the
\* length that a POST does not look up.
Prepared(req, source, garbage) ==
  LET file == CASE source = "alias" -> [code |-> 200, length |-> AliasLength, path |-> "none"]
                [] source = "virtual" /\ req.method # "POST" -> Lookup(VirtualFiles, req.path)
                [] source = "file" /\ ~gDocumentRootDir -> [code |-> 500]
                [] source = "file" /\ gDocumentRootDir /\ req.method # "POST" -> Lookup(Files, req.path)
                [] OTHER -> [code |-> 200, length |-> garbage, path |-> req.path]
      virtual == source = "virtual"
      checked == CheckOtherHTTPHeaders(req, virtual, file.length)
      unknown == virtual /\ file.length = UPNP_USING_CHUNKED
      final == IF unknown THEN [checked EXCEPT !.instr.chunk = TRUE] ELSE checked
  IN CASE file.code # 200 -> file
       [] file.code = 200 /\ checked.code # 200 -> [code |-> checked.code]
       [] file.code = 200 /\ checked.code = 200 /\ req.method = "POST" ->
            [code |-> 200, pc |-> "post", instr |-> NoInstr, head |-> NoHead, path |-> file.path]
       [] file.code = 200 /\ checked.code = 200 /\ req.method # "POST" /\ unknown /\ req.old ->
            [code |-> 406]
       [] OTHER ->
            [code |-> 200, pc |-> "head", instr |-> final.instr, path |-> file.path,
             head |-> IF req.method = "SIMPLEGET" THEN NoHead ELSE HeadFor(req, final, file.length)]

(***************************************************************************)
(* web_server_callback, step by step.                                      *)
(***************************************************************************)
Moves(c, new) == conn' = [conn EXCEPT ![c] = new]
Quiet == UNCHANGED <<cfgVars, appVars>>

\* What a status response or a head without a body looks like; the peer may be gone.
Answered(k, head, ok) ==
  [k EXCEPT !.heads = IF ok /\ head # NoHead THEN Append(@, head) ELSE @, !.cut = @ \/ ~ok]

AtStart(c, pc) == ~crashed /\ conn[c].pc = pc

\* The url is cleaned, then looked for in the virtual directories; whether there is an
\* alias is read without the lock.
WebChoosesSource(c) ==
  LET k == conn[c]
      refuse(code) == \E ok \in BOOLEAN : Moves(c, [Answered(k, StatusHead(code), ok) EXCEPT !.pc = "close"])
  IN /\ AtStart(c, "web") /\ ~pVirtualDirList.freed
     /\ CASE k.req.url = "escapes" -> refuse(403)
          [] k.req.url = "relative" -> refuse(400)
          [] OTHER -> Moves(c, IF isFileInVirtualDir(k.req)
                               THEN [k EXCEPT !.pc = "look", !.source = "virtual"]
                               ELSE IF is_valid_alias(gAliasDoc) THEN [k EXCEPT !.pc = "grab"]
                               ELSE [k EXCEPT !.pc = "look", !.source = "file"])
     /\ Quiet /\ UNCHANGED <<aliasVars, crashed>>

\* A copy of the alias with a reference of its own, also for a request that turns out to
\* want another document.
alias_grab(c) ==
  LET k == conn[c]
  IN /\ AtStart(c, "grab") /\ Published
     /\ docs' = [docs EXCEPT ![gAliasDoc].ct = @ + 1]
     /\ Moves(c, [k EXCEPT !.pc = "look", !.alias = gAliasDoc,
                           !.source = IF k.req.path = AliasName THEN "alias" ELSE "file"])
     /\ Quiet /\ UNCHANGED <<gAliasDoc, withdrawn, crashed>>

\* The assertion in alias_grab fails, or freed memory is read: through the server's copy,
\* the reader's copy or the head of the list of virtual directories.
RequestCrashes(c) ==
  /\ \/ AtStart(c, "grab") /\ ~Published
     \/ conn[c].pc \in {"doc", "release"} /\ ~crashed /\ ~Live(conn[c].alias)
     \/ AtStart(c, "look") /\ ~Usable(conn[c].alias)
          /\ Prepared(conn[c].req, conn[c].source, AliasLength).code # 200
     \/ AtStart(c, "web") /\ pVirtualDirList.freed
  /\ Crash

WebPrepares(c) ==
  LET k == conn[c]
  IN /\ AtStart(c, "look")
     /\ \E garbage \in {-1, AliasLength}, ok \in BOOLEAN :
          LET p == Prepared(k.req, k.source, garbage)
          IN IF p.code # 200
             THEN /\ Usable(k.alias)
                  /\ docs' = alias_release(docs, k.alias)
                  /\ Moves(c, [Answered(k, StatusHead(p.code), ok) EXCEPT !.pc = "close", !.alias = NoDoc])
             ELSE /\ ok
                  /\ docs' = docs
                  /\ Moves(c, [k EXCEPT !.pc = p.pc, !.instr = p.instr, !.path = p.path, !.head = p.head,
                                        !.left = IF p.instr.size >= 0 THEN p.instr.size
                                                 ELSE WEB_SERVER_BUF_SIZE])
     /\ Quiet /\ UNCHANGED <<gAliasDoc, withdrawn, crashed>>

\* The head goes out first; nothing follows it for HEAD, or when it could not be sent.
WebSendsHead(c) ==
  LET k == conn[c]
  IN /\ AtStart(c, "head")
     /\ \E ok \in IF k.head = NoHead THEN {TRUE} ELSE BOOLEAN :
          Moves(c, [Answered(k, k.head, ok) EXCEPT
                      !.pc = CASE k.req.method = "HEAD" -> "close"
                               [] k.req.method # "HEAD" /\ k.source = "alias" -> IF ok THEN "doc" ELSE "release"
                               [] OTHER -> IF ok THEN "file" ELSE "close"])
     /\ Quiet /\ UNCHANGED <<aliasVars, crashed>>

\* RESP_XMLDOC: the whole document, whatever range or framing the head speaks of.
WebSendsAlias(c) ==
  /\ AtStart(c, "doc") /\ Live(conn[c].alias)
  /\ \E ok \in BOOLEAN :
       Moves(c, [conn[c] EXCEPT !.pc = "release", !.body = IF ok THEN AliasLength ELSE @, !.cut = ~ok])
  /\ Quiet /\ UNCHANGED <<aliasVars, crashed>>

WebReleasesAlias(c) ==
  /\ AtStart(c, "release") /\ Live(conn[c].alias)
  /\ docs' = alias_release(docs, conn[c].alias)
  /\ Moves(c, [conn[c] EXCEPT !.pc = "close", !.alias = NoDoc])
  /\ Quiet /\ UNCHANGED <<gAliasDoc, withdrawn, crashed>>

Least(a, b) == IF a <= b THEN a ELSE b

\* What is left of the document from the offset on: nothing behind its end.
Available(k) ==
  LET info == IF k.source = "virtual" THEN VirtualFiles[k.path] ELSE Files[k.path]
      rest == info.bytes - k.instr.offset - k.body
  IN IF rest > 0 THEN rest ELSE 0

\* One turn of the loop that reads a piece and sends it.  A file is read as far as asked,
\* unless it has been cut short since its length was looked up; the application may hand
\* over less, but something while there is something.
WebSendsPiece(c) ==
  LET k == conn[c]
      i == k.instr
      buf == IF i.size >= 0 THEN Least(i.size, WEB_SERVER_BUF_SIZE) ELSE WEB_SERVER_BUF_SIZE
      most == Least(Least(k.left, buf), Available(k))
  IN /\ AtStart(c, "file")
     /\ \/ k.left = 0 /\ Moves(c, [k EXCEPT !.pc = "close"])
        \/ k.left # 0 /\ \E n \in IF i.virtual /\ most > 0 THEN 1..most ELSE {0, most}, ok \in BOOLEAN :
             \/ n = 0 /\ Moves(c, [k EXCEPT !.pc = "close", !.lastChunk = i.chunk /\ ok, !.cut = ~(i.chunk /\ ok)])
             \/ n # 0 /\ ok /\ Moves(c, [k EXCEPT !.body = @ + n, !.left = IF i.size < 0 THEN buf ELSE k.left - n])
             \/ n # 0 /\ ~ok /\ Moves(c, [k EXCEPT !.pc = "close", !.cut = TRUE])
     /\ Quiet /\ UNCHANGED <<aliasVars, crashed>>

\* http_RecvPostMessage: the body goes into the file, and the answer says how that went.
PostOpens(req, source) == source # "alias" /\ req.post # "unopened"

http_RecvPostMessage(req, source) ==
  CASE ~PostOpens(req, source) -> IF source = "virtual" THEN 500 ELSE 401
    [] PostOpens(req, source) /\ req.post = "full" -> 500
    [] PostOpens(req, source) /\ req.post = "bad" -> 400
    [] OTHER -> 200

\* The body is read without a timeout: a silent peer keeps the thread here (see
\* WaitsForPeer), one that closes early is told so, and the negative result of a read
\* from a broken connection becomes the status code as it is.
Broken == -1
PostCodes(k) ==
  {http_RecvPostMessage(k.req, k.source)} \cup IF PostOpens(k.req, k.source) THEN {400, Broken} ELSE {}

WebReceivesPost(c) ==
  LET k == conn[c]
  IN /\ AtStart(c, "post")
     /\ \E code \in PostCodes(k), ok \in BOOLEAN :
          Moves(c, [Answered(k, ResponseHead(code, -1, FALSE, NoRange), ok) EXCEPT !.pc = "close"])
     /\ Quiet /\ UNCHANGED <<aliasVars, crashed>>

WebStep(c) ==
  \/ WebChoosesSource(c) \/ alias_grab(c) \/ WebPrepares(c) \/ WebSendsHead(c)
  \/ WebSendsAlias(c) \/ WebReleasesAlias(c) \/ WebSendsPiece(c) \/ WebReceivesPost(c)

AppStep ==
  /\ ~crashed
  /\ \/ web_server_init \/ web_server_destroy \/ DisableWebserver \/ web_server_set_root_dir
     \/ UpnpAddVirtualDir \/ UpnpRemoveVirtualDir \/ UpnpRemoveAllVirtualDirs \/ ReleaseOfFreed
=============================================================================
