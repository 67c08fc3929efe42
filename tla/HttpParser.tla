----------------------------- MODULE HttpParser -----------------------------
(***************************************************************************)
(* The incremental HTTP parser (genlib/net/http/httpparser.c): the scanner *)
(* that cuts the bytes received so far into tokens, the format matcher     *)
(* built on it and the parser that consumes a message in as many pieces as *)
(* the network delivers.                                                   *)
(*                                                                         *)
(* A buffer is a sequence of units.  A unit is a run of bytes of one class *)
(* that always arrives together: a word, half a word, a blank, one byte of *)
(* a body.  Two neighbouring units of a word belong to one token, as in    *)
(* the code, so a message can be cut inside a token by cutting between     *)
(* them.  Offsets, lengths and cursors count units.                        *)
(***************************************************************************)
EXTENDS Integers, Sequences, SequencesExt

CONSTANT UIntMax   \* the largest value of an unsigned int (content_length)

ASSUME UIntMaxAssumption == UIntMax \in Nat \ {0}

CR == "<cr>"
LF == "<lf>"
NUL == "<nul>"
QUOTE == "<quote>"
HIGH == "<high>"      \* a byte above 127, as in a name spelt in UTF-8

Class(u) ==
  CASE u = " "               -> "WHITESPACE"
    [] u = CR                -> "CR"
    [] u = LF                -> "LF"
    [] u = QUOTE             -> "QUOTE"
    [] u \in {":", "/", ";"} -> "SEPARATOR"
    [] u = NUL               -> "CTRL"
    [] u = HIGH              -> "NONE"
    [] OTHER                 -> "IDENTIFIER"

DigitValue == [d \in {"0", "1", "2", "3", "4", "200", "204", "404", "405", "500"} |->
                 CASE d = "0" -> 0 [] d = "1" -> 1 [] d = "2" -> 2 [] d = "3" -> 3
                   [] d = "4" -> 4 [] d = "200" -> 200 [] d = "204" -> 204
                   [] d = "404" -> 404 [] d = "405" -> 405 [] OTHER -> 500]

VersionValue == [v \in {"0.9", "1.0", "1.1", "2.0"} |->
                   CASE v = "0.9" -> <<0, 9>> [] v = "1.0" -> <<1, 0>>
                     [] v = "1.1" -> <<1, 1>> [] OTHER -> <<2, 0>>]

\* The text of a token: its units put together (tables compare whole words).
Text(units) == FoldLeft(LAMBDA a, u : a \o u, "", units)

Methods == {"GET", "HEAD", "M-POST", "M-SEARCH", "NOTIFY", "POST", "SUBSCRIBE",
            "UNSUBSCRIBE"}

(***************************************************************************)
(* The scanner.                                                            *)
(***************************************************************************)
\* Where the run of one class that the unit at c belongs to ends.
RunEnd(b, c) == Min({j \in c..Len(b) : j = Len(b) \/ Class(b[j + 1]) # Class(b[c])})

Tok(status, type, b, c, n) ==
  [status |-> status, type |-> type, text |-> SubSeq(b, c + 1, c + n), next |-> c + n]

\* The scanner stands at the offset c of the buffer b.
scanner_get_token(b, c) ==
  LET left == Len(b) - c
      k == Class(b[c + 1])
      n == RunEnd(b, c + 1) - c
      ends == {q \in 2..left : Class(b[c + q]) = "QUOTE"}
      none(status) == Tok(status, "NONE", b, c, 0)
  IN CASE left = 0 -> none("INCOMPLETE")
       [] left > 0 /\ k \in {"IDENTIFIER", "WHITESPACE"} ->
            IF n = left THEN none("INCOMPLETE") ELSE Tok("OK", k, b, c, n)
       [] left > 0 /\ k = "CR" ->
            IF left = 1 THEN none("INCOMPLETE")
            ELSE IF b[c + 2] = LF THEN Tok("OK", "CRLF", b, c, 2)
            ELSE Tok("OK", "CTRL", b, c, 1)
       [] left > 0 /\ k = "LF" -> Tok("OK", "CRLF", b, c, 1)
       [] left > 0 /\ k = "QUOTE" ->
            IF ends = {} THEN none("INCOMPLETE")
            ELSE Tok("OK", "QUOTEDSTRING", b, c, Min(ends))
       [] left > 0 /\ k \in {"SEPARATOR", "CTRL"} -> Tok("OK", k, b, c, 1)
       [] OTHER -> none("FAILURE")

\* Tokens are skipped up to the first one of a type in "stops": where it starts,
\* or the status that ended the search.
StopAt(from, i, t, stops) ==
  IF t.status # "OK" \/ t.type \in stops THEN [status |-> t.status, at |-> i, token |-> t]
  ELSE from[t.next]
TokensUntil(b, c, stops) ==
  LET from[i \in 0..Len(b)] == StopAt(from, i, scanner_get_token(b, i), stops)
  IN from[c]

AllTypes == {"IDENTIFIER", "WHITESPACE", "CRLF", "CTRL", "SEPARATOR", "QUOTEDSTRING"}
NotBlank == AllTypes \ {"WHITESPACE", "CRLF"}

\* Linear white space: blanks, and line ends that a blank follows.
Behind(b, t) == IF t.status = "OK" /\ t.type = "CRLF" THEN scanner_get_token(b, t.next) ELSE t
PassBlank(over, i, t) ==
  IF t.status = "OK" /\ t.type = "WHITESPACE" THEN over[t.next]
  ELSE [status |-> t.status, at |-> i]
skip_lws(b, c) ==
  LET over[i \in 0..Len(b)] == PassBlank(over, i, Behind(b, scanner_get_token(b, i)))
  IN over[c]

TrimRight(s) == SubSeq(s, 1, Max({0} \cup {i \in DOMAIN s : s[i] \notin {" ", CR, LF}}))

\* A header's value ends at the line end that no blank follows.
EndAt(end, u, t) ==
  CASE u.status # "OK" -> [status |-> u.status, at |-> 0]
    [] u.status = "OK" /\ t.status # "OK" -> [status |-> t.status, at |-> 0]
    [] u.status = "OK" /\ t.status = "OK" /\ t.type = "WHITESPACE" -> end[t.next]
    [] OTHER -> [status |-> "OK", at |-> u.at]
LineEnd(end, b, u) == EndAt(end, u, scanner_get_token(b, u.token.next))
RawEnd(b, c) ==
  LET end[i \in 0..Len(b)] == LineEnd(end, b, TokensUntil(b, i, {"CRLF"}))
  IN end[c]

(***************************************************************************)
(* vfmatch: the directives of a format, one after the other, from the      *)
(* offset c of the buffer b on.  A match that does not succeed puts the    *)
(* cursor back where it began.                                             *)
(***************************************************************************)
Stop(m, status) == [m EXCEPT !.status = status]
Advance(at, out) == [status |-> "OK", at |-> at, out |-> out]
Take(m, t, type, out) ==
  CASE t.status # "OK" -> Stop(m, t.status)
    [] t.status = "OK" /\ t.type # type -> Stop(m, "NO_MATCH")
    [] OTHER -> Advance(t.next, out)
TakeUpTo(b, m, u, least) ==
  CASE u.status # "OK" -> Stop(m, u.status)
    [] u.status = "OK" /\ u.at - m.at < least -> Stop(m, "NO_MATCH")
    [] OTHER -> Advance(u.at, Append(m.out, SubSeq(b, m.at + 1, u.at)))
TakeRaw(b, m, u) ==
  IF u.status # "OK" THEN Stop(m, u.status)
  ELSE Advance(u.at, Append(m.out, TrimRight(SubSeq(b, m.at + 1, u.at))))
TakeBlanks(m, s) == IF s.status # "OK" THEN Stop(m, s.status) ELSE Advance(s.at, m.out)
TakeLiteral(b, m, d) ==
  CASE m.at = Len(b) -> Stop(m, "INCOMPLETE")
    [] m.at < Len(b) /\ b[m.at + 1] # d -> Stop(m, "NO_MATCH")
    [] OTHER -> Advance(m.at + 1, m.out)

\* With t, the next token, which most directives look at.
Directed(b, m, d, t) ==
  CASE d = "%s" -> Take(m, t, "IDENTIFIER", Append(m.out, t.text))
    [] d = "%c" -> Take(m, t, "CRLF", m.out)
    [] d = "\t" -> Take(m, t, "WHITESPACE", m.out)
    [] d = "%w" -> IF t.status = "OK" /\ t.type # "WHITESPACE" THEN m
                   ELSE Take(m, t, "WHITESPACE", m.out)
    [] d = "%S" -> TakeUpTo(b, m, TokensUntil(b, m.at, {"WHITESPACE", "CRLF"}), 1)
    [] d = "%L" -> TakeUpTo(b, m, TokensUntil(b, m.at, {"CRLF"}), 0)
    [] d = "%R" -> TakeRaw(b, m, RawEnd(b, m.at))
    [] d = "%x" -> IF t.status = "OK" /\ Text(t.text) \notin DOMAIN DigitValue
                   THEN Stop(m, "NO_MATCH")
                   ELSE Take(m, t, "IDENTIFIER", Append(m.out, DigitValue[Text(t.text)]))
    [] d = " " -> TakeBlanks(m, skip_lws(b, m.at))
    [] OTHER -> TakeLiteral(b, m, d)

Directive(b, m, d) ==
  IF m.status # "OK" THEN m ELSE Directed(b, m, d, scanner_get_token(b, m.at))

\* All the directives of a format.
Matched(b, c, format) ==
  LET m[i \in 0..Len(format)] ==
        IF i = 0 THEN Advance(c, <<>>) ELSE Directive(b, m[i - 1], format[i])
  IN m[Len(format)]

vfmatchKeepsCursor(b, c, format) == Matched(b, c, format)   \* mutant: a failed match eats what it matched

Restored(m, c) == IF m.status = "OK" THEN m ELSE [m EXCEPT !.at = c]
vfmatch(b, c, format) == Restored(Matched(b, c, format), c)

(***************************************************************************)
(* The parser's record.  Every step returns its status and the record.     *)
(***************************************************************************)
parser_init(is_request, request_method) ==
  [position |-> IF is_request THEN "REQUEST_LINE" ELSE "RESPONSE_LINE",
   ent_position |-> "DETERMINE_READ_METHOD",
   msg |-> <<>>, cursor |-> 0, entity_start_position |-> 0,
   content_length |-> 0, chunk_size |-> 0, entity_length |-> 0, amount_discarded |-> 0,
   is_request |-> is_request, request_method |-> request_method,
   method |-> "NONE", version |-> <<0, 0>>, status_code |-> 0, url |-> <<>>,
   headers |-> <<>>, http_error_code |-> 400, valid_ssdp_notify_hack |-> FALSE]

parser_request_init == parser_init(TRUE, "NONE")
parser_response_init(method) == parser_init(FALSE, method)

R(status, p) == [status |-> status, p |-> p]
Fail(p, code) == R("FAILURE", [p EXCEPT !.http_error_code = code])

\* The parser with its scanner where a match ended.
At(p, m) == [p EXCEPT !.cursor = m.at]

\* Blank lines are passed for good, even when what follows has not arrived.
BlanksPassed(p, u) == R(u.status, At(p, u))
skip_blank_lines(p) == BlanksPassed(p, TokensUntil(p.msg, p.cursor, NotBlank))

\* membuffer_delete of n units that start at offset "at"
Deleted(b, at, n) == SubSeq(b, 1, at) \o SubSeq(b, at + n + 1, Len(b))

httpmsg_find_hdr(p, name) == {i \in DOMAIN p.headers : p.headers[i].name = name}
HeaderValue(p, name) == p.headers[Min(httpmsg_find_hdr(p, name))].value

\* The whole value has to be a number; anything else is -1.
raw_to_int(value) ==
  IF Text(value) \in DOMAIN DigitValue THEN DigitValue[Text(value)] ELSE -1

\* A line with only a GET and a url is an HTTP/0.9 request; any other is matched
\* against the full format.
SimpleRequest(p, m, word) ==
  CASE word \notin Methods -> Fail(At(p, m), 501)
    [] word \in Methods \ {"GET"} -> Fail(At(p, m), 400)
    [] OTHER -> R("SUCCESS", [At(p, m) EXCEPT !.method = "SIMPLEGET", !.url = m.out[2],
                                              !.position = "COMPLETE"])

WithVersion(p, version) == [p EXCEPT !.version = VersionValue[version]]
FullRequest(p, m) ==
  LET word == Text(m.out[1])
      version == Text(m.out[3])
  IN CASE m.status # "OK" -> R(m.status, At(p, m))
       [] m.status = "OK" /\ version \notin DOMAIN VersionValue -> R("FAILURE", At(p, m))
       [] m.status = "OK" /\ version \in DOMAIN VersionValue /\ word \notin Methods ->
            Fail(WithVersion(At(p, m), version), 501)
       [] OTHER -> R("OK", [WithVersion(At(p, m), version) EXCEPT
                              !.method = word, !.url = m.out[2], !.position = "HEADERS"])

LineMatched(p, simple) ==
  IF simple.status = "OK" THEN SimpleRequest(p, simple, Text(simple.out[1]))
  ELSE FullRequest(p, vfmatch(p.msg, p.cursor, <<"%s", "\t", "%S", "\t", "HTTP", "%w", "/", "%w",
                                                 "%L", "%c">>))

RequestBehind(blank) ==
  IF blank.status # "OK" THEN blank
  ELSE LineMatched(blank.p, vfmatch(blank.p.msg, blank.p.cursor, <<"%s", "\t", "%S", "%w", "%c">>))
parser_parse_requestline(p) == RequestBehind(skip_blank_lines(p))

\* "HTTP/1.1 200 OK": two numbers of a version not below x.1, a code and a blank.
ResponseLine(p, m, line) ==
  CASE m.status # "OK" -> R(m.status, At(p, m))
    [] /\ m.status = "OK"
       /\ Len(line) >= 4 /\ line[1] \in DOMAIN VersionValue
       /\ line[2] = " " /\ line[3] \in DOMAIN DigitValue /\ line[4] = " "
       /\ VersionValue[line[1]][2] >= 1 ->
         R("OK", [At(p, m) EXCEPT !.version = VersionValue[line[1]],
                                  !.status_code = DigitValue[line[3]], !.position = "HEADERS"])
    [] OTHER -> R("FAILURE", At(p, m))
FirstLine(p, m) == ResponseLine(p, m, m.out[1])

ResponseBehind(blank) ==
  IF blank.status # "OK" THEN blank
  ELSE FirstLine(blank.p, vfmatch(blank.p.msg, blank.p.cursor,
                                  <<"HTTP", "%w", "/", "%w", "%L", "%c">>))
parser_parse_responseline(p) == ResponseBehind(skip_blank_lines(p))

\* A header is added at the tail of the list, an empty value as one NUL; the value
\* of a repeated header is appended to the first one's.
AddHeader(p, name, value) ==
  LET same == httpmsg_find_hdr(p, name)
      q == IF name = "SOAPACTION" THEN [p EXCEPT !.method = "SOAP_POST"] ELSE p
  IN IF same = {}
     THEN [q EXCEPT !.headers = Append(@, [name |-> name,
             value |-> IF value = <<>> THEN <<NUL>> ELSE value])]
     ELSE IF value = <<>> THEN q
     ELSE [q EXCEPT !.headers[Min(same)].value = @ \o <<", ">> \o value]

\* With t, the first token of a line, and m, what follows a name.
TakesHeader(p, t, m) ==
  IF m.status # "OK" THEN R(m.status, p)
  ELSE R("CONTINUE", AddHeader(At(p, m), Text(t.text), m.out[1]))

HeadersFrom(p, t) ==
  LET after == [p EXCEPT !.cursor = t.next]
  IN CASE t.status # "OK" -> R(t.status, p)
       [] t.status = "OK" /\ t.type = "CRLF" ->
            IF p.is_request /\ p.method = "POST"
            THEN R("SUCCESS", [after EXCEPT !.position = "COMPLETE"])
            ELSE R("OK", [after EXCEPT !.position = "ENTITY"])
       [] t.status = "OK" /\ t.type = "IDENTIFIER" ->
            TakesHeader(p, t, vfmatch(p.msg, t.next, <<" ", ":", " ", "%R", "%c">>))
       [] OTHER -> R("FAILURE", p)

\* One header after the other: each takes at least a unit, so this many are enough.
NextHeader(r) ==
  IF r.status = "CONTINUE" THEN HeadersFrom(r.p, scanner_get_token(r.p.msg, r.p.cursor)) ELSE r
parser_parse_headers(p) ==
  LET lines[n \in 0..Len(p.msg) + 1] ==
        IF n = 0 THEN R("CONTINUE", p) ELSE NextHeader(lines[n - 1])
  IN lines[Len(p.msg) + 1]

\* No body by the method or the code; else by the transfer encoding, the length, the
\* end of the connection.  A request must have one of the first two.
parser_get_entity_read_method(p0) ==
  LET p == [p0 EXCEPT !.entity_start_position = p0.cursor, !.entity_length = 0]
      bodiless == IF p.is_request
                  THEN p.method \in {"HEAD", "GET", "SUBSCRIBE", "UNSUBSCRIBE", "M-SEARCH"}
                  ELSE \/ p.status_code \in {204, 304} \cup 100..199
                       \/ p.request_method \in {"HEAD", "M-SEARCH", "SUBSCRIBE",
                                                "UNSUBSCRIBE", "NOTIFY"}
      has(name) == httpmsg_find_hdr(p, name) # {}
      length == raw_to_int(HeaderValue(p, "CONTENT-LENGTH"))
  IN CASE bodiless -> R("SUCCESS", [p EXCEPT !.position = "COMPLETE"])
       [] ~bodiless /\ has("TRANSFER-ENCODING") /\ Contains(HeaderValue(p, "TRANSFER-ENCODING"), "chunked") ->
            R("CONTINUE", [p EXCEPT !.ent_position = "USING_CHUNKED"])
       [] ~bodiless /\ has("CONTENT-LENGTH") /\ ~(has("TRANSFER-ENCODING")
              /\ Contains(HeaderValue(p, "TRANSFER-ENCODING"), "chunked")) ->
            R("CONTINUE", [p EXCEPT !.ent_position = "USING_CLEN",
                                    !.content_length = length % (UIntMax + 1)])
       [] OTHER ->
            IF p.is_request
            THEN Fail([p EXCEPT !.valid_ssdp_notify_hack = @ \/ p.method = "NOTIFY"], 411)
            ELSE R("CONTINUE", [p EXCEPT !.ent_position = "UNTIL_CLOSE"])

parser_parse_entity_using_clen(p) ==
  LET length == Len(p.msg) - p.entity_start_position + p.amount_discarded
      after == p.entity_start_position + p.content_length - p.amount_discarded + 1
  IN IF length < p.content_length THEN R("INCOMPLETE", [p EXCEPT !.entity_length = length])
     ELSE R("SUCCESS", [p EXCEPT !.msg = IF length > p.content_length
                                         THEN [@ EXCEPT ![after] = NUL] ELSE @,
                                 !.entity_length = p.content_length,
                                 !.position = "COMPLETE"])

\* The size line is cut out of the buffer, so the chunks' data end up side by side.
SizeLine(p, m) ==
  LET size == m.out[1]
      q == [p EXCEPT !.msg = Deleted(@, p.cursor, m.at - p.cursor), !.chunk_size = size]
  IN CASE m.status # "OK" -> R(m.status, p)
       [] m.status = "OK" /\ size = 0 ->
            R("CONTINUE", [q EXCEPT !.ent_position = "CHUNKY_HEADERS",
                !.entity_length = q.cursor - q.entity_start_position + q.amount_discarded])
       [] OTHER -> R("CONTINUE", [q EXCEPT !.ent_position = "CHUNKY_BODY"])
parser_parse_chunky_entity(p) == SizeLine(p, vfmatch(p.msg, p.cursor, <<"%x", "%L", "%c">>))

ChunkEndKept(p, m) ==      \* mutant: the line end stays in the body
  CASE Len(p.msg) - p.cursor < p.chunk_size -> R("INCOMPLETE", p)
    [] Len(p.msg) - p.cursor >= p.chunk_size /\ m.status # "OK" -> R(m.status, p)
    [] OTHER -> R("CONTINUE", [p EXCEPT !.cursor = m.at, !.entity_length = @ + p.chunk_size,
                                        !.ent_position = "USING_CHUNKED"])

\* With m, the line end that follows the data.
ChunkEnd(p, m) ==
  LET save == p.cursor + p.chunk_size
  IN CASE Len(p.msg) < save -> R("INCOMPLETE", p)
       [] Len(p.msg) >= save /\ m.status # "OK" -> R(m.status, p)
       [] OTHER -> R("CONTINUE", [p EXCEPT !.msg = Deleted(@, save, m.at - save),
                                           !.cursor = save, !.entity_length = @ + p.chunk_size,
                                           !.ent_position = "USING_CHUNKED"])

\* A chunk counts once its data and the line end behind it are there.
parser_parse_chunky_body(p) ==
  ChunkEnd(p, vfmatch(p.msg, p.cursor + p.chunk_size, <<"%c">>))

TrailersCut(p, r) ==
  IF r.status # "OK" THEN r
  ELSE R("SUCCESS", [r.p EXCEPT !.position = "COMPLETE", !.cursor = p.cursor,
                       !.msg = Deleted(@, p.cursor, r.p.cursor - p.cursor)])
parser_parse_chunky_headers(p) == TrailersCut(p, parser_parse_headers(p))

parser_parse_entity_until_close(p) ==
  R("INCOMPLETE_ENTITY", [p EXCEPT !.cursor = Len(p.msg),
      !.entity_length = Len(p.msg) - p.entity_start_position + p.amount_discarded])

EntityFrom(p) ==
  CASE p.ent_position = "USING_CLEN" -> parser_parse_entity_using_clen(p)
    [] p.ent_position = "USING_CHUNKED" -> parser_parse_chunky_entity(p)
    [] p.ent_position = "CHUNKY_BODY" -> parser_parse_chunky_body(p)
    [] p.ent_position = "CHUNKY_HEADERS" -> parser_parse_chunky_headers(p)
    [] p.ent_position = "UNTIL_CLOSE" -> parser_parse_entity_until_close(p)
    [] OTHER -> parser_get_entity_read_method(p)

\* The entity in parts: each but the first takes at least a unit.
NextPart(r) == IF r.status = "CONTINUE" THEN EntityFrom(r.p) ELSE r
parser_parse_entity(p) ==
  LET parts[n \in 0..Len(p.msg) + 2] ==
        IF n = 0 THEN R("CONTINUE", p) ELSE NextPart(parts[n - 1])
  IN parts[Len(p.msg) + 2]

ParseFrom(p) ==
  CASE p.position = "ENTITY" -> parser_parse_entity(p)
    [] p.position = "HEADERS" -> parser_parse_headers(p)
    [] p.position = "REQUEST_LINE" -> parser_parse_requestline(p)
    [] p.position = "RESPONSE_LINE" -> parser_parse_responseline(p)
    [] OTHER -> R("FAILURE", p)

\* The first line, the headers and the entity follow each other.
Then(r) == IF r.status = "OK" THEN ParseFrom(r.p) ELSE r
parser_parse(p) == Then(Then(ParseFrom(p)))

parser_append(p, units) == parser_parse([p EXCEPT !.msg = @ \o units])

\* The bytes of the body that are in the buffer.
Entity(p) ==
  SubSeq(p.msg, p.entity_start_position + 1,
         p.entity_start_position + p.entity_length - p.amount_discarded)
=============================================================================
