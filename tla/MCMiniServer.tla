---------------------------- MODULE MCMiniServer ----------------------------
(* One request of every kind that is handled in a way of its own. *)
EXTENDS MiniServer

CONSTANTS c1, c2

NoBody == [shape |-> "none", urn |-> "none", name |-> "none"]
NoHeader == [kind |-> "none", urn |-> "none", name |-> "none"]
NoRangeAsked == [kind |-> "none"]
Bytes(first, last) == [kind |-> "bytes", first |-> first, last |-> last]

Base == [method |-> "GET", code |-> 0, url |-> "path", path |-> "/f", dir |-> "none", te |-> FALSE,
         old |-> FALSE, range |-> NoRangeAsked, post |-> "whole", xml |-> TRUE, man |-> FALSE,
         header |-> NoHeader, body |-> NoBody]

File(length, readable) == [kind |-> "file", length |-> length, bytes |-> length, readable |-> readable]
MCFiles == ("/f" :> File(3, TRUE)) @@ ("/secret" :> File(1, FALSE)) @@ ("/empty" :> File(0, TRUE))
             @@ ("/d" :> [kind |-> "dir", index |-> "/f"]) @@ ("/e" :> [kind |-> "dir", index |-> "/none"])
MCVirtualFiles ==
  ("/v/f" :> File(3, TRUE))
    @@ ("/v/stream" :> [kind |-> "file", length |-> UPNP_USING_CHUNKED, bytes |-> 3, readable |-> TRUE])

WebRequests ==
  {[Base EXCEPT !.path = p] : p \in {"/alias", "/d", "/e", "/secret", "/none"}}
    \cup {[Base EXCEPT !.range = r] :
            r \in {NoRangeAsked, Bytes(0, 1), Bytes(2, -1), Bytes(-1, 2), Bytes(-1, 9), Bytes(3, 4), Bytes(4, 5),
                   [kind |-> "malformed"], [kind |-> "nodash"]}}
    \cup {[Base EXCEPT !.path = "/empty", !.range = Bytes(0, -1)]}
    \cup {[Base EXCEPT !.method = m] : m \in {"HEAD", "SIMPLEGET"}}
    \cup {[Base EXCEPT !.url = u] : u \in {"escapes", "relative"}}
    \cup {[Base EXCEPT !.te = TRUE, !.range = r] : r \in {NoRangeAsked, Bytes(0, 1)}}
    \cup {[Base EXCEPT !.dir = "/v", !.path = "/v/stream", !.old = o] : o \in BOOLEAN}
    \cup {[Base EXCEPT !.dir = "/v", !.path = "/v/f", !.range = Bytes(1, 2)]}
    \cup {[Base EXCEPT !.method = "POST", !.post = p] : p \in {"whole", "unopened", "full", "bad"}}
    \cup {[Base EXCEPT !.method = "POST", !.path = "/alias"], [Base EXCEPT !.method = "HEAD", !.path = "/alias"],
          [Base EXCEPT !.method = "POST", !.dir = "/v", !.post = "full"]}
    \cup {[Base EXCEPT !.code = 400], [Base EXCEPT !.method = "M-SEARCH"], [Base EXCEPT !.method = "SUBSCRIBE"]}

Soap == [Base EXCEPT !.method = "SOAP_POST", !.path = "/control",
                     !.header = [kind |-> "urn#name", urn |-> "urn:s", name |-> "act"],
                     !.body = [shape |-> "plain", urn |-> "urn:s", name |-> "act"]]
Query == [Soap EXCEPT !.header = [kind |-> "urn#name", urn |-> QUERY_STATE_VAR_URN, name |-> "QueryStateVariable"],
                      !.body = [shape |-> "plain", urn |-> QUERY_STATE_VAR_URN, name |-> "QueryStateVariable"]]
SoapRequests ==
  {Soap, Query, [Soap EXCEPT !.xml = FALSE], [Soap EXCEPT !.path = "/other"],
   [Soap EXCEPT !.method = "M-POST", !.man = TRUE], [Soap EXCEPT !.header.urn = "urn:t"],
   [Soap EXCEPT !.body.urn = "urn:t"], [Soap EXCEPT !.body.name = "other"], [Soap EXCEPT !.body.shape = "notXml"],
   [Soap EXCEPT !.body.shape = "withHeader"], [Query EXCEPT !.body.shape = "withHeader"],
   [Soap EXCEPT !.header.kind = "noHash"]}

MCRequests == (c1 :> WebRequests \cup SoapRequests)
               @@ (c2 :> {[Base EXCEPT !.path = "/alias"]})
MCServices == ("/control" :> "urn:s")
MCVerdicts == {[ErrCode |-> 0, ErrStr |-> FALSE, result |-> r] : r \in BOOLEAN}
                \cup {[ErrCode |-> 600, ErrStr |-> s, result |-> TRUE] : s \in BOOLEAN}
=============================================================================
