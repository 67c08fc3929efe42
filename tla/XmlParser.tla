------------------------------ MODULE XmlParser ------------------------------
(***************************************************************************)
(* The parser of the document library (ixml/ixmlparser.c) and the printer  *)
(* (ixml/ixml.c).                                                          *)
(*                                                                         *)
(* A text is a sequence of tokens as Parser_getNextToken and               *)
(* Parser_processContent cut it: "<", "</", ">", "/>", "=", a name, a      *)
(* quoted value, a text, a CDATA section, a comment or processing          *)
(* instruction, the XML declaration, a DOCTYPE, white space, and a stray   *)
(* "]]>".  Inside a tag white space is left out; comments are not put      *)
(* inside a tag.                                                           *)
(***************************************************************************)
EXTENDS XmlElements

NoName == <<Unprefixed, "">>
Tok(k) == [k |-> k, n |-> NoName, v |-> ""]
NameTok(n) == [k |-> "name", n |-> n, v |-> ""]
ValueTok(k, v) == [k |-> k, n |-> NoName, v |-> v]

\* What a value looks like when it is written, and what Parser_getChar makes of it again;
\* one value stands for those with a character that is written as a reference.
copy_with_escape(v) == IF v = "<" THEN "&lt;" ELSE v
Parser_getChar(v) == IF v = "&lt;" THEN "<" ELSE v
BadReference == "&bad;"
Parser_copyToken(v) == v # BadReference

Skips == {"comment", "ws"}
RECURSIVE SkipLeading(_, _)
SkipLeading(rest, kinds) ==
  IF rest # <<>> /\ rest[1].k \in kinds THEN SkipLeading(Tail(rest), kinds) ELSE rest
Parser_skipMisc(rest) == SkipLeading(rest, Skips)
HeadKind(rest) == IF rest = <<>> THEN "end" ELSE rest[1].k

\* Declaration, comments and a document type in front of the document.
Parser_skipProlog(rest) ==
  LET begun == SkipLeading(rest, {"ws"})
      declared == Parser_skipMisc(IF HeadKind(begun) = "decl" THEN Tail(begun) ELSE begun)
  IN Parser_skipMisc(IF HeadKind(declared) = "doctype" THEN Tail(declared) ELSE declared)

(***************************************************************************)
(* The parser: what it has still to read, its mode, the open elements with *)
(* the namespaces that they declare, the node that is being filled, the    *)
(* name of the last start tag and the node whose namespace is not known.   *)
(***************************************************************************)
Parser_init(text) ==
  LET made == ixmlDocument_createDocumentEx(<<>>)
  IN [rest |-> Parser_skipProlog(text), state |-> "eELEMENT", pCurElement |-> <<>>,
      currentNodePtr |-> made.node, lastElem |-> NoName, bHasTopLevel |-> FALSE,
      pNeedPrefixNode |-> NULL, heap |-> made.heap, rc |-> "parsing"]

\* Parser_parseDocument's ErrorHandler: everything that hangs in the document goes.
Gives(p, rc) == [p EXCEPT !.rc = rc, !.heap = ixmlNode_free(p.heap, 1)]
Fails(p) == Gives(p, "FAILED")
Asserts(p) == [p EXCEPT !.rc = "crash"]

\* Puts a node at the end of the current one, or gives up; the node is not freed then.
Appends(p, made) ==
  LET put == ixmlNode_appendChild(made.heap, p.currentNodePtr, made.node)
  IN IF put.rc = "SUCCESS" THEN [p EXCEPT !.heap = put.heap] ELSE Fails([p EXCEPT !.heap = made.heap])

(***************************************************************************)
(* Namespaces.                                                             *)
(***************************************************************************)
Top(p) == p.pCurElement[1]
SetTop(p, e) == [p EXCEPT !.pCurElement[1] = e]

\* Parser_ElementPrefixDefined, from the innermost open element on.
RECURSIVE PrefixUri(_, _)
PrefixUri(stack, prefix) ==
  CASE stack = <<>> -> NoString
    [] stack # <<>> /\ stack[1].prefix = prefix -> stack[1].namespaceUri
    [] OTHER -> IF prefix \in DOMAIN stack[1].pNsURI THEN stack[1].pNsURI[prefix]
                ELSE PrefixUri(Tail(stack), prefix)
Parser_ElementPrefixDefined(stack, prefix) ==
  \E i \in DOMAIN stack : stack[i].prefix = prefix \/ prefix \in DOMAIN stack[i].pNsURI

\* Only open elements without a prefix are asked for a default.
Parser_hasDefaultNamespace(stack) ==
  LET has == SelectSeq(stack, LAMBDA e : e.prefix = NoString /\ e.namespaceUri # NoString)
  IN IF has = <<>> THEN NoString ELSE has[1].namespaceUri

\* Tries to give the waiting node its namespace: a node without a prefix takes what the
\* innermost element has now, or nothing for good.
Parser_addNamespace(p) ==
  LET node == p.heap[p.pNeedPrefixNode]
      top == Top(p)
      put == [p EXCEPT !.heap[p.pNeedPrefixNode].namespaceURI = top.namespaceUri,
                       !.pNeedPrefixNode = NULL]
      ours == node.nodeName = top.element
  IN CASE node.prefix = NoString -> IF ours THEN put ELSE Fails(p)
       [] node.prefix # NoString /\ ~ours /\ top.prefix = NoString -> Asserts(p)
       [] OTHER -> IF ~ours /\ node.prefix # top.prefix THEN Fails(p)
                   ELSE IF top.namespaceUri = NoString THEN p ELSE put

\* Every attribute, whatever its name, lets the waiting node try.
Parser_xmlNamespace(p, name, value) ==
  LET top == Top(p)
      local == name[2]
      declared ==
        CASE name = <<Unprefixed, "xmlns">> -> SetTop(p, [top EXCEPT !.namespaceUri = value])
          [] name[1] = "xmlns" /\ top.prefix = local -> SetTop(p, [top EXCEPT !.namespaceUri = value])
          [] name[1] = "xmlns" /\ top.prefix # local ->
               SetTop(p, [top EXCEPT !.pNsURI = (local :> value) @@ @])
          [] OTHER -> p
  IN IF p.pNeedPrefixNode = NULL THEN declared ELSE Parser_addNamespace(declared)

(***************************************************************************)
(* Tags.                                                                   *)
(***************************************************************************)
Parser_pushElement(p, e) ==
  [p EXCEPT !.currentNodePtr = e,
            !.pCurElement = <<[element |-> p.heap[e].nodeName, prefix |-> p.heap[e].prefix,
                               namespaceUri |-> p.heap[e].namespaceURI, pNsURI |-> <<>>]>> \o @]

\* A second element beside the first one is an error; a prefix that an open element has
\* itself without a binding fails the assertion of safe_strdup.
Parser_processElementName(p, name) ==
  LET made == ixmlDocument_createElementEx(p.heap, 1, name)
      split == Parser_setNodePrefixAndLocalName(made.heap[made.node])
      stack == p.pCurElement
      known == IF split.prefix # NoString THEN Parser_ElementPrefixDefined(stack, split.prefix)
               ELSE Parser_hasDefaultNamespace(stack) # NoString
      uri == IF split.prefix # NoString THEN PrefixUri(stack, split.prefix) ELSE Parser_hasDefaultNamespace(stack)
      waits == ~known /\ (split.prefix # NoString \/ p.state = "eATTRIBUTE")
      q == [p EXCEPT !.bHasTopLevel = TRUE, !.pNeedPrefixNode = IF waits THEN made.node ELSE @]
      put == Appends(q, [made EXCEPT !.heap[made.node] =
                           [split EXCEPT !.namespaceURI = IF known THEN uri ELSE @]])
  IN CASE p.bHasTopLevel /\ stack = <<>> -> Fails(p)
       [] OTHER -> IF known /\ uri = NoString THEN Asserts(p)
                   ELSE IF put.rc # "parsing" THEN put ELSE Parser_pushElement(put, made.node)

\* Behind the name the next token is looked at: only ">" is taken.
Parser_processSTag(p, rest) ==
  LET after == Tail(rest)
      next == HeadKind(after)
      q == [p EXCEPT !.lastElem = rest[1].n,
                     !.rest = IF next = ">" THEN Tail(after) ELSE after,
                     !.state = CASE next = "/>" -> "eELEMENT" [] next = ">" -> "eCONTENT"
                                 [] OTHER -> "eATTRIBUTE"]
  IN IF HeadKind(rest) # "name" \/ next \in {"end", "text", "cdata", "]]>", "doctype"} THEN Fails(p)
     ELSE Parser_processElementName(q, rest[1].n)

isDuplicateAttribute(p, name) == NamedAttr(p.heap, p.currentNodePtr, name) # NULL

Parser_processAttributeName(p, name, value) ==
  LET made == ixmlDocument_createAttributeEx(p.heap, 1, name)
      split == IF name[1] = "xmlns" THEN Parser_setNodePrefixAndLocalName(made.heap[made.node])
               ELSE made.heap[made.node]
      put == ixmlElement_setAttributeNode(
               [made.heap EXCEPT ![made.node] = [split EXCEPT !.nodeValue = value]],
               p.currentNodePtr, made.node, FALSE)
  IN IF isDuplicateAttribute(p, name) THEN Fails(p) ELSE [p EXCEPT !.heap = put.heap]

\* A name, "=", a quoted value, and a look at what follows.
Parser_processAttribute(p) ==
  LET r == p.rest
      written == /\ Len(r) >= 4 /\ r[1].k = "name" /\ r[2].k = "=" /\ r[3].k = "quoted"
                 /\ Parser_copyToken(r[3].v)
      value == Parser_getChar(r[3].v)
      spaced == Parser_xmlNamespace(p, r[1].n, value)
      next == r[4].k
      q == [spaced EXCEPT !.rest = SubSeq(r, IF next = ">" THEN 5 ELSE 4, Len(r)),
                          !.state = IF next = ">" THEN "eCONTENT" ELSE @]
  IN IF ~written THEN Fails(p)
     ELSE IF spaced.rc # "parsing" THEN spaced
     ELSE IF next \in {"<", "text", "cdata", "]]>", "doctype"} THEN Fails(p)
     ELSE Parser_processAttributeName(q, r[1].n, value)

NoVerification(p, name) ==      \* mutant: any end tag closes the innermost element
  IF p.pCurElement = <<>> THEN Asserts(p)
  ELSE [p EXCEPT !.pCurElement = Tail(@), !.state = "eCONTENT",
                 !.currentNodePtr = p.heap[p.currentNodePtr].parentNode]

\* An end tag with nothing open fails the assertion of Parser_isValidEndElement.
Parser_eTagVerification(p, name) ==
  CASE p.pCurElement = <<>> -> Asserts(p)
    [] p.pCurElement # <<>> /\ Top(p).element # name -> Fails(p)
    [] OTHER -> IF p.heap[p.currentNodePtr].nodeName # name THEN Fails(p)
                ELSE [p EXCEPT !.pCurElement = Tail(@), !.state = "eCONTENT",
                               !.currentNodePtr = p.heap[p.currentNodePtr].parentNode]

Parser_processETag(p, rest) ==
  IF Len(rest) >= 2 /\ rest[1].k = "name" /\ rest[2].k = ">"
  THEN Parser_eTagVerification([p EXCEPT !.rest = SubSeq(rest, 3, Len(rest))], rest[1].n)
  ELSE Fails(p)

(***************************************************************************)
(* Parser_getNextNode and what Parser_parseDocument does with the node.    *)
(***************************************************************************)
\* White space in front of a tag is dropped; other text counts up to the next tag.
Parser_processContent(p) ==
  LET after == SkipLeading(p.rest, {"ws"})
      next == HeadKind(after)
      run == CHOOSE n \in 1..Len(p.rest) :
               /\ \A i \in 1..n : p.rest[i].k \notin {"<", "</", "cdata", "comment", "]]>"}
               /\ n < Len(p.rest) => p.rest[n + 1].k \in {"<", "</", "cdata", "comment", "]]>"}
      text == IF after[1].k = "text" THEN after[1].v ELSE "other"
      behind == SubSeq(p.rest, run + 1, Len(p.rest))
  IN CASE next = "end" -> [p EXCEPT !.rest = <<>>]
       [] next = "cdata" -> IF after[1].v = "" THEN Fails(p)
                            ELSE Appends([p EXCEPT !.rest = Tail(after)],
                                         ixmlDocument_createCDATASectionEx(p.heap, 1, after[1].v))
       [] next = "comment" -> [p EXCEPT !.rest = Tail(after)]
       [] next \in {"decl", "]]>"} -> Fails(p)
       [] next \in {"<", "</", "doctype"} -> [p EXCEPT !.rest = after, !.state = "eELEMENT"]
       [] OTHER -> IF HeadKind(behind) = "]]>" \/ ~Parser_copyToken(text) THEN Fails(p)
                   ELSE Appends([p EXCEPT !.rest = behind],
                                ixmlDocument_createTextNodeEx(p.heap, 1, Parser_getChar(text)))

\* A ">" that closes nothing is passed over.
Parser_getNextNode(p) ==
  LET r == Parser_skipMisc(p.rest)
      k == HeadKind(r)
  IN CASE k = "end" -> IF p.pCurElement = <<>> THEN [p EXCEPT !.rest = <<>>] ELSE Fails(p)
       [] k = ">" -> [p EXCEPT !.rest = Tail(r)]
       [] k = "</" -> Parser_processETag(p, Tail(r))
       [] k = "<" -> Parser_processSTag(p, Tail(r))
       [] k = "/>" -> IF p.lastElem = NoName THEN Fails(p)
                      ELSE Parser_eTagVerification([p EXCEPT !.rest = Tail(r)], p.lastElem)
       [] OTHER -> IF p.state = "eATTRIBUTE" /\ p.pCurElement # <<>>
                   THEN Parser_processAttribute([p EXCEPT !.rest = r]) ELSE Fails(p)

Parser_parseDocument(p) ==
  CASE p.rest = <<>> -> IF p.pCurElement # <<>> THEN Fails(p) ELSE [p EXCEPT !.rc = "SUCCESS"]
    [] p.rest # <<>> /\ p.state = "eCONTENT" -> Parser_processContent(p)
    [] OTHER -> Parser_getNextNode(p)

RECURSIVE ParsedFrom(_)
ParsedFrom(p) == IF p.rc # "parsing" THEN p ELSE ParsedFrom(Parser_parseDocument(p))
Parser_LoadDocument(text) == ParsedFrom(Parser_init(text))

(***************************************************************************)
(* ixml.c: the tokens that a node is printed as.                           *)
(***************************************************************************)
ValueOf(node) == IF node.nodeValue = NoString THEN "" ELSE node.nodeValue
TypeOf(h, n) == IF n = NULL THEN "none" ELSE h[n].type
Spaced(yes) == IF yes THEN <<Tok("ws")>> ELSE <<>>
NamedTag(open, name) == <<Tok(open), NameTok(name)>>

AttrToken(node) ==
  <<NameTok(node.nodeName), Tok("="), ValueTok("quoted", copy_with_escape(ValueOf(node)))>>

\* Behind a text or a CDATA section the printing of the list ends.
RECURSIVE ixmlPrintDomTreeRecursive(_, _)
ixmlPrintDomTreeRecursive(h, n) ==
  IF n = NULL THEN <<>>
  ELSE LET node == h[n]
       IN CASE node.type = "text" ->
                 IF ValueOf(node) = "" THEN <<>> ELSE <<ValueTok("text", copy_with_escape(ValueOf(node)))>>
            [] node.type = "cdata" -> <<ValueTok("cdata", ValueOf(node))>>
            [] node.type = "attr" -> AttrToken(node) \o ixmlPrintDomTreeRecursive(h, node.nextSibling)
            [] node.type = "document" -> ixmlPrintDomTreeRecursive(h, node.firstChild)
            [] OTHER ->
                 NamedTag("<", node.nodeName) \o ixmlPrintDomTreeRecursive(h, node.firstAttr)
                   \o <<Tok(">")>> \o Spaced(TypeOf(h, node.firstChild) = "element")
                   \o ixmlPrintDomTreeRecursive(h, node.firstChild)
                   \o NamedTag("</", node.nodeName) \o <<Tok(">")>>
                   \o Spaced(TypeOf(h, node.nextSibling) # "text")
                   \o ixmlPrintDomTreeRecursive(h, node.nextSibling)

\* One node without its siblings.
ixmlPrintDomTree(h, n) ==
  CASE h[n].type = "attr" -> AttrToken(h[n])
    [] h[n].type = "element" ->
         NamedTag("<", h[n].nodeName) \o ixmlPrintDomTreeRecursive(h, h[n].firstAttr)
           \o <<Tok(">")>> \o Spaced(TypeOf(h, h[n].firstChild) = "element")
           \o ixmlPrintDomTreeRecursive(h, h[n].firstChild)
           \o NamedTag("</", h[n].nodeName) \o <<Tok(">"), Tok("ws")>>
    [] OTHER -> ixmlPrintDomTreeRecursive(h, n)

\* ixmlDomTreetoString leaves out the white space around one element.
ixmlDomTreetoString(h, n) ==
  IF h[n].type # "element" THEN ixmlPrintDomTree(h, n)
  ELSE NamedTag("<", h[n].nodeName) \o ixmlPrintDomTreeRecursive(h, h[n].firstAttr) \o <<Tok(">")>>
         \o ixmlPrintDomTreeRecursive(h, h[n].firstChild)
         \o NamedTag("</", h[n].nodeName) \o <<Tok(">")>>

ixmlPrintDocument(h, n) == <<Tok("decl"), Tok("ws")>> \o ixmlPrintDomTree(h, n)
ixmlPrintNode(h, n) == ixmlPrintDomTree(h, n)
ixmlDocumenttoString(h, n) == <<Tok("decl"), Tok("ws")>> \o ixmlDomTreetoString(h, n)
ixmlNodetoString(h, n) == ixmlDomTreetoString(h, n)
=============================================================================
