---------------------------- MODULE XmlDocuments ----------------------------
(***************************************************************************)
(* The document library in use: a text is parsed step by step, and then    *)
(* the application and the toolkit (api/upnptools.c) change the document   *)
(* through the calls of ixml, in any order.                                *)
(*                                                                         *)
(* A text is written as a sequence of items: tags with their attributes,   *)
(* texts, CDATA sections, comments.  Calls that the code does not survive, *)
(* or after which the pointers no longer fit together, are made too: they  *)
(* are named in misuse, and the run of the program ends with them.         *)
(***************************************************************************)
EXTENDS XmlParser

CONSTANTS
  ParseInputs,    \* texts that are only parsed
  BaseInputs,     \* texts whose documents are worked on
  MaxCalls,       \* calls made on such a document
  MaxNodes,       \* nodes made before the calls stop
  Names,          \* names of new elements and attributes
  Values          \* values that are set

VARIABLES written, parser, heap, callsLeft, misuse

vars == <<written, parser, heap, callsLeft, misuse>>

(***************************************************************************)
(* Items.                                                                  *)
(***************************************************************************)
Tag(k, n, attrs) == [k |-> k, n |-> n, a |-> attrs, v |-> ""]
Data(k, v) == [k |-> k, n |-> NoName, a |-> <<>>, v |-> v]

AttrTokens(a) == <<NameTok(a[1]), Tok("="), ValueTok("quoted", a[2])>>
ItemTokens(i) ==
  CASE i.k \in {"open", "empty", "unclosed"} ->
         NamedTag("<", i.n) \o FlattenSeq([j \in DOMAIN i.a |-> AttrTokens(i.a[j])])
           \o (CASE i.k = "open" -> <<Tok(">")>> [] i.k = "empty" -> <<Tok("/>")>> [] OTHER -> <<>>)
    [] i.k = "close" -> NamedTag("</", i.n) \o <<Tok(">")>>
    [] OTHER -> <<ValueTok(i.k, i.v)>>
Tokens(items) == FlattenSeq([j \in DOMAIN items |-> ItemTokens(items[j])])

(***************************************************************************)
(* The parser runs.                                                        *)
(***************************************************************************)
Init ==
  /\ \/ written \in ParseInputs /\ callsLeft = 0
     \/ written \in BaseInputs /\ callsLeft = MaxCalls
  /\ parser = Parser_init(Tokens(written))
  /\ heap = parser.heap
  /\ misuse = "none"

ParserSteps ==
  /\ parser.rc = "parsing"
  /\ parser' = Parser_parseDocument(parser)
  /\ heap' = parser'.heap
  /\ UNCHANGED <<written, callsLeft, misuse>>

(***************************************************************************)
(* Calls.                                                                  *)
(***************************************************************************)
Live(h) == {n \in DOMAIN h : h[n].type # "freed"}
OfType(h, type) == {n \in Live(h) : h[n].type = type}

\* An attribute that hangs at some element, whatever its ownerElement says.
InUse(h, a) == \E e \in OfType(h, "element") : a \in ToSet(AttrsOf(h, e))
Attached(h, n) == h[n].parentNode # NULL \/ InUse(h, n)
Behind(h, e) == h[e].firstAttr # NULL

\* A call of the application: what it returns, and whether it is one of those that the code
\* does not bear ("kind", or "none").
Makes(result, kind) ==
  /\ heap' = result.heap
  /\ misuse' = CASE kind # "none" /\ result.rc \in {"SUCCESS", "crash"} -> kind
                 [] kind = "none" /\ result.rc = "crash" -> "crash"
                 [] OTHER -> "none"
  /\ callsLeft' = callsLeft - 1
  /\ UNCHANGED <<written, parser>>

If(bad, kind) == IF bad THEN kind ELSE "none"

CallsAllowed ==
  parser.rc = "SUCCESS" /\ callsLeft > 0 /\ misuse = "none" /\ Len(heap) < MaxNodes

\* createDocument, and the nodes that a document makes.
Creates ==
  /\ CallsAllowed
  /\ \/ Makes(ixmlDocument_createDocumentEx(heap), "none")
     \/ \E doc \in OfType(heap, "document"), name \in Names, v \in Values :
          \/ Makes(ixmlDocument_createElementEx(heap, doc, name), "none")
          \/ Makes(ixmlDocument_createElementNSEx(heap, doc, "u", name), "none")
          \/ Makes(ixmlDocument_createTextNodeEx(heap, doc, v), "none")
          \/ Makes(ixmlDocument_createCDATASectionEx(heap, doc, v), "none")
          \/ Makes(ixmlDocument_createAttributeEx(heap, doc, name), "none")
          \/ Makes(ixmlDocument_createAttributeNSEx(heap, doc, "u", name), "none")

\* The new child must not be in a list already, must not be the node itself, and
\* insertBefore must name the child in front of which it goes.
ChangesChildren ==
  /\ CallsAllowed
  /\ \E n, new \in Live(heap) :
       LET place == CASE new = n -> "itself" [] new # n /\ Attached(heap, new) -> "attached" [] OTHER -> "none"
       IN \/ Makes(ixmlNode_appendChild(heap, n, new), place)
          \/ \E ref \in Live(heap) \cup {NULL} :
               Makes(ixmlNode_insertBefore(heap, n, new, ref), IF ref = NULL THEN "noRef" ELSE place)
          \/ \E old \in Live(heap), keep \in BOOLEAN :
               Makes(ixmlNode_replaceChild(heap, n, new, old, keep), place)

RemovesChild ==
  /\ CallsAllowed
  /\ \E n, old \in Live(heap), keep \in BOOLEAN : Makes(ixmlNode_removeChild(heap, n, old, keep), "none")

\* Only what hangs nowhere may be freed.
Frees ==
  /\ CallsAllowed
  /\ \E n \in Live(heap) :
       Makes(Done(ixmlNode_free(heap, n)), If(Attached(heap, n), "freedInUse"))

SetsNodeValue ==
  /\ CallsAllowed
  /\ \E n \in Live(heap), v \in Values : Makes(Done([heap EXCEPT ![n].nodeValue = v]), "none")

\* The deep copy of a document with a second element leaves that one without parent.
SecondRoot(h, n) == h[n].type = "document" /\ Len(ixmlNode_getChildNodes(h, n)) > 1
Copies ==
  /\ CallsAllowed
  /\ \E n \in Live(heap), deep \in BOOLEAN :
       \/ Makes(ixmlNode_cloneNode(heap, n, deep), If(deep /\ SecondRoot(heap, n), "secondRoot"))
       \/ \E doc \in OfType(heap, "document") : Makes(ixmlDocument_importNode(heap, doc, n, deep), "none")

\* An attribute that replaces one among others keeps its own pointers, and the old one is
\* freed with those behind it.  An attribute of another element is compared by strings
\* that are NULL.
SetsAttribute ==
  /\ CallsAllowed
  /\ \E e \in OfType(heap, "element") :
       \/ \E name \in Names, v \in Values : Makes(ixmlElement_setAttribute(heap, e, name, v), "none")
       \/ \E name \in Names : Makes(ixmlElement_removeAttribute(heap, e, name), "none")
       \/ \E a \in OfType(heap, "attr"), keep \in BOOLEAN :
            LET old == NamedAttr(heap, e, heap[a].nodeName)
                among == old # NULL /\ Len(AttrsOf(heap, e)) > 1
            IN Makes(ixmlElement_setAttributeNode(heap, e, a, keep),
                     IF InUse(heap, a) THEN "attached" ELSE If(among, "replacesAmongOthers"))
       \/ \E a \in OfType(heap, "attr") :
            Makes(ixmlElement_removeAttributeNode(heap, e, a), If(a \notin ToSet(AttrsOf(heap, e)), "foreign"))

Reserved == <<"xml", "lang">>     \* a name that belongs to another namespace than the calls give

\* By namespace: NULL strings are compared, and behind others the list is linked one way.
SetsAttributeNS ==
  /\ CallsAllowed
  /\ \E e \in OfType(heap, "element") :
       LET plain == \E a \in ToSet(AttrsOf(heap, e)) :
                      NoString \in {heap[a].namespaceURI, heap[a].localName}
       IN \/ \E name \in Names \cup {Reserved}, v \in Values :
               Makes(ixmlElement_setAttributeNS(heap, e, "u", name, v),
                     CASE name[1] = Unprefixed -> "unprefixed"
                       [] name[1] # Unprefixed /\ name # Reserved /\ plain -> "plain"
                       [] OTHER -> If(name # Reserved /\ Behind(heap, e), "behindOthers"))
          \/ \E name \in Names :
               Makes(ixmlElement_removeAttributeNS(heap, e, "u", name[2]), If(plain, "plain"))
          \/ \E a \in OfType(heap, "attr"), keep \in BOOLEAN :
               Makes(ixmlElement_setAttributeNodeNS(heap, e, a, keep),
                     IF InUse(heap, a) THEN "attached" ELSE If(Behind(heap, e), "behindOthers"))

(***************************************************************************)
(* upnptools.c: an argument is added to an action, a variable to a         *)
(* property set.  The document's first child is the element that takes it; *)
(* what the calls return is not looked at.                                 *)
(***************************************************************************)
WithText(h, doc, name, v) ==
  LET ele == ixmlDocument_createElementEx(h, doc, name)
      txt == ixmlDocument_createTextNodeEx(ele.heap, doc, v)
  IN IF v = NoString THEN ele
     ELSE Result("SUCCESS", ixmlNode_appendChild(txt.heap, ele.node, txt.node).heap, ele.node)

addToAction(h, doc, name, v) ==
  LET ele == WithText(h, doc, name, v)
  IN Done(ixmlNode_appendChild(ele.heap, h[doc].firstChild, ele.node).heap)

Property == <<"e", "property">>
UpnpAddToPropertySet(h, doc, name, v) ==
  LET ele1 == ixmlDocument_createElementEx(h, doc, Property)
      ele == WithText(ele1.heap, doc, name, v)
      h1 == ixmlNode_appendChild(ele.heap, ele1.node, ele.node).heap
  IN Done(ixmlNode_appendChild(h1, h[doc].firstChild, ele1.node).heap)

AddsArgument ==
  /\ CallsAllowed
  /\ \E doc \in OfType(heap, "document"), name \in Names, v \in Values \cup {NoString} :
       \/ Makes(addToAction(heap, doc, name, v), "none")
       \/ Makes(UpnpAddToPropertySet(heap, doc, name, v), "none")

Next ==
  \/ ParserSteps
  \/ Creates \/ ChangesChildren \/ RemovesChild \/ Frees \/ SetsNodeValue \/ Copies
  \/ SetsAttribute \/ SetsAttributeNS
  \/ AddsArgument

\* The parser runs in the thread that called it, to its end: weak fairness of ParserSteps,
\* the only step that changes the parser, with what enables it written out.
ParserRuns == []<>(parser.rc # "parsing") \/ []<><<parser' # parser>>_parser

Spec == Init /\ [][Next]_vars /\ ParserRuns
=============================================================================
