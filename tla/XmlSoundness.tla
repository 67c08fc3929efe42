----------------------------- MODULE XmlSoundness -----------------------------
(***************************************************************************)
(* What the document library promises: definitions that say it without     *)
(* the code's recursions, and the properties over them.                    *)
(***************************************************************************)
EXTENDS XmlDocuments

(***************************************************************************)
(* The pointers of a heap fit together, at each of the given nodes.        *)
(***************************************************************************)
Pointers == {"parentNode", "firstChild", "prevSibling", "nextSibling", "firstAttr"}

NothingFreedIsNamed(h, nodes) == \A n \in nodes, f \in Pointers : h[n][f] \in Live(h) \cup {NULL}

SiblingsAgree(h, nodes) ==
  \A n \in nodes :
    /\ h[n].nextSibling # NULL => /\ h[h[n].nextSibling].prevSibling = n
                                  /\ h[h[n].nextSibling].parentNode = h[n].parentNode
    /\ h[n].prevSibling # NULL => h[h[n].prevSibling].nextSibling = n

\* A list begins with a node that has nothing in front of it: with SiblingsAgree the list
\* has an end.
ListsBegin(h, nodes) ==
  \A n \in nodes :
    /\ h[n].firstChild # NULL => /\ h[h[n].firstChild].parentNode = n
                                 /\ h[h[n].firstChild].prevSibling = NULL
    /\ h[n].firstAttr # NULL => /\ h[h[n].firstAttr].type = "attr"
                                /\ h[h[n].firstAttr].prevSibling = NULL

ChildrenOf(h, n) == {m \in Live(h) : h[m].parentNode = n}

ChildrenAreListed(h, nodes) ==
  \A n \in nodes : /\ ToSet(ixmlNode_getChildNodes(h, n)) = ChildrenOf(h, n)
                    /\ \A m \in ChildrenOf(h, n) : h[m].ownerDocument \in {NULL, h[n].ownerDocument}

\* An attribute hangs at one element, which it knows unless it is a copy; without
\* namespaces its name is the only one of its kind there.
AttributesAreListed(h, nodes) ==
  \A e \in nodes \cap OfType(h, "element") :
    LET attrs == AttrsOf(h, e)
    IN /\ \A a \in ToSet(attrs) : /\ h[a].parentNode = NULL /\ h[a].ownerElement \in {NULL, e}
                                  /\ \A f \in (nodes \cap OfType(h, "element")) \ {e} :
                                       a \notin ToSet(AttrsOf(h, f))
       /\ \A i, j \in DOMAIN attrs :
            (/\ i # j
             /\ h[attrs[i]].namespaceURI = NoString
             /\ h[attrs[j]].namespaceURI = NoString) => h[attrs[i]].nodeName # h[attrs[j]].nodeName

\* Who stands above a node, itself included: nobody twice.
RECURSIVE Above(_, _, _)
Above(h, n, seen) == IF n = NULL \/ n \in seen THEN seen ELSE Above(h, h[n].parentNode, seen \cup {n})
NoCycle(h, nodes) ==
  \A n \in nodes : h[n].parentNode # NULL => n \notin Above(h, h[n].parentNode, {})

LinksFit(h, nodes) ==
  /\ NothingFreedIsNamed(h, nodes) /\ SiblingsAgree(h, nodes) /\ ListsBegin(h, nodes)
  /\ NoCycle(h, nodes) /\ ChildrenAreListed(h, nodes) /\ AttributesAreListed(h, nodes)

(***************************************************************************)
(* What readers, copies and frees have to do.                              *)
(***************************************************************************)
Below(h, n) == {m \in Live(h) : n \in Above(h, m, {})}

\* The place of a node: for each node above it, how many stand in front.
RECURSIVE InFront(_, _)
InFront(h, n) == IF h[n].prevSibling = NULL THEN 0 ELSE 1 + InFront(h, h[n].prevSibling)
RECURSIVE Place(_, _)
Place(h, n) ==
  IF h[n].parentNode = NULL THEN <<>> ELSE Place(h, h[n].parentNode) \o <<InFront(h, n)>>
Precedes(p, q) ==
  \/ IsStrictPrefix(p, q)
  \/ \E i \in DOMAIN p \cap DOMAIN q : p[i] < q[i] /\ \A j \in 1..(i - 1) : p[j] = q[j]

\* All nodes of a set, in the order of the document.
ListsInOrder(h, list, set) ==
  /\ ToSet(list) = set
  /\ \A i, j \in DOMAIN list : i < j => Precedes(Place(h, list[i]), Place(h, list[j]))

\* Where all attributes have a namespace: the first with that local name in "u".
NamespaceReadersAgree(h, e, local) ==
  LET attrs == AttrsOf(h, e)
      found == FirstThat(attrs, LAMBDA a : h[a].localName = local /\ h[a].namespaceURI = "u")
      comparable == \A a \in ToSet(attrs) : NoString \notin {h[a].localName, h[a].namespaceURI}
  IN comparable => /\ ixmlElement_hasAttributeNS(h, e, "u", local) = (found # NULL)
                   /\ ixmlElement_getAttributeNS(h, e, "u", local) =
                        IF found = NULL THEN NoString ELSE h[found].nodeValue

ReadersAgree(h) ==
  \A n \in Live(h) :
    LET below == Below(h, n)
        found(name) == ixmlNode_getElementsByTagName(h, n, name)
        attr(name) == ixmlNamedNodeMap_getNamedItem(h, n, name)
    IN \A name \in Names :
         /\ ListsInOrder(h, found(name),
                         {m \in below : h[m].type = "element" /\ h[m].nodeName = name})
         /\ ListsInOrder(h, ixmlNode_getElementsByTagNameNS(h, n, "u", name[2]),
                         {m \in below : MatchesNS(h, m, "u", name[2])})
         /\ h[n].type = "document" =>
              ixmlDocument_getElementById(h, n, name) = ixmlNodeList_item(found(name), 0)
         /\ h[n].type = "element" =>
              /\ attr(name) = ixmlElement_getAttributeNode(h, n, name)
              /\ ixmlElement_hasAttribute(h, n, name) = (attr(name) # NULL)
              /\ ixmlElement_getAttribute(h, n, name) =
                   IF attr(name) = NULL THEN NoString ELSE h[attr(name)].nodeValue
              /\ NamespaceReadersAgree(h, n, name[2])

\* A document has no value of its own.
Shown(h, n) ==
  <<h[n].type, h[n].nodeName, IF h[n].type = "document" THEN NoString ELSE h[n].nodeValue,
    h[n].namespaceURI>>
\* A subtree as it would be read, with the depth of each node.
RECURSIVE Outline(_, _, _)
Outline(h, n, depth) ==
  LET kids == ixmlNode_getChildNodes(h, n)
      attrs == AttrsOf(h, n)
  IN <<<<depth, Shown(h, n)>>>>
       \o [i \in DOMAIN attrs |-> <<depth, Shown(h, attrs[i])>>]
       \o FlattenSeq([i \in DOMAIN kids |-> Outline(h, kids[i], depth + 1)])

\* Behind a text the copy and the printing of a list end.
Data_(type) == type \in {"text", "cdata"}
Mixed(h, n) ==
  \E m \in Below(h, n) \ {n} : Data_(h[m].type) /\ h[m].nextSibling # NULL

\* A deep copy shows what the original shows and leaves it alone.
CopyAgrees(h, n, copy) ==
  LET made == (Len(h) + 1)..Len(copy.heap)
  IN /\ SubSeq(copy.heap, 1, Len(h)) = h
     /\ LinksFit(copy.heap, made)
     /\ \A m \in made : {copy.heap[m][f] : f \in Pointers} \subseteq made \cup {NULL}
     /\ Outline(copy.heap, copy.node, 0) = Outline(h, n, 0)
CopiesAgree(h) ==
  \A n \in {m \in Live(h) : ~Mixed(h, m) /\ ~SecondRoot(h, m)} :
    CopyAgrees(h, n, ixmlNode_cloneNode(h, n, TRUE))

\* To free what hangs nowhere frees it, all that is below it and their attributes.
FreesAgree(h) ==
  \A n \in {m \in Live(h) : ~Attached(h, m)} :
    LET below == Below(h, n)
        gone == below \cup UNION {ToSet(AttrsOf(h, m)) : m \in below}
    IN Live(ixmlNode_free(h, n)) = Live(h) \ gone

(***************************************************************************)
(* As long as the application makes none of the calls named in misuse, no  *)
(* call fails an assertion or uses freed memory, the pointers of all trees *)
(* and attribute lists fit together (node.c:503, element.c:296), lookups   *)
(* give exactly the nodes of a name in document order, a deep copy equals  *)
(* its original, and freeing a detached tree frees exactly that tree.      *)
(***************************************************************************)
TreesSound ==
  /\ misuse # "crash"
  /\ (misuse = "none" /\ parser.rc # "crash") =>
       LinksFit(heap, Live(heap)) /\ ReadersAgree(heap) /\ CopiesAgree(heap) /\ FreesAgree(heap)

(***************************************************************************)
(* What a text says, read off its items.                                   *)
(***************************************************************************)
Kinds(i, kinds) == written[i].k \in kinds
CountIn(set, kinds) == Cardinality({i \in set : Kinds(i, kinds)})

\* How many elements are open in front of an item.
Depth(i) == CountIn(1..(i - 1), {"open"}) - CountIn(1..(i - 1), {"close"})
Opener(i) == LET before == {j \in 1..(i - 1) : Kinds(j, {"open"}) /\ Depth(j) = Depth(i) - 1}
             IN CHOOSE j \in before : \A k \in before : k <= j
Elements == {i \in DOMAIN written : Kinds(i, {"open", "empty"})}

DistinctAttrs(a) == \A i, j \in DOMAIN a : i # j => a[i][1] # a[j][1]

Balanced ==
  /\ Depth(Len(written) + 1) = 0
  /\ \A i \in DOMAIN written :
       Kinds(i, {"close"}) => Depth(i) > 0 /\ written[Opener(i)].n = written[i].n

\* Inside the one element at the top everything that is closed in turn, around it nothing
\* but comments; the document without any element is accepted as well.
WellFormed ==
  /\ Balanced
  /\ Cardinality({i \in Elements : Depth(i) = 0}) <= 1
  /\ \A i \in DOMAIN written : Kinds(i, {"text", "cdata"}) => Depth(i) > 0
  /\ \A i \in Elements : /\ DistinctAttrs(written[i].a)
                         /\ \A j \in DOMAIN written[i].a : written[i].a[j][2] # BadReference
  /\ \A i \in DOMAIN written : Kinds(i, {"text"}) => written[i].v # BadReference
  /\ \A i \in DOMAIN written : Kinds(i, {"decl"}) => i = 1

(***************************************************************************)
(* The tree that a text stands for.                                        *)
(***************************************************************************)
Nodes == {i \in DOMAIN written : Kinds(i, {"open", "empty", "text", "cdata"})}
NodesInOrder == SelectSeq([i \in DOMAIN written |-> i], LAMBDA i : i \in Nodes)
Value(v) == Parser_getChar(v)

ItemShown(i) ==
  CASE Kinds(i, {"text"}) -> <<"text", TextName, Value(written[i].v)>>
    [] Kinds(i, {"cdata"}) -> <<"cdata", CDataName, written[i].v>>
    [] OTHER -> <<"element", written[i].n, NoString>>
AttrsShown(i) ==
  [j \in DOMAIN written[i].a |-> <<Depth(i), <<"attr", written[i].a[j][1], Value(written[i].a[j][2])>>>>]
OutlineWritten ==
  FlattenSeq([k \in DOMAIN NodesInOrder |->
                LET i == NodesInOrder[k] IN <<<<Depth(i), ItemShown(i)>>>> \o AttrsShown(i)])

\* The same of the document that was built: without the document node and namespaces.
OutlineParsed(h) ==
  LET all == Tail(Outline(h, 1, -1))
  IN [k \in DOMAIN all |-> <<all[k][1], SubSeq(all[k][2], 1, 3)>>]

\* The namespace that is in scope for an element: the innermost binding of its prefix among
\* the elements around it and itself.
BindingName(prefix) == IF prefix = Unprefixed THEN <<Unprefixed, "xmlns">> ELSE <<"xmlns", prefix>>
Around(i) == {j \in 1..i : /\ Kinds(j, {"open", "empty"})
                           /\ j = i \/ (Kinds(j, {"open"}) /\ \A k \in (j + 1)..i : Depth(k) > Depth(j))}
Binds(j, name) == \E a \in DOMAIN written[j].a : written[j].a[a][1] = name
BoundTo(j, name) ==
  written[j].a[CHOOSE a \in DOMAIN written[j].a : written[j].a[a][1] = name][2]
InScope(i) ==
  LET name == BindingName(written[i].n[1])
      binding == {j \in Around(i) : Binds(j, name)}
      inner == CHOOSE j \in binding : \A k \in binding : k <= j
  IN IF binding = {} THEN NoString ELSE BoundTo(inner, name)

\* What the parser does not get right: an element that binds its own prefix again, a default
\* that is not the first attribute, and one that an element with a prefix declares.
OwnBinding(i) == Binds(i, BindingName(written[i].n[1]))
BindsAgain(i) == OwnBinding(i) /\ \E j \in Around(i) \ {i} : Binds(j, BindingName(written[i].n[1]))
BindsLate(i) == written[i].n[1] = Unprefixed /\ OwnBinding(i) /\ written[i].a[1][1] # BindingName(Unprefixed)
DefaultByPrefixed ==
  \E i \in Elements : written[i].n[1] # Unprefixed /\ Binds(i, BindingName(Unprefixed))
NamespacesPlain == ~DefaultByPrefixed /\ \A i \in Elements : ~BindsAgain(i) /\ ~BindsLate(i)

\* Items that the parser takes in a way of its own: an end tag with nothing open stops the
\* program and so may a prefix that is bound nowhere, a tag without ">" is accepted, an
\* empty CDATA section and "]]>" are refused.
Regular ==
  /\ \A i \in DOMAIN written : Kinds(i, {"close"}) => Depth(i) > 0
  /\ \A i \in DOMAIN written : ~Kinds(i, {"unclosed", "]]>", "doctype", ">"})
  /\ \A i \in Elements : written[i].n[1] = Unprefixed \/ InScope(i) # NoString
  /\ \A i \in DOMAIN written : Kinds(i, {"cdata"}) => written[i].v # ""

ElementsParsed(h) ==
  SelectSeq(Outline(h, 1, -1), LAMBDA o : o[2][1] = "element")
NamespacesRight(h) ==
  LET items == SelectSeq(NodesInOrder, LAMBDA i : i \in Elements)
  IN \A k \in DOMAIN items : ElementsParsed(h)[k][2][4] = InScope(items[k])

\* Printed and parsed again a document shows the same, with or without the declaration.
RoundTrips(h) ==
  \A text \in {ixmlPrintDocument(h, 1), ixmlDocumenttoString(h, 1), ixmlPrintNode(h, 1), ixmlNodetoString(h, 1)} :
    LET again == Parser_LoadDocument(text)
    IN again.rc = "SUCCESS" /\ Outline(again.heap, 1, 0) = Outline(h, 1, 0)

\* A refused text leaves nothing in memory; only a text that stands outside is forgotten.
RefusedIsFreed(p) ==
  Live(p.heap) = {} \/ \E i \in DOMAIN written : Kinds(i, {"text", "cdata"}) /\ Depth(i) = 0

AsWritten(p) ==
  /\ Regular => (p.rc = "SUCCESS" <=> WellFormed)
  /\ (Regular /\ p.rc = "SUCCESS") =>
       /\ OutlineParsed(p.heap) = OutlineWritten
       /\ NamespacesPlain => NamespacesRight(p.heap)
       /\ ~Mixed(p.heap, 1) => RoundTrips(p.heap)
  /\ p.rc = "FAILED" => RefusedIsFreed(p)

(***************************************************************************)
(* Every text comes to an end in the parser, and then it has been accepted *)
(* if and only if it is well formed; the document shows the tree that was  *)
(* written with the namespaces in scope, printing it and parsing it again  *)
(* gives the same, and a refused text leaves nothing in memory             *)
(* (Parser_parseDocument, ixmlparser.c:2326).                              *)
(***************************************************************************)
ParsedAsWritten == <>(parser.rc # "parsing" /\ AsWritten(parser))
=============================================================================
