------------------------------ MODULE XmlNodes ------------------------------
(***************************************************************************)
(* The document library of the SDK (ixml): nodes in memory, the pointers   *)
(* between them, and the operations of node.c, element.c, document.c,      *)
(* nodeList.c and namedNodeMap.c as functions from a heap to a heap.       *)
(*                                                                         *)
(* A heap is a sequence of nodes, a pointer is an index, 0 is NULL; memory *)
(* is not used again, so that a use of a freed node shows.  Memory is      *)
(* never exhausted.  "crash" is the outcome of a failed assertion, of a    *)
(* NULL or of freed memory that is used.                                   *)
(***************************************************************************)
EXTENDS Integers, Sequences, FiniteSets, SequencesExt

NULL == 0
NoString == "(null)"          \* a char * that is NULL
Unprefixed == ""              \* a qualified name is <<prefix, local name>>

Node(type, name, value, doc) ==
  [type |-> type, nodeName |-> name, nodeValue |-> value, namespaceURI |-> NoString,
   prefix |-> NoString, localName |-> NoString, parentNode |-> NULL, firstChild |-> NULL,
   prevSibling |-> NULL, nextSibling |-> NULL, firstAttr |-> NULL, ownerDocument |-> doc,
   ownerElement |-> NULL]

TextName == <<Unprefixed, "#text">>
CDataName == <<Unprefixed, "#cdata-section">>
DocumentName == <<Unprefixed, "#document">>

\* What a call returns: its code, the heap it leaves and the node it hands out.
Result(rc, h, n) == [rc |-> rc, heap |-> h, node |-> n]
Done(h) == Result("SUCCESS", h, NULL)
Refused(h, rc) == Result(rc, h, NULL)
Crashed(h) == Result("crash", h, NULL)

New(h, node) == Result("SUCCESS", Append(h, node), Len(h) + 1)

Parser_setNodePrefixAndLocalName(node) ==
  [node EXCEPT !.prefix = IF node.nodeName[1] = Unprefixed THEN NoString ELSE node.nodeName[1],
               !.localName = node.nodeName[2]]

(***************************************************************************)
(* document.c: new nodes.                                                  *)
(***************************************************************************)
ixmlDocument_createDocumentEx(h) == New(h, Node("document", DocumentName, NoString, Len(h) + 1))

ixmlDocument_createElementEx(h, doc, tagName) == New(h, Node("element", tagName, NoString, doc))

ixmlDocument_createElementNSEx(h, doc, uri, name) ==
  New(h, [Parser_setNodePrefixAndLocalName(Node("element", name, NoString, doc))
            EXCEPT !.namespaceURI = uri])

ixmlDocument_createTextNodeEx(h, doc, data) == New(h, Node("text", TextName, data, doc))

ixmlDocument_createCDATASectionEx(h, doc, data) == New(h, Node("cdata", CDataName, data, doc))

\* Of the creating functions only this one is called with an owner that may be missing.
ixmlDocument_createAttributeEx(h, doc, name) ==
  IF doc = NULL THEN Refused(h, "INVALID_PARAMETER") ELSE New(h, Node("attr", name, NoString, doc))

ixmlDocument_createAttributeNSEx(h, doc, uri, name) ==
  LET made == ixmlDocument_createAttributeEx(h, doc, name)
      last == made.heap[made.node]
  IN IF made.rc # "SUCCESS" THEN made
     ELSE [made EXCEPT !.heap[made.node] =
             [Parser_setNodePrefixAndLocalName(last) EXCEPT !.namespaceURI = uri]]

(***************************************************************************)
(* node.c: freeing, and the questions that come before a change.           *)
(***************************************************************************)
\* Everything that ixmlNode_free goes to: children, attributes and the siblings behind.
RECURSIVE Reach(_, _)
Reach(h, n) ==
  IF n = NULL THEN {}
  ELSE {n} \cup Reach(h, h[n].firstChild) \cup Reach(h, h[n].nextSibling) \cup Reach(h, h[n].firstAttr)

ixmlNode_free(h, n) ==
  LET gone == Reach(h, n)
  IN [m \in DOMAIN h |-> IF m \in gone THEN [h[m] EXCEPT !.type = "freed"] ELSE h[m]]

\* Looks under the node, and also under the siblings behind it.
RECURSIVE ixmlNode_isAncestor(_, _, _)
ixmlNode_isAncestor(h, ancestor, toFind) ==
  /\ ancestor # NULL
  /\ \/ h[toFind].parentNode = ancestor
     \/ ixmlNode_isAncestor(h, h[ancestor].firstChild, toFind)
     \/ ixmlNode_isAncestor(h, h[ancestor].nextSibling, toFind)

ixmlNode_isParent(h, n, toFind) == h[toFind].parentNode = n

ixmlNode_allowChildren(h, n, child) ==
  CASE h[n].type \in {"attr", "text", "cdata"} -> FALSE
    [] h[n].type = "element" -> h[child].type \notin {"attr", "document"}
    [] h[n].type = "document" -> h[child].type = "element"
    [] OTHER -> TRUE

(***************************************************************************)
(* node.c: changing the list of children.                                  *)
(***************************************************************************)
\* The pointers around a node are closed behind it and its own are cleared.
Unlinked(h, n, old) ==
  LET prev == h[old].prevSibling
      next == h[old].nextSibling
      h1 == IF prev # NULL THEN [h EXCEPT ![prev].nextSibling = next] ELSE h
      h2 == IF h1[n].firstChild = old THEN [h1 EXCEPT ![n].firstChild = next] ELSE h1
      h3 == IF next # NULL THEN [h2 EXCEPT ![next].prevSibling = prev] ELSE h2
  IN [h3 EXCEPT ![old].nextSibling = NULL, ![old].prevSibling = NULL, ![old].parentNode = NULL]

\* "keep": the caller gives a place for the removed node; otherwise it is freed.
ixmlNode_removeChild(h, n, old, keep) ==
  CASE n = NULL \/ old = NULL -> Refused(h, "INVALID_PARAMETER")
    [] n # NULL /\ old # NULL /\ ~ixmlNode_isParent(h, n, old) -> Refused(h, "NOT_FOUND_ERR")
    [] OTHER -> LET h1 == Unlinked(h, n, old)
                IN IF keep THEN Result("SUCCESS", h1, old) ELSE Done(ixmlNode_free(h1, old))

RECURSIVE LastOf(_, _)
LastOf(h, n) == IF h[n].nextSibling = NULL THEN n ELSE LastOf(h, h[n].nextSibling)

AppendedFirst(h, n, new) ==      \* mutant: put at the head of the list
  LET first == h[n].firstChild
      h1 == [h EXCEPT ![new].parentNode = n, ![new].ownerDocument = h[n].ownerDocument,
                      ![n].firstChild = new]
  IN IF first = NULL THEN h1 ELSE [h1 EXCEPT ![new].nextSibling = first]

\* What is appended is linked behind the last child and taken over by the document.
Appended(h, n, new) ==
  LET first == h[n].firstChild
      h1 == [h EXCEPT ![new].parentNode = n, ![new].ownerDocument = h[n].ownerDocument]
  IN IF first = NULL THEN [h1 EXCEPT ![n].firstChild = new]
     ELSE LET last == LastOf(h, first)
          IN [h1 EXCEPT ![last].nextSibling = new, ![new].prevSibling = last]

\* A child of the node itself is removed without being kept, that is freed, and used.
ixmlNode_appendChild(h, n, new) ==
  IF n = NULL \/ new = NULL THEN Refused(h, "INVALID_PARAMETER")
  ELSE CASE h[new].ownerDocument # NULL /\ h[n].ownerDocument # h[new].ownerDocument ->
              Refused(h, "WRONG_DOCUMENT_ERR")
         [] ixmlNode_isAncestor(h, new, n) \/ ~ixmlNode_allowChildren(h, n, new) ->
              Refused(h, "HIERARCHY_REQUEST_ERR")
         [] ixmlNode_isParent(h, n, new) -> Crashed(h)
         [] OTHER -> Done(Appended(h, n, new))

\* Linked in front of refChild; the pointers of a node that comes from elsewhere stay.
InsertedBefore(h, n, new, ref) ==
  LET prev == h[ref].prevSibling
      h1 == [h EXCEPT ![new].nextSibling = ref]
      h2 == IF prev # NULL THEN [h1 EXCEPT ![prev].nextSibling = new, ![new].prevSibling = prev] ELSE h1
      h3 == [h2 EXCEPT ![ref].prevSibling = new]
      h4 == IF h3[new].prevSibling = NULL THEN [h3 EXCEPT ![n].firstChild = new] ELSE h3
  IN [h4 EXCEPT ![new].parentNode = n]

\* A missing refChild fails the assertion of ixmlNode_isParent; a child of the node itself
\* is freed and used.
ixmlNode_insertBefore(h, n, new, ref) ==
  IF n = NULL \/ new = NULL THEN Refused(h, "INVALID_PARAMETER")
  ELSE CASE ~ixmlNode_allowChildren(h, n, new) \/ ixmlNode_isAncestor(h, new, n) ->
              Refused(h, "HIERARCHY_REQUEST_ERR")
         [] h[n].ownerDocument # h[new].ownerDocument -> Refused(h, "WRONG_DOCUMENT_ERR")
         [] ref = NULL -> Crashed(h)
         [] ref # NULL /\ ~ixmlNode_isParent(h, n, ref) -> Refused(h, "NOT_FOUND_ERR")
         [] ixmlNode_isParent(h, n, new) -> Crashed(h)
         [] OTHER -> Done(InsertedBefore(h, n, new, ref))

ixmlNode_replaceChild(h, n, new, old, keep) ==
  IF n = NULL \/ new = NULL \/ old = NULL THEN Refused(h, "INVALID_PARAMETER")
  ELSE CASE ixmlNode_isAncestor(h, new, n) \/ ~ixmlNode_allowChildren(h, n, new) ->
              Refused(h, "HIERARCHY_REQUEST_ERR")
         [] h[n].ownerDocument # h[new].ownerDocument -> Refused(h, "WRONG_DOCUMENT_ERR")
         [] ~ixmlNode_isParent(h, n, old) -> Refused(h, "NOT_FOUND_ERR")
         [] OTHER -> LET inserted == ixmlNode_insertBefore(h, n, new, old)
                     IN IF inserted.rc # "SUCCESS" THEN inserted
                        ELSE ixmlNode_removeChild(inserted.heap, n, old, keep)

(***************************************************************************)
(* node.c and document.c: copies.                                          *)
(***************************************************************************)
\* One node: no pointers, no owner document.
ixmlNode_cloneElement(h, n) ==
  New(h, [h[n] EXCEPT !.parentNode = NULL, !.firstChild = NULL, !.prevSibling = NULL,
                      !.nextSibling = NULL, !.firstAttr = NULL, !.ownerDocument = NULL,
                      !.ownerElement = NULL])
ixmlNode_cloneAttr(h, n) == ixmlNode_cloneElement(h, n)
ixmlNode_cloneTextNode(h, n) == New(h, Node(h[n].type, h[n].nodeName, h[n].nodeValue, NULL))
ixmlNode_cloneDoc(h) == New(h, Node("document", DocumentName, NoString, NULL))

\* ixmlNode_setSiblingNodesParent, with the first child.
RECURSIVE SetParents(_, _, _)
SetParents(h, n, parent) ==
  IF n = NULL THEN h ELSE SetParents([h EXCEPT ![n].parentNode = parent], h[n].nextSibling, parent)

SetPrev(h, n, prev) == IF n = NULL THEN h ELSE [h EXCEPT ![n].prevSibling = prev]

RECURSIVE ixmlNode_cloneNodeTreeRecursive(_, _, _)
\* The copies of the attributes and of the children are hung at the copy of their element.
Hung(made, attrs, kids) ==
  Result("SUCCESS", [SetParents(kids.heap, kids.node, made.node)
                       EXCEPT ![made.node].firstAttr = attrs.node, ![made.node].firstChild = kids.node],
         made.node)

\* The copy with the attributes and, if deep, the children of the original.
CloneWithin(h, n, deep) ==
  LET made == ixmlNode_cloneElement(h, n)
      attrs == ixmlNode_cloneNodeTreeRecursive(made.heap, h[n].firstAttr, deep)
  IN Hung(made, attrs,
          ixmlNode_cloneNodeTreeRecursive(attrs.heap, IF deep THEN h[n].firstChild ELSE NULL, deep))

\* The copy of the rest of a list goes behind the copy of its first node, that of the
\* children of a document below it.
Chained(new, more, goesOn) ==
  CASE goesOn -> Result("SUCCESS", [SetPrev(more.heap, more.node, new)
                                      EXCEPT ![new].nextSibling = more.node], new)
    [] ~goesOn /\ more.node # NULL ->
         Result("SUCCESS", [more.heap EXCEPT ![new].firstChild = more.node,
                                             ![more.node].parentNode = new], new)
    [] OTHER -> Result("SUCCESS", more.heap, new)

\* A node and, for elements and attributes, what stands behind it in its list; behind a
\* text or a CDATA section the copy of the list ends.
ixmlNode_cloneNodeTreeRecursive(h, n, deep) ==
  IF n = NULL THEN Done(h)
  ELSE LET type == h[n].type
           made == CASE type = "element" -> CloneWithin(h, n, deep)
                     [] type = "attr" -> ixmlNode_cloneAttr(h, n)
                     [] type = "document" -> ixmlNode_cloneDoc(h)
                     [] OTHER -> ixmlNode_cloneTextNode(h, n)
           goesOn == type = "attr" \/ (type = "element" /\ deep)
           next == CASE goesOn -> h[n].nextSibling
                     [] ~goesOn /\ type = "document" /\ deep -> h[n].firstChild
                     [] OTHER -> NULL
       IN Chained(made.node, ixmlNode_cloneNodeTreeRecursive(made.heap, next, deep), goesOn)

ixmlNode_cloneNodeTree(h, n, deep) ==
  IF h[n].type = "element" THEN CloneWithin(h, n, deep)
  ELSE ixmlNode_cloneNodeTreeRecursive(h, n, deep)

ixmlNode_cloneNode(h, n, deep) ==
  IF h[n].type = "attr" THEN ixmlNode_cloneAttr(h, n) ELSE ixmlNode_cloneNodeTree(h, n, deep)

\* Goes to children and siblings, never to attributes.
RECURSIVE ixmlDocument_setOwnerDocument(_, _, _)
ixmlDocument_setOwnerDocument(h, doc, n) ==
  IF n = NULL THEN h
  ELSE LET h1 == [h EXCEPT ![n].ownerDocument = doc]
           h2 == ixmlDocument_setOwnerDocument(h1, doc, h1[n].firstChild)
       IN ixmlDocument_setOwnerDocument(h2, doc, h2[n].nextSibling)

ixmlDocument_importNode(h, doc, n, deep) ==
  IF h[n].type = "document" THEN Refused(h, "NOT_SUPPORTED_ERR")
  ELSE LET made == ixmlNode_cloneNode(h, n, deep)
       IN [made EXCEPT !.heap = ixmlDocument_setOwnerDocument(made.heap, doc, made.node)]

(***************************************************************************)
(* node.c, nodeList.c, namedNodeMap.c: reading.                            *)
(***************************************************************************)
RECURSIVE SiblingsFrom(_, _)
SiblingsFrom(h, n) == IF n = NULL THEN <<>> ELSE <<n>> \o SiblingsFrom(h, h[n].nextSibling)

ixmlNode_getChildNodes(h, n) == SiblingsFrom(h, h[n].firstChild)
ixmlNode_getAttributes(h, n) == SiblingsFrom(h, h[n].firstAttr)
ixmlNodeList_item(list, index) == IF index >= Len(list) THEN NULL ELSE list[index + 1]

\* A map of attributes is its first one: the rest is found along the siblings.
ixmlNamedNodeMap_getNamedItem(h, n, name) ==
  LET named == SelectSeq(ixmlNode_getAttributes(h, n), LAMBDA a : h[a].nodeName = name)
  IN IF named = <<>> THEN NULL ELSE named[1]

RECURSIVE ixmlNode_getElementsByTagNameRecursive(_, _, _)
ixmlNode_getElementsByTagNameRecursive(h, n, name) ==
  IF n = NULL THEN <<>>
  ELSE (IF h[n].type = "element" /\ h[n].nodeName = name THEN <<n>> ELSE <<>>)
         \o ixmlNode_getElementsByTagNameRecursive(h, h[n].firstChild, name)
         \o ixmlNode_getElementsByTagNameRecursive(h, h[n].nextSibling, name)

\* The node itself counts, the siblings behind it do not.
ixmlNode_getElementsByTagName(h, n, name) ==
  (IF h[n].type = "element" /\ h[n].nodeName = name THEN <<n>> ELSE <<>>)
    \o ixmlNode_getElementsByTagNameRecursive(h, h[n].firstChild, name)

MatchesNS(h, n, uri, local) ==
  h[n].type = "element" /\ h[n].localName = local /\ h[n].namespaceURI = uri

RECURSIVE ixmlNode_getElementsByTagNameNSRecursive(_, _, _, _)
ixmlNode_getElementsByTagNameNSRecursive(h, n, uri, local) ==
  IF n = NULL THEN <<>>
  ELSE (IF MatchesNS(h, n, uri, local) THEN <<n>> ELSE <<>>)
         \o ixmlNode_getElementsByTagNameNSRecursive(h, h[n].firstChild, uri, local)
         \o ixmlNode_getElementsByTagNameNSRecursive(h, h[n].nextSibling, uri, local)

ixmlNode_getElementsByTagNameNS(h, n, uri, local) ==
  (IF MatchesNS(h, n, uri, local) THEN <<n>> ELSE <<>>)
    \o ixmlNode_getElementsByTagNameNSRecursive(h, h[n].firstChild, uri, local)

\* The first element of that name, also among the siblings behind.
RECURSIVE ixmlDocument_getElementById(_, _, _)
ixmlDocument_getElementById(h, n, name) ==
  CASE n = NULL -> NULL
    [] n # NULL /\ h[n].type = "element" /\ h[n].nodeName = name -> n
    [] OTHER -> LET below == ixmlDocument_getElementById(h, h[n].firstChild, name)
                IN IF below # NULL THEN below
                   ELSE ixmlDocument_getElementById(h, h[n].nextSibling, name)
=============================================================================
