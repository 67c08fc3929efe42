----------------------------- MODULE XmlElements -----------------------------
(***************************************************************************)
(* The attributes of an element (ixml/element.c).  They hang in a list of  *)
(* their own, firstAttr and nextSibling, and have no parent; ownerElement  *)
(* says where they are in use.  The functions that take a namespace        *)
(* compare with strcmp what is NULL in attributes made without one.        *)
(***************************************************************************)
EXTENDS XmlNodes

AttrsOf(h, e) == SiblingsFrom(h, h[e].firstAttr)

FirstThat(list, Test(_)) ==
  LET good == SelectSeq(list, Test) IN IF good = <<>> THEN NULL ELSE good[1]

NamedAttr(h, e, name) == FirstThat(AttrsOf(h, e), LAMBDA a : h[a].nodeName = name)

ixmlElement_getAttribute(h, e, name) ==
  LET a == NamedAttr(h, e, name) IN IF a = NULL THEN NoString ELSE h[a].nodeValue
ixmlElement_getAttributeNode(h, e, name) == NamedAttr(h, e, name)
ixmlElement_hasAttribute(h, e, name) == NamedAttr(h, e, name) # NULL

(***************************************************************************)
(* By name.                                                                *)
(***************************************************************************)
\* The new attribute takes the place of the old one in the list as seen from the others;
\* its own pointers, and those of the old one, stay as they are.
Replaced(h, e, old, new) ==
  LET prev == h[old].prevSibling
      next == h[old].nextSibling
      h1 == IF prev # NULL THEN [h EXCEPT ![prev].nextSibling = new] ELSE h
      h2 == IF next # NULL THEN [h1 EXCEPT ![next].prevSibling = new] ELSE h1
  IN IF h2[e].firstAttr = old THEN [h2 EXCEPT ![e].firstAttr = new] ELSE h2

AttrAppended(h, e, new) ==
  LET attrs == AttrsOf(h, e)
      last == attrs[Len(attrs)]
  IN IF attrs = <<>> THEN [h EXCEPT ![e].firstAttr = new, ![new].prevSibling = NULL,
                                    ![new].nextSibling = NULL]
     ELSE [h EXCEPT ![last].nextSibling = new, ![new].prevSibling = last]

ixmlElement_setAttributeNode(h, e, new, keep) ==
  LET old == NamedAttr(h, e, h[new].nodeName)
      used == [h EXCEPT ![new].ownerElement = e]
  IN CASE h[new].ownerDocument # h[e].ownerDocument -> Refused(h, "WRONG_DOCUMENT_ERR")
       [] h[new].ownerDocument = h[e].ownerDocument /\ h[new].ownerElement # NULL ->
            Refused(h, "INUSE_ATTRIBUTE_ERR")
       [] OTHER -> IF old = NULL THEN Done(AttrAppended(used, e, new))
                   ELSE LET h1 == Replaced(used, e, old, new)
                        IN IF keep THEN Result("SUCCESS", h1, old) ELSE Done(ixmlNode_free(h1, old))

ixmlElement_setAttribute(h, e, name, value) ==
  LET old == NamedAttr(h, e, name)
      made == ixmlDocument_createAttributeEx(h, h[e].ownerDocument, name)
  IN IF old # NULL THEN Done([h EXCEPT ![old].nodeValue = value])
     ELSE IF made.rc # "SUCCESS" THEN made
     ELSE ixmlElement_setAttributeNode([made.heap EXCEPT ![made.node].nodeValue = value],
                                       e, made.node, FALSE)

\* The value goes, the attribute stays.
ixmlElement_removeAttribute(h, e, name) ==
  LET old == NamedAttr(h, e, name)
  IN Done(IF old = NULL THEN h ELSE [h EXCEPT ![old].nodeValue = NoString])

\* ixmlNode_compare: two nodes that share name, value and type are compared by their
\* namespaces, which strcmp cannot do when they have none.
Compare(h, a, b) ==
  CASE a = b -> "same"
    [] a # b /\ h[a].nodeName # h[b].nodeName -> "differ"
    [] a # b /\ h[a].nodeName = h[b].nodeName /\ NoString \in {h[a].nodeValue, h[b].nodeValue} -> "crash"
    [] OTHER -> IF h[a].nodeValue # h[b].nodeValue \/ h[a].type # h[b].type THEN "differ"
                ELSE IF NoString \in {h[a].namespaceURI, h[b].namespaceURI} THEN "crash"
                ELSE IF h[a].namespaceURI # h[b].namespaceURI THEN "differ"
                ELSE IF NoString \in {h[a].prefix, h[b].prefix} THEN "crash"
                ELSE IF h[a].prefix = h[b].prefix /\ h[a].localName = h[b].localName THEN "same" ELSE "differ"

ixmlElement_findAttributeNode(h, e, attr) ==
  FirstThat(AttrsOf(h, e), LAMBDA a : Compare(h, a, attr) # "differ")

\* ownerElement stays.
ixmlElement_removeAttributeNode(h, e, attr) ==
  LET a == ixmlElement_findAttributeNode(h, e, attr)
      prev == h[a].prevSibling
      next == h[a].nextSibling
      h1 == IF prev # NULL THEN [h EXCEPT ![prev].nextSibling = next] ELSE h
      h2 == IF next # NULL THEN [h1 EXCEPT ![next].prevSibling = prev] ELSE h1
      h3 == IF h2[e].firstAttr = a THEN [h2 EXCEPT ![e].firstAttr = next] ELSE h2
  IN CASE a = NULL -> Refused(h, "NOT_FOUND_ERR")
       [] a # NULL /\ Compare(h, a, attr) = "crash" -> Crashed(h)
       [] OTHER -> Result("SUCCESS", [h3 EXCEPT ![a].parentNode = NULL, ![a].prevSibling = NULL,
                                                ![a].nextSibling = NULL], a)

(***************************************************************************)
(* By namespace.                                                           *)
(***************************************************************************)
\* Where the search for a local name in a namespace stops: at a match, or where a string
\* that is compared is NULL.
StopsNS(h, e, uri, local) ==
  FirstThat(AttrsOf(h, e), LAMBDA a : \/ NoString \in {h[a].localName, local}
                                      \/ /\ h[a].localName = local
                                         /\ \/ NoString \in {h[a].namespaceURI, uri}
                                            \/ h[a].namespaceURI = uri)
CrashesNS(h, a, uri, local) ==
  a # NULL /\ NoString \in {h[a].localName, h[a].namespaceURI, uri, local}

ixmlElement_getAttributeNodeNS(h, e, uri, local) ==
  LET a == StopsNS(h, e, uri, local)
  IN IF CrashesNS(h, a, uri, local) THEN Crashed(h) ELSE Result("SUCCESS", h, a)
ixmlElement_getAttributeNS(h, e, uri, local) ==
  LET found == ixmlElement_getAttributeNodeNS(h, e, uri, local)
  IN IF found.node = NULL THEN NoString ELSE h[found.node].nodeValue
ixmlElement_hasAttributeNS(h, e, uri, local) ==
  ixmlElement_getAttributeNodeNS(h, e, uri, local).node # NULL

ixmlElement_removeAttributeNS(h, e, uri, local) ==
  LET found == ixmlElement_getAttributeNodeNS(h, e, uri, local)
  IN CASE found.rc = "crash" -> found
       [] found.rc # "crash" /\ found.node = NULL -> Done(h)
       [] OTHER -> Done([h EXCEPT ![found.node].nodeValue = NoString])

\* Behind others the new attribute gets no pointer back; a replaced one is handed out
\* through rtAttr even if that is NULL.
ixmlElement_setAttributeNodeNS(h, e, new, keep) ==
  LET uri == h[new].namespaceURI
      local == h[new].localName
      stops == StopsNS(h, e, uri, local)
      attrs == AttrsOf(h, e)
      used == [h EXCEPT ![new].ownerElement = e]
  IN CASE h[new].ownerDocument # h[e].ownerDocument -> Refused(h, "WRONG_DOCUMENT_ERR")
       [] h[new].ownerDocument = h[e].ownerDocument /\ h[new].ownerElement \notin {NULL, e} ->
            Refused(h, "INUSE_ATTRIBUTE_ERR")
       [] OTHER ->
            CASE attrs = <<>> -> Done(AttrAppended(used, e, new))
              [] attrs # <<>> /\ CrashesNS(h, stops, uri, local) -> Crashed(h)
              [] OTHER -> IF stops = NULL THEN Done([used EXCEPT ![attrs[Len(attrs)]].nextSibling = new])
                          ELSE IF ~keep THEN Crashed(h)
                          ELSE Result("SUCCESS", Replaced(used, e, stops, new), stops)

\* A name with the prefix "xml" keeps its namespace; an unprefixed one is compared with it
\* through its NULL prefix, so that no "xmlns" gets as far as its own test.
XmlNamespace == "http://www.w3.org/XML/1998/namespace"

ixmlElement_setAttributeNS(h, e, uri, name, value) ==
  LET stops == StopsNS(h, e, uri, name[2])
      made == ixmlDocument_createAttributeNSEx(h, h[e].ownerDocument, uri, name)
      crashes == name[1] = Unprefixed \/ CrashesNS(h, stops, uri, name[2])
      reserved == name[1] = "xml" /\ uri # XmlNamespace
  IN CASE reserved -> Refused(h, "NAMESPACE_ERR")
       [] ~reserved /\ crashes -> Crashed(h)
       [] ~reserved /\ ~crashes /\ stops # NULL ->
            Done([h EXCEPT ![stops].prefix = name[1], ![stops].nodeValue = value])
       [] OTHER -> IF made.rc # "SUCCESS" THEN made
                   ELSE ixmlElement_setAttributeNodeNS([made.heap EXCEPT ![made.node].nodeValue = value],
                                                       e, made.node, FALSE)
=============================================================================
