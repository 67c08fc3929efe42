-------------------------------- MODULE MCXml --------------------------------
(* Texts of a few items that exercise nesting, attributes, namespaces and data. *)
EXTENDS XmlSoundness

CONSTANT MaxItems

A == <<Unprefixed, "a">>
B == <<Unprefixed, "b">>
X == <<Unprefixed, "x">>
PA == <<"p", "a">>
PB == <<"p", "b">>
Default == <<Unprefixed, "xmlns">>
XmlnsP == <<"xmlns", "p">>
XmlnsQ == <<"xmlns", "q">>

Items ==
  {Tag("open", A, <<>>), Tag("empty", A, <<>>), Tag("open", PA, <<<<XmlnsP, "u">>>>),
   Tag("open", A, <<<<Default, "u">>>>), Tag("empty", A, <<<<X, "&lt;">>, <<Default, "u">>>>),
   Tag("open", PA, <<>>), Tag("close", A, <<>>), Tag("close", PA, <<>>),
   Data("text", "t"), Data("cdata", "d"), Data("comment", ""), Data("ws", "")}

\* A text is what stands between two tags: no two of them follow each other.
Sequences == {s \in BoundedSeq(Items, MaxItems) :
                \A i \in 1..(Len(s) - 1) : ~(s[i].k \in {"text", "ws"} /\ s[i + 1].k \in {"text", "ws"})}

Bindings == {<<>>, <<<<Default, "u">>>>, <<<<Default, "w">>>>, <<<<XmlnsP, "u">>>>, <<<<XmlnsP, "w">>>>,
             <<<<XmlnsQ, "w">>, <<XmlnsP, "u">>>>, <<<<Default, "u">>, <<XmlnsP, "w">>>>}
Nested ==
  {<<Tag("open", o, b), Tag("open", m, c), Tag("empty", i, d), Tag("close", m, <<>>), Tag("close", o, <<>>)>> :
     o \in {A, PA}, m \in {A, PB}, i \in {B, PB}, b \in Bindings, c \in Bindings, d \in Bindings}

Quirks ==
  {<<Data("decl", ""), Data("comment", ""), Data("doctype", ""), Tag("empty", A, <<>>)>>,
   <<Tag("open", A, <<>>), Data("decl", ""), Tag("close", A, <<>>)>>,
   <<Tag("open", A, <<>>), Data("]]>", ""), Tag("close", A, <<>>)>>,
   <<Tag("open", A, <<>>), Data("cdata", ""), Tag("close", A, <<>>)>>,
   <<Tag("open", A, <<>>), Tag("unclosed", A, <<>>), Tag("open", B, <<>>)>>,
   <<Tag("open", A, <<>>), Data(">", ""), Tag("close", A, <<>>)>>,
   <<Tag("open", A, <<>>), Data("text", BadReference), Tag("close", A, <<>>)>>,
   <<Tag("empty", A, <<<<X, BadReference>>>>)>>,
   <<Tag("empty", A, <<<<X, "v">>, <<B, "v">>, <<X, "w">>>>)>>}

MCParseInputs == Sequences \cup Nested \cup Quirks

MCBaseInputs ==
  {<<Tag("open", A, <<<<X, "v">>>>), Tag("empty", B, <<>>), Tag("close", A, <<>>)>>,
   <<Tag("open", PA, <<<<XmlnsP, "u">>>>), Data("ws", ""), Tag("close", PA, <<>>)>>}
MCNames == {B, PA}
MCValues == {"v"}
=============================================================================
