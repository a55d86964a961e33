-------------------------------- MODULE Xml --------------------------------
(***************************************************************************)
(* xml::node and xml::document (src/src/xml.cpp, src/include/xml.hpp): a   *)
(* tree that is edited, written as text and read from text.                *)
(*                                                                         *)
(* A text is a sequence of characters, where a name, "--", "[CDATA[", "]]" *)
(* and an entity behind its "&" are one character each.  An optional is a  *)
(* sequence of at most one value.                                          *)
(***************************************************************************)
EXTENDS Integers, Sequences, SequencesExt

CONSTANTS XmlTexts,       \* the texts that others write
          XmlNames,       \* the names of elements, prefix included
          XmlValues,      \* contents and attribute values
          XmlUris,
          TextWidth,      \* the length up to which a content stays on its line
          MaxNodes,       \* bound: nodes of a tree
          MaxEdits        \* bound: changes since a text of others was read

VARIABLES xml,            \* document
          xmlText,        \* what it has been read from, until it is changed
          edits

xmlVars == <<xml, xmlText, edits>>

-----------------------------------------------------------------------------
(* node *)

None == <<>>
Some(x) == <<x>>
NewNode ==
    [type |-> "element", name |-> <<>>, text |-> None, children |-> None,
     attributes |-> <<>>, selfClosing |-> None, target |-> <<>>, data |-> <<>>,
     xmlns |-> None, declared |-> <<>>, inherited |-> <<>>]

CreateComment(text) == [NewNode EXCEPT !.type = "comment", !.text = Some(text)]
CreateText(text) == [NewNode EXCEPT !.type = "text", !.text = Some(text)]
CreateInstruction(target, data) ==
    [NewNode EXCEPT !.type = "instruction", !.target = target, !.data = data]

PositionOf(s, cs, from) ==
    IF \A i \in from..Len(s) : s[i] \notin cs THEN 0
    ELSE CHOOSE i \in from..Len(s) : s[i] \in cs /\ \A j \in from..(i - 1) : s[j] \notin cs
Find(s, pattern, from) ==
    LET at == {i \in from..(Len(s) - Len(pattern) + 1) : SubSeq(s, i, i + Len(pattern) - 1) = pattern}
    IN  IF at = {} THEN 0 ELSE CHOOSE i \in at : \A j \in at : i <= j
From(s, i) == SubSeq(s, i, Len(s))
White == {" ", "newline"}
FirstOther(s, from) ==
    IF \A i \in from..Len(s) : s[i] \in White THEN 0
    ELSE CHOOSE i \in from..Len(s) : s[i] \notin White /\ \A j \in from..(i - 1) : s[j] \in White

Namespace(prefix, uri) == [prefix |-> prefix, uri |-> uri]

\* setName(): a name without prefix, too, gives the node a namespace.
SetName(n, name) ==
    LET colon == PositionOf(name, {":"}, 1)
    IN  IF colon = 0 THEN [n EXCEPT !.name = name, !.xmlns = Some(Namespace(None, <<>>))]
        ELSE [n EXCEPT !.name = From(name, colon + 1),
                       !.xmlns = Some(Namespace(Some(SubSeq(name, 1, colon - 1)), <<>>))]

SetAttribute(n, key, value) ==
    [n EXCEPT !.attributes = [k \in DOMAIN @ \cup {key} |-> IF k = key THEN value ELSE @[k]]]
RemoveAttribute(n, key) == [n EXCEPT !.attributes = [k \in DOMAIN @ \ {key} |-> @[k]]]

HasPrefix(n) == n.xmlns # None /\ n.xmlns[1].prefix # None
QualifiedName(n) == (IF HasPrefix(n) THEN n.xmlns[1].prefix[1] \o <<":">> ELSE <<>>) \o n.name

HasText(n) == n.text # None
HasChildren(n) == n.children # None /\ n.children[1] # <<>>
IsSelfClosing(n) ==
    IF n.selfClosing # None THEN n.selfClosing[1]
    ELSE (HasText(n) => n.text[1] = <<>>) /\ ~HasChildren(n)

DeclareNamespace(n, prefix, uri) ==
    [n EXCEPT !.declared = Append(@, Namespace(Some(prefix), uri))]
UndeclareNamespace(n, prefix) ==
    [n EXCEPT !.declared = SelectSeq(@, LAMBDA ns : ns.prefix # Some(prefix))]

Children(n) == IF n.children = None THEN <<>> ELSE n.children[1]
AddChild(n, child) == [n EXCEPT !.children = Some(Append(Children(n), child))]

\* Mutant: the attributes stay.
ClearNode_KeepsAttributes(n) ==
    [n EXCEPT !.text = None, !.children = None, !.selfClosing = None,
              !.declared = <<>>, !.target = <<>>, !.data = <<>>]
ClearNode(n) ==
    [n EXCEPT !.text = None, !.children = None, !.attributes = <<>>, !.selfClosing = None,
              !.declared = <<>>, !.target = <<>>, !.data = <<>>]
\* The type and what was inherited stay.
ResetNode(n) == [ClearNode(n) EXCEPT !.name = <<>>, !.xmlns = None]

-----------------------------------------------------------------------------
(* Text. *)

TrimString(s) ==
    LET kept == {i \in DOMAIN s : s[i] \notin White}
    IN  IF kept = {} THEN <<>>
        ELSE SubSeq(s, FirstOther(s, 1), CHOOSE i \in kept : \A j \in (i + 1)..Len(s) : j \notin kept)

EntityOf == [c \in {"&", "<", ">", "\"", "'"} |->
    CASE c = "&" -> "amp;" [] c = "<" -> "lt;" [] c = ">" -> "gt;"
      [] c = "\"" -> "quot;" [] c = "'" -> "apos;"]

\* Mutant: an ampersand is not written as an entity.
EscapeText_NoAmpersand(s) ==
    FlattenSeq([i \in DOMAIN s |->
        IF s[i] \in DOMAIN EntityOf \ {"&"} THEN <<"&", EntityOf[s[i]]>> ELSE <<s[i]>>])
EscapeText(s) ==
    FlattenSeq([i \in DOMAIN s |->
        IF s[i] \in DOMAIN EntityOf THEN <<"&", EntityOf[s[i]]>> ELSE <<s[i]>>])

ReplaceAllIn(s, entity, c) ==
    LET Starts(i) == i \in 1..(Len(s) - 1) /\ s[i] = "&" /\ s[i + 1] = entity
    IN  FlattenSeq([i \in DOMAIN s |->
            IF Starts(i) THEN <<c>> ELSE IF Starts(i - 1) THEN <<>> ELSE <<s[i]>>])
\* The entities in this order, then the numbers: what the last entity leaves
\* is read as a number, too.
Unescape(s) ==
    LET named == FoldLeft(LAMBDA r, c : ReplaceAllIn(r, EntityOf[c], c),
                          s, <<"'", "\"", ">", "<", "&">>)
    IN  ReplaceAllIn(ReplaceAllIn(named, "#60;", "<"), "#x26;", "&")

-----------------------------------------------------------------------------
(* node::deserialize().  It fills the node as it goes: after an exception   *)
(* the node keeps what has been read.  "undefined": a character was used    *)
(* that nothing has been read into.                                         *)

XmlDone(n, rest) == [outcome |-> "read", node |-> n, rest |-> rest]
XmlFailed(n) == [outcome |-> "thrown", node |-> n, rest |-> <<>>]
Undefined(n) == [outcome |-> "undefined", node |-> n, rest |-> <<>>]

Instruction(content, Data(_)) ==
    LET space == PositionOf(content, {" "}, 1)
    IN  IF space = 0 THEN CreateInstruction(content, <<>>)
        ELSE CreateInstruction(SubSeq(content, 1, space - 1), Data(From(content, space + 1)))
Same(s) == s

\* An attribute or a declaration of a namespace, where the last one counts.
AssignAttribute(n, name, value) ==
    LET prefix == CASE name = <<"xmlns">> -> Some(<<>>)
                    [] IsPrefix(<<"xmlns", ":">>, name) -> Some(From(name, 3))
                    [] OTHER -> None
    IN  IF prefix = None THEN SetAttribute(n, name, Unescape(value))
        ELSE DeclareNamespace(UndeclareNamespace(n, prefix[1]), prefix[1], value)

RECURSIVE ReadAttributes(_, _)
ReadAttributes(n, s) ==
    LET start == FirstOther(s, 1)
        equal == PositionOf(s, {"="}, 1)
        name == TrimString(SubSeq(s, 1, equal - 1))
        quote == s[equal + 1]
        close == PositionOf(s, {quote}, equal + 2)
        value == IF close = 0 THEN From(s, equal + 2) ELSE SubSeq(s, equal + 2, close - 1)
        rest == IF close = 0 THEN <<>> ELSE From(s, close + 1)
    IN  CASE start = 0 -> XmlDone(n, <<>>)
          [] start # 0 /\ s[start] = "/" -> XmlDone(n, <<>>)
          [] start # 0 /\ s[start] # "/" ->
               IF equal = 0 THEN Undefined(n)
               ELSE IF name = <<>> THEN XmlFailed(n)
               ELSE IF equal = Len(s) THEN Undefined(n)
               ELSE IF quote \notin {"\"", "'"} THEN XmlFailed(n)
               ELSE ReadAttributes(AssignAttribute(n, name, value), rest)

\* The declaration of a prefix on the node itself, else the outermost one.
NamespaceOf(n, prefix) ==
    LET known == n.declared \o n.inherited
        at == {i \in DOMAIN known : known[i].prefix = Some(prefix)}
    IN  IF at = {} THEN None ELSE Some(known[CHOOSE i \in at : \A j \in at : i <= j])

Preserves(n, preserve) ==
    LET key == <<"xml", ":", "space">>
    IN  IF key \in DOMAIN n.attributes THEN n.attributes[key] = <<"preserve">> ELSE preserve

RECURSIVE Deserialize(_, _, _), ReadContent(_, _, _, _)
\* After the tag: children and text up to any "</", where the end tag has to
\* be somewhere behind.  Of several texts the last one stays.
ReadContent(n, name, s, preserve) ==
    LET cdata == Find(s, <<"]]", ">">>, 4)
        pi == Find(s, <<"?", ">">>, 3)
        tag == PositionOf(s, {"<"}, 1)
        text == IF preserve THEN SubSeq(s, 1, tag - 1) ELSE TrimString(SubSeq(s, 1, tag - 1))
        More(m, rest) == ReadContent(m, name, rest, preserve)
        Adopt(child) == IF child.outcome # "read" THEN [child EXCEPT !.node = n]
                        ELSE More(AddChild(n, child.node), child.rest)
    IN  CASE tag = 0 -> XmlFailed(n)
          [] tag > 1 -> More([n EXCEPT !.text = Some(Unescape(text))], From(s, tag))
          [] tag = 1 ->
               IF IsPrefix(<<"<", "/">>, s)
               THEN IF Find(s, <<"<", "/">> \o name \o <<">">>, 1) = 0 THEN XmlFailed(n)
                    ELSE XmlDone(n, From(s, PositionOf(s, {">"}, 1) + 1))
               ELSE IF IsPrefix(<<"<", "!", "[CDATA[">>, s)
               THEN IF cdata = 0 THEN XmlFailed(n)
                    ELSE More(AddChild(n, CreateText(SubSeq(s, 4, cdata - 1))), From(s, cdata + 2))
               ELSE IF IsPrefix(<<"<", "?">>, s)
               THEN IF pi = 0 THEN XmlFailed(n)
                    ELSE More(AddChild(n, Instruction(SubSeq(s, 3, pi - 1), Same)), From(s, pi + 2))
               ELSE Adopt(Deserialize([NewNode EXCEPT !.inherited = n.inherited \o n.declared], s, preserve))

\* Behind the attributes: the name of the tag, which ends at `end`, is given to
\* the node and what is in the element is read.
EnterElement(read, name, s, end, preserve) ==
    LET colon == PositionOf(name, {":"}, 1)
        ns == NamespaceOf(read.node, SubSeq(name, 1, colon - 1))
        named == IF colon = 0 THEN [read.node EXCEPT !.name = name]
                 ELSE [read.node EXCEPT !.name = From(name, colon + 1), !.xmlns = ns]
        tagged == [named EXCEPT !.selfClosing = Some(s[end - 1] = "/")]
        keep == Preserves(tagged, preserve)
        rest == IF keep THEN From(s, end + 1) ELSE TrimString(From(s, end + 1))
    IN  IF read.outcome # "read" THEN [read EXCEPT !.node.declared = <<>>]
        ELSE IF colon # 0 /\ ns = None THEN XmlFailed(read.node)
        ELSE IF s[end - 1] = "/" THEN XmlDone(tagged, TrimString(From(s, end + 1)))
        ELSE IF rest = <<>> THEN XmlDone(tagged, <<>>)
        ELSE ReadContent(tagged, name, rest, keep)

ReadElement(n, s, start, preserve) ==
    LET end == PositionOf(s, {">"}, start)
        first == FirstOther(s, start + 1)
        last == PositionOf(s, White \cup {"/", ">"}, first)
    IN  IF end = 0 \/ first = 0 \/ first >= end \/ last <= first THEN XmlFailed(n)
        ELSE EnterElement(ReadAttributes(n, SubSeq(s, last, end - 1)), SubSeq(s, first, last - 1), s, end, preserve)

Deserialize(node, s, preserve) ==
    LET n == ResetNode(node)
        start == PositionOf(s, {"<"}, 1)
        here == From(s, start)
        comment == Find(s, <<"--", ">">>, start + 3)
        pi == Find(s, <<"?", ">">>, start + 2)
    IN  IF start = 0 THEN XmlFailed(n)
        ELSE IF IsPrefix(<<"<", "!", "--">>, here)
        THEN IF comment = 0 THEN XmlFailed(n)
             ELSE XmlDone(CreateComment(SubSeq(s, start + 3, comment - 1)), From(s, comment + 2))
        ELSE IF IsPrefix(<<"<", "?">>, here)
        THEN IF pi = 0 THEN XmlFailed(n)
             ELSE XmlDone(Instruction(SubSeq(s, start + 2, pi - 1), TrimString), From(s, pi + 2))
        ELSE ReadElement(n, s, start, preserve)

-----------------------------------------------------------------------------
(* node::serialize() *)

Tab(depth) == [i \in 1..depth |-> " "]

RECURSIVE Serialize(_, _)
Serialize(n, depth) ==
    LET keys == SetToSeq(DOMAIN n.attributes)
        Quoted(s) == <<"=", "\"">> \o EscapeText(s) \o <<"\"">>
        \* An element without contents is written short when it is not self-closing.
        short == n.attributes = <<>> /\ ~HasText(n) /\ ~HasChildren(n) /\ ~IsSelfClosing(n)
        attributes == FlattenSeq([i \in DOMAIN keys |-> <<" ">> \o keys[i] \o Quoted(n.attributes[keys[i]])])
        own == SelectSeq(n.declared, LAMBDA ns : ns \notin Range(n.inherited))
        declared == FlattenSeq([i \in DOMAIN own |->
            <<" ", "xmlns", ":">> \o own[i].prefix[1] \o Quoted(own[i].uri)])
        escaped == EscapeText(n.text[1])
        text == IF ~HasText(n) THEN <<>>
                ELSE IF ~Contains(escaped, "newline") /\ Len(escaped) <= TextWidth THEN escaped
                ELSE <<"newline">> \o Tab(depth + 1) \o escaped \o <<"newline">> \o Tab(depth)
        children == IF n.children = None THEN <<>>
                    ELSE <<"newline">> \o FlattenSeq([i \in DOMAIN n.children[1] |->
                             Serialize(n.children[1][i], depth + 1) \o <<"newline">>]) \o Tab(depth)
    IN  CASE n.type = "comment" ->
               Tab(depth) \o <<"<", "!", "--">> \o (IF HasText(n) THEN n.text[1] ELSE <<>>) \o <<"--", ">">>
          [] n.type = "text" -> escaped
          [] n.type = "instruction" ->
               Tab(depth) \o <<"<", "?">> \o n.target \o <<" ">> \o n.data \o <<"?", ">">>
          [] n.type = "element" /\ short -> Tab(depth) \o <<"<">> \o QualifiedName(n) \o <<" ", "/", ">">>
          [] n.type = "element" /\ ~short ->
               Tab(depth) \o <<"<">> \o QualifiedName(n) \o attributes \o declared \o <<">">>
                   \o text \o children \o <<"<", "/">> \o QualifiedName(n) \o <<">">>

-----------------------------------------------------------------------------
(* document *)

NewDocument == [declaration |-> None, doctype |-> None, root |-> NewNode]
ClearDocument(d) == [NewDocument EXCEPT !.root = ClearNode(d.root)]
ResetDocument(d) == [NewDocument EXCEPT !.root = ResetNode(d.root)]

Doctype == <<"<", "!", "DOCTYPE">>
Delivered(declaration, doctype, root) ==
    [outcome |-> root.outcome,
     document |-> [declaration |-> declaration, doctype |-> doctype, root |-> root.node]]
\* The prolog, then the root: [outcome, document].
ReadDocument(d, s) ==
    LET pi == Find(s, <<"?", ">">>, 1)
        declared == IsPrefix(<<"<", "?", "xml">>, s) /\ pi # 0
        body == IF declared THEN From(s, pi + 2) ELSE s
        end == PositionOf(body, {">"}, 1)
        typed == IsPrefix(Doctype, body) /\ end # 0
    IN  Delivered(IF declared THEN Some(SubSeq(s, 1, pi + 1)) ELSE None,
                  IF typed THEN Some(SubSeq(body, 1, end)) ELSE None,
                  Deserialize(ResetNode(d.root), IF typed THEN From(body, end + 1) ELSE body, FALSE))

WriteDocument(d) ==
    LET Line(optional) == IF optional = None THEN <<>> ELSE optional[1] \o <<"newline">>
    IN  Line(d.declaration) \o Line(d.doctype) \o Serialize(d.root, 0)

RECURSIVE NodesOf(_)
NodesOf(n) == Some(n) \o FlattenSeq([i \in DOMAIN Children(n) |-> NodesOf(Children(n)[i])])

-----------------------------------------------------------------------------
(* A program that edits the root and its last child. *)

XmlInit == xml = NewDocument /\ xmlText = None /\ edits = 0

ReadXml(s) ==
    /\ xml' = ReadDocument(xml, s).document
    /\ xmlText' = Some(s) /\ edits' = 0

\* What a change of a node makes of it.
EditedNode(n) ==
    UNION {
        {SetName(n, name) : name \in XmlNames},
        {SetAttribute(n, <<"k">>, v) : v \in XmlValues}, {RemoveAttribute(n, <<"k">>)},
        {[n EXCEPT !.text = Some(v)] : v \in XmlValues}, {[n EXCEPT !.text = None]},
        {[n EXCEPT !.selfClosing = s] : s \in {None, Some(TRUE), Some(FALSE)}},
        {DeclareNamespace(n, <<"p">>, uri) : uri \in XmlUris}, {UndeclareNamespace(n, <<"p">>)},
        {[n EXCEPT !.xmlns = None], [n EXCEPT !.children = None], ClearNode(n)},
        {AddChild(n, child) : child \in {CreateComment(<<"a">>), CreateText(<<"a">>),
                                         CreateInstruction(<<"a">>, <<"b">>)}},
        {AddChild(n, SetName(NewNode, name)) : name \in XmlNames},
        {[n EXCEPT !.children = Some(RemoveAt(Children(n), i))] : i \in DOMAIN Children(n)}}

EditRoot == \E n \in EditedNode(xml.root) : xml' = [xml EXCEPT !.root = n]
EditChild ==
    LET nodes == Children(xml.root)
    IN  /\ nodes # <<>> /\ Last(nodes).type = "element"
        /\ \E n \in EditedNode(Last(nodes)) :
              xml' = [xml EXCEPT !.root.children = Some(Append(Front(nodes), n))]
EditProlog ==
    xml' \in {[xml EXCEPT !.doctype = Some(Doctype \o <<"a", ">">>)], ClearDocument(xml),
              ResetDocument(xml)}
XmlEdit ==
    /\ edits < MaxEdits
    /\ EditRoot \/ EditChild \/ EditProlog
    /\ Len(NodesOf(xml'.root)) <= MaxNodes
    /\ xmlText' = None /\ edits' = edits + 1

ReadOwn ==
    /\ edits < MaxEdits
    /\ xml' = ReadDocument(xml, WriteDocument(xml)).document
    /\ xmlText' = Some(WriteDocument(xml)) /\ edits' = edits + 1

XmlNext == (\E s \in XmlTexts : ReadXml(s)) \/ ReadOwn \/ XmlEdit
XmlSpec == XmlInit /\ [][XmlNext]_xmlVars

-----------------------------------------------------------------------------
(* Properties. *)

\* What a reader of a tree can tell: an empty text is none.
RECURSIVE Infoset(_)
Infoset(n) ==
    [type |-> n.type, name |-> QualifiedName(n), attributes |-> n.attributes,
     target |-> n.target, data |-> n.data,
     text |-> IF HasText(n) THEN n.text[1] ELSE <<>>,
     children |-> [i \in DOMAIN Children(n) |-> Infoset(Children(n)[i])]]

\* No ampersand that, unescaped, would begin a number.
NoReference(s) == \A i \in 1..(Len(s) - 1) : s[i] = "&" => s[i + 1] \notin {"#60;", "#x26;"}

\* What the text can say: elements with a name of letters, whose prefix is declared where
\* the tag is written in full; contents without blanks around them; declarations
\* only in full tags, and no declaration left out because an ancestor once had it.
\* And, unless they are in `also`: no content or value that reads like a reference,
\* no text beside children, and no text as a child.
RECURSIVE XmlWritable(_, _, _)
XmlWritable(n, scope, also) ==
    LET known == scope \cup Range(n.declared)
    IN  CASE n.type = "element" ->
               /\ n.name # <<>> /\ Head(n.name) # "!" /\ <<"xml", ":", "space">> \notin DOMAIN n.attributes
               /\ Range(n.inherited) \subseteq scope
               /\ HasPrefix(n) => \E ns \in known : ns.prefix = n.xmlns[1].prefix
               /\ n.attributes # <<>> \/ HasText(n) \/ HasChildren(n) \/ IsSelfClosing(n) \/ ~HasPrefix(n)
               /\ HasText(n) => n.text[1] = TrimString(n.text[1])
               /\ "references" \in also \/ \A s \in Range(n.text) \cup Range(n.attributes) : NoReference(s)
               /\ "mixed" \in also \/ (HasText(n) /\ n.text[1] # <<>> => ~HasChildren(n))
               /\ \A i \in DOMAIN Children(n) : XmlWritable(Children(n)[i], known, also)
          [] n.type = "text" -> "text" \in also
          [] OTHER -> n.attributes = <<>> /\ n.children = None /\ n.name = <<>> /\ n.xmlns = None

WrittenComesBack(also) ==
    XmlWritable(xml.root, {}, also) /\ (xml.declaration = None \/ xml.doctype = None) =>
        LET back == ReadDocument(NewDocument, WriteDocument(xml))
        IN  /\ back.outcome = "read"
            /\ Infoset(back.document.root) = Infoset(xml.root)
            /\ back.document.declaration = xml.declaration
            /\ back.document.doctype = xml.doctype

\* A tree that has been written is read back, prolog, entities, indentation and
\* the turned rule for short tags included; but for contents and values such as
\* "&#60;", mixed contents and CDATA, which the next three properties are about.
XmlComesBack == WrittenComesBack({})

\* xml.md: "Escape special characters appropriately."  Violated: what is written as
\* "&amp;#60;" is read as "&#60;" and then once more, as "<".
ReferencesComeBack == WrittenComesBack({"references"})

\* xml.md: "Mixed content: <element>text <child/>more text</element>" is a content
\* of elements.  Violated: a node has one text, and the blanks behind the last
\* child take its place.
MixedContentComesBack == WrittenComesBack({"mixed"})

\* xml.md: a Text node is "Plain text content".  Violated: a text child, which
\* CDATA is read as, is read back as the text of its parent.
TextNodesComeBack == WrittenComesBack({"text"})

\* Nothing of a former document, or of a reading that has failed, is left when
\* a document is read, as long as the root was an element.
XmlReadingForgets ==
    xmlText' # None /\ xml.root.type = "element"
       => xml' = ReadDocument(NewDocument, xmlText'[1]).document

\* xml.hpp:218: reset() is a "reset to default state", and a reading begins with it.
\* Violated: it leaves the type, so that an element that is read where a comment or
\* an instruction was the root is one of those.
RootsAreReset ==
    [][xmlText' # None => xml' = ReadDocument(NewDocument, xmlText'[1]).document]_xmlVars

\* White space behind the tags of a text without contents makes no difference,
\* but in the prolog: a doctype is only looked for right behind the declaration.
RECURSIVE IsBare(_)
IsBare(n) ==
    /\ n.type = "element" /\ Infoset(n).text = <<>> /\ <<"xml", ":", "space">> \notin DOMAIN n.attributes
    /\ \A i \in DOMAIN Children(n) : IsBare(Children(n)[i])
XmlLayoutIsIgnored ==
    xmlText # None =>
        LET s == xmlText[1]
            plain == ReadDocument(NewDocument, s)
            spaced == ReadDocument(NewDocument,
                FlattenSeq([i \in DOMAIN s |-> IF s[i] = ">" THEN <<">", "newline", " ">> ELSE <<s[i]>>]))
        IN  plain.outcome = "read" /\ IsBare(plain.document.root) /\ plain.document.declaration = None =>
                spaced.outcome = "read" /\ Infoset(spaced.document.root) = Infoset(plain.document.root)
=============================================================================
