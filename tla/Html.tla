-------------------------------- MODULE Html --------------------------------
(***************************************************************************)
(* html::document (src/src/html.cpp, src/include/html.hpp): an XML document *)
(* whose head and body are nodes of their own between two calls of         *)
(* serialize() and deserialize().                                          *)
(***************************************************************************)
EXTENDS Xml

CONSTANTS HtmlTexts,      \* the texts that others write
          HtmlContents,   \* texts for meta tags and the body
          MaxHtmlEdits    \* bound: changes since a text of others was read

VARIABLES html,           \* xml_doc, html_header and html_body
          htmlText,       \* what it has been read from, until it is changed
          htmlEdits

htmlVars == <<html, htmlText, htmlEdits>>

NamedPart(name) == [NewNode EXCEPT !.name = name, !.selfClosing = Some(FALSE)]
Header == NamedPart(<<"head">>)
Body == NamedPart(<<"body">>)

NewHtml ==
    [document |-> [NewDocument EXCEPT !.doctype = Some(Doctype \o <<" ", "html", ">">>),
                                      !.root = SetName(@, <<"html">>)],
     header |-> Header, body |-> Body]

MetaTag(name, content) ==
    SetAttribute(SetAttribute(SetName(NewNode, <<"meta">>), <<"name">>, name), <<"content">>, content)
Favicon(link) ==
    SetAttribute(SetAttribute(SetName(NewNode, <<"link">>), <<"rel">>, <<"icon">>), <<"href">>, link)

ClearHtml(h) ==
    [document |-> ClearDocument(h.document), header |-> ClearNode(h.header), body |-> ClearNode(h.body)]
\* No part has a name afterwards.
ResetHtml(h) ==
    [document |-> ResetDocument(h.document), header |-> ResetNode(h.header), body |-> ResetNode(h.body)]

\* serialize() puts the parts into the root, whatever was there.
Assembled(h) == [h.document EXCEPT !.root.children = Some(<<h.header, h.body>>)]

\* The parts of a document that has been read; `old` has those of none.
Distributed(old, read) ==
    LET outcome == IF read.outcome = "read" /\ read.document.root.name # <<"html">>
                   THEN "thrown" ELSE read.outcome
        Part(name, part) ==
            LET found == SelectSeq(Children(read.document.root), LAMBDA n : n.name = name)
            IN  IF outcome # "read" \/ found = <<>> THEN part ELSE Last(found)
    IN  [outcome |-> outcome,
         html |-> [document |-> read.document,
                   header |-> Part(<<"head">>, old.header), body |-> Part(<<"body">>, old.body)]]
\* deserialize(): the last head and the last body of the root, and nothing else.
ReadHtml(h, s) == Distributed(ResetHtml(h), ReadDocument(ResetHtml(h).document, s))

-----------------------------------------------------------------------------
HtmlInit == html = NewHtml /\ htmlText = None /\ htmlEdits = 0

AddMetaTag(content) ==
    html' = [html EXCEPT !.header = AddChild(@, MetaTag(<<"a">>, content))]
SetFavicon(link) == html' = [html EXCEPT !.header = AddChild(@, Favicon(link))]
EditBody(content) ==
    \/ html' = [html EXCEPT !.body = AddChild(@, [SetName(NewNode, <<"b">>) EXCEPT !.text = Some(content)])]
    \/ html' = [html EXCEPT !.body.text = Some(content)]
ReplaceParts ==
    html' \in {[html EXCEPT !.header = Header], [html EXCEPT !.body = Body], ClearHtml(html), ResetHtml(html)}
Serialized == html' = [html EXCEPT !.document = Assembled(html)]
HtmlEdit ==
    /\ \/ ReplaceParts \/ Serialized
       \/ \E content \in HtmlContents : AddMetaTag(content) \/ SetFavicon(content) \/ EditBody(content)
    /\ htmlText' = None

Deserialized(s) == html' = ReadHtml(html, s).html /\ htmlText' = Some(s)

HtmlNext ==
    \/ \E s \in HtmlTexts : Deserialized(s) /\ htmlEdits' = 0
    \/ /\ htmlEdits < MaxHtmlEdits /\ htmlEdits' = htmlEdits + 1
       /\ HtmlEdit \/ Deserialized(WriteDocument(Assembled(html)))
HtmlSpec == HtmlInit /\ [][HtmlNext]_htmlVars

-----------------------------------------------------------------------------
(* Properties. *)

\* The page that is written is the page that is read, whatever has been edited,
\* written and read before, with each part once, if head and body still have
\* their names.
HtmlComesBack ==
    LET back == ReadHtml(html, WriteDocument(Assembled(html)))
    IN  /\ XmlWritable(Assembled(html).root, {}, {}) /\ html.document.declaration = None
        /\ html.document.root.name = <<"html">> /\ html.document.root.type = "element"
        /\ html.header.name = <<"head">> /\ html.body.name = <<"body">>
        => /\ back.outcome = "read"
           /\ Infoset(back.html.header) = Infoset(html.header)
           /\ Infoset(back.html.body) = Infoset(html.body)
           /\ back.html.document.doctype = html.document.doctype
           /\ Len(Children(back.html.document.root)) = 2

\* A page that has been read has no part of a former page, as long as the root was
\* an element and the former page declared no namespace on it: reset() keeps what
\* head and body have inherited, and a page without one of them leaves it there.
HtmlReadingForgets ==
    htmlText' # None /\ html.document.root.type = "element"
        /\ html.header.inherited = <<>> /\ html.body.inherited = <<>>
       => html' = ReadHtml(NewHtml, htmlText'[1]).html

\* The same whatever was declared: xml.hpp:218 says "reset to default state".
\* Violated by a page that declares a namespace and a page without a head.
PagesAreReset ==
    [][htmlText' # None /\ html.document.root.type = "element"
         => html' = ReadHtml(NewHtml, htmlText'[1]).html]_htmlVars

\* What is written of a document or a page, within what their text can say, is what
\* is read again, with one head
\* and one body in a page, whatever has been edited, written and read before.
DocumentsSurvive == XmlComesBack /\ XmlLayoutIsIgnored /\ HtmlComesBack

\* Reading one document leaves nothing of another, but for the type of a root that
\* was no element and the namespaces that a head or a body had inherited.
ReadingForgets == [][[XmlReadingForgets]_xmlVars /\ [HtmlReadingForgets]_htmlVars]_<<xmlVars, htmlVars>>
=============================================================================
