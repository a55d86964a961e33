------------------------------- MODULE MCText -------------------------------
(* Instances of JsonText, Ini, Yaml, Xml and Html for TLC.  They share nothing *)
(* but Xml's operators: a behaviour is one of one part.                        *)
EXTENDS JsonText, Ini, Yaml, Html

VARIABLE part

MCPointers == {<<>>, <<"/", "0">>, <<"/", "1">>, <<"/", "1", "a">>, <<"/", "a">>, <<"/", "a", "/", "0">>,
               <<"/", "a", "/", "a">>, <<"/", "~", "0", "1">>, <<"/", "~", "1">>,
               <<"/", "-", "1">>, <<"/", "2", "5", "5">>, <<"/", "a", "/", "2", "5">>}
MCScalars == {Integer(10), String(<<"a", "\"">>)}
\* Strings that begin as an extension's and are none.
MCPrefixed == {String(<<"base64:", "\"">>), String(<<"data:", "a">>)}

\* Texts with up to four tokens, and everything that looks like a number.
TokenTexts == SeqOf({"{", "}", "[", "]", ",", " ", "null"}, 4)
Member == <<"{", "\"", "a", "\"", ":", "1", "}">>
Edited == UNION {{RemoveAt(Member, i), InsertAt(Member, i, c), ReplaceAt(Member, i, c)} :
                    i \in DOMAIN Member, c \in {"{", "}", "[", "]", ",", ":", " ", "\"", "\\", "1", "-"}}
Doubled == {<<"[">> \o Member \o <<c>> \o Member \o <<"]">> : c \in {",", ":", "}", " "}}
NumberTexts == SeqOf({"-", "0", "1", ".", "e"}, 4) \cup {<<"1", "e", "+">> \o s : s \in SeqOf({"+", "1", "."}, 2)}
OtherTexts == {<<"{", "\"", "~", "1", "\"", ":", "null", "}">>, Tiny, <<"[">> \o Half \o <<"]">>, <<"[">> \o Tiny \o <<"]">>,
               <<"\"", "base64:", "a", "n", "n", "u", "\"">>, <<"\"", "base64:", "a", "n", "\"">>, <<"\"", "base64:", "a", "\"">>,
               <<"\"", "data:", "a", ";base64", ",", "a", "n", "n", "u", "\"">>, <<"\"", "data:", ",", "a", "n", "n", "\"">>,
               <<"\"", "data:", "a", "\"">>, <<"\"", "a", "e-acute", "a", "\"">>,
               <<"\"", "\\", "n", "\"">>, <<"\"", "\\", "u", "x0001", "\"">>,
               <<"\"", "\\", "u", "x00e9", "\"", "null">>}
MCTexts == UNION {TokenTexts, Edited, Doubled, NumberTexts, OtherTexts} \ {<<>>}

-----------------------------------------------------------------------------
MCSections == {<<"s">>, <<>>}
MCKeys == {<<"k">>, <<"[">>}
MCValues == {<<"v", "=", "]">>, <<>>}
MCIniTexts ==
    SeqOf({"[", "]", "=", "newline"}, 3)
        \cup {<<"[", "s", "]", "newline">> \o t : t \in SeqOf({"=", "k", "newline"}, 3)}
        \cup {<<"k", "=", "v", "newline">> \o t \o <<"newline", "k", "=", "w">> :
                t \in SeqOf({"[", "]", "=", ";", " "}, 2)}

-----------------------------------------------------------------------------
MCYamlLines == {
    <<>>, <<"a", ":">>, <<"b", ":", " ", "1">>, <<"-", " ", "1">>, <<"-", " ", "c", ":", " ", "1">>,
    <<" ", "d", ":", " ", "&", "x", " ", "1">>, <<" ", "-", " ", "*", "x">>,
    <<" ", "-", " ", "&", "x", " ", "1">>, <<"e", ":", " ", "*", "x">>, <<" ", "f", ":", " ", "*", "x">>,
    <<"g", ":", " ", "&", "x">>, <<" ", "h", ":">>, <<" ", " ", "i", ":", " ", "1">>,
    <<" ", " ", "-", " ", "1">>, <<" ", "\"", "\\", "\"", "#", "\"">>}

Word == YString(<<"w">>)
Leaves == {YNull, YInt(<<"-", "1">>), YInt(<<"0">>), YBool(TRUE), YDouble(<<"1", ".", "2">>), Word,
           YString(<<>>), YString(<<":", "newline">>), YString(<<"a", "\\", "#">>),
           YString(<<"-", "1">>), YString(<<"1">>), YString(<<"\"", ":">>)}
Few == {YNull, Word, YString(<<":">>)}
Single(v) == {YArray(<<v>>), YObject([k \in {<<"k">>} |-> v])}
Pair(u, v) == {YArray(<<u, v>>), YObject([k \in {<<"k">>, <<"l">>} |-> IF k = <<"k">> THEN u ELSE v]),
               YObject([k \in {<<"k">>, <<"l", "#">>} |-> IF k = <<"k">> THEN u ELSE v])}
Flat == UNION {Pair(u, v) : u, v \in Few}
Nested == UNION {UNION {Single(w) : w \in Single(v)} : v \in Leaves}
              \cup UNION {Pair(u, v) \cup Pair(v, u) : u \in Flat, v \in Few}
MCYamlDocs == Leaves \cup UNION {Single(v) : v \in Leaves \cup Nested} \cup Flat \cup Nested
                  \cup {YArray(<<>>), YObject(<<>>), YAlias(<<"x">>)}

-----------------------------------------------------------------------------
B == <<"<", "b", ">">>
EndB == <<"<", "/", "b", ">">>
Short == <<"<", "b", "/", ">">>
P == <<"<", "p", ":", "b", ">">>
InP == <<"<", "p", ":", "b", " ", "xmlns", ":", "p", "=", "'", "u", "'", ">">>
EndP == <<"<", "/", "p", ":", "b", ">">>
Comment == <<"<", "!", "--", "a", "--", ">">>
CData == <<"<", "!", "[CDATA[", "a", "]]", ">">>
Pi == <<"<", "?", "a", " ", "b", "?", ">">>
Keyed == <<"<", "b", " ", "k", "=", "\"", "&", "lt;", "\"", ">">>
Text == <<"w", " ">>
Declaration == <<"<", "?", "xml", "?", ">">>
TypeA == <<"<", "!", "DOCTYPE", "a", ">">>
A == <<"<", "a", "/", ">">>
Spaced == <<"<", "p", ":", "a", " ", "xml", ":", "space", "=", "'", "preserve", "'",
            " ", "xmlns", ":", "p", "=", "\"", "u", "\"", ">", " ">>

MCXmlTexts ==
    {<<"<", "a", ">">> \o contents \o <<"<", "/", "a", ">">> : contents \in
        {<<>>, Text, Comment, CData, Pi, Short, B, EndB, P, B \o EndB, Keyed \o EndB, InP \o EndP,
         InP \o P \o EndP \o EndP, Comment \o Text, B \o Text \o EndB \o Short}}
    \cup {Declaration \o <<"newline">> \o A, TypeA \o <<"newline">> \o A, Declaration \o TypeA \o A,
          Comment \o <<"newline">> \o A, <<"<", "a", " ", "b", ">">>, <<"a">>,
          Spaced \o <<"<", "p", ":", "b", "/", ">", "<", "/", "p", ":", "a", ">">>}
MCXmlNames == {<<"a">>, <<"p", ":", "b">>}
MCXmlValues == {<<"&", "lt;">>, <<"w", "<", "newline", "w">>}
\* A content that reads like a reference.
MCReferences == {<<"&", "#60;">>}
MCXmlUris == {<<"u">>}

-----------------------------------------------------------------------------
InHtml(contents) == <<"<", "html", ">">> \o contents \o <<"<", "/", "html", ">">>
HtmlHead == <<"<", "head", ">", "<", "a", "/", ">", "<", "/", "head", ">">>
EmptyBody == <<"<", "body", ">", "<", "/", "body", ">">>
Declaring == <<"<", "html", " ", "xmlns", ":", "p", "=", "'", "u", "'", ">">>
                 \o HtmlHead \o EmptyBody \o <<"<", "/", "html", ">">>
MCHtmlTexts == {Declaring, InHtml(HtmlHead \o EmptyBody), InHtml(HtmlHead), InHtml(Comment \o EmptyBody), A, <<"a">>}
MCHtmlContents == {<<"&", "<">>}

-----------------------------------------------------------------------------
MCInit == /\ part \in {"json", "ini", "yaml", "xml", "html"}
          /\ Init /\ IniInit /\ YamlInit /\ XmlInit /\ HtmlInit
MCNext ==
    /\ \/ part = "json" /\ Next /\ UNCHANGED <<iniVars, yamlVars, xmlVars, htmlVars>>
       \/ part = "ini" /\ IniNext /\ UNCHANGED <<doc, text, yamlVars, xmlVars, htmlVars>>
       \/ part = "yaml" /\ YamlNext /\ UNCHANGED <<doc, text, iniVars, xmlVars, htmlVars>>
       \/ part = "xml" /\ XmlNext /\ UNCHANGED <<doc, text, iniVars, yamlVars, htmlVars>>
       \/ part = "html" /\ HtmlNext /\ UNCHANGED <<doc, text, iniVars, yamlVars, xmlVars>>
    /\ UNCHANGED part
MCSpec == MCInit /\ [][MCNext]_<<doc, text, iniVars, yamlVars, xmlVars, htmlVars, part>>
=============================================================================
