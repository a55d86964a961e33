-------------------------------- MODULE Yaml --------------------------------
(***************************************************************************)
(* scl2::yaml (src/src/yaml.cpp, src/include/yaml.hpp): values, the parser *)
(* that reads a document line by line, and the exporter.                   *)
(*                                                                         *)
(* A line is a sequence of characters; a word, a number's digit and the    *)
(* hex digits of an escape are one character each.  A value* is the frame  *)
(* it points into and the path from the frame's container to the value.    *)
(***************************************************************************)
EXTENDS Integers, Sequences, SequencesExt

CONSTANTS YamlLines,     \* the lines that others write
          MaxLines,      \* bound: lines of a text
          YamlDocs       \* the documents the program exports

VARIABLES parser,        \* class parser, between two calls of parseLine()
          yamlText,      \* the lines read so far
          written        \* the document they were exported from

yamlVars == <<parser, yamlText, written>>

-----------------------------------------------------------------------------
(* value *)

YNull == [type |-> "null"]
YBool(b) == [type |-> "bool", bool |-> b]
YInt(digits) == [type |-> "int", digits |-> digits]
YDouble(digits) == [type |-> "double", digits |-> digits]
YString(chars) == [type |-> "string", chars |-> chars]
YArray(items) == [type |-> "array", items |-> items]
YObject(members) == [type |-> "object", members |-> members]
\* target: the paths of the value it has been resolved to.
YAlias(name) == [type |-> "alias", name |-> name, target |-> {}]

IsScalar(v) == v.type \notin {"array", "object", "alias"}

YMember(key) == [key |-> key]
Element(i) == [index |-> i]

Holding(members, key, v) ==
    [k \in DOMAIN members \cup {key} |-> IF k = key THEN v ELSE members[k]]

\* The value at a path, for paths that lead somewhere.
RECURSIVE At(_, _)
At(v, path) ==
    IF path = <<>> THEN v
    ELSE IF "key" \in DOMAIN Head(path) THEN At(v.members[Head(path).key], Tail(path))
    ELSE At(v.items[Head(path).index], Tail(path))

RECURSIVE Replaced(_, _, _)
Replaced(v, path, w) ==
    IF path = <<>> THEN w
    ELSE IF "key" \in DOMAIN Head(path)
    THEN [v EXCEPT !.members[Head(path).key] = Replaced(@, Tail(path), w)]
    ELSE [v EXCEPT !.items[Head(path).index] = Replaced(@, Tail(path), w)]

-----------------------------------------------------------------------------
(* Scalars. *)

Space == {" ", "tab"}
DecimalDigits == {"0", "1", "2"}
TrueWords == {"true", "yes", "on"}
FalseWords == {"false", "no", "off"}

RECURSIVE DropSpace(_)
DropSpace(s) == IF s # <<>> /\ Head(s) \in Space THEN DropSpace(Tail(s)) ELSE s
RECURSIVE DropSpaceAtEnd(_)
DropSpaceAtEnd(s) == IF s # <<>> /\ Last(s) \in Space THEN DropSpaceAtEnd(Front(s)) ELSE s

AllDigits(s) == \A i \in DOMAIN s : s[i] \in DecimalDigits
Unsigned(s) == IF s # <<>> /\ Head(s) \in {"-", "+"} THEN Tail(s) ELSE s

IsInteger(s) == s # <<>> /\ Head(s) \in DecimalDigits \cup {"-", "+"} /\ AllDigits(Tail(s))

\* The digits up to the end, with one dot or with an exponent behind.
IsDouble(s) ==
    LET u == Unsigned(s)
        IsExponent(x) == Unsigned(x) # <<>> /\ AllDigits(Unsigned(x))
        IsMantissa(m) == m # <<>> /\ Head(m) \in DecimalDigits
                         /\ AllDigits(SelectSeq(m, LAMBDA c : c # "."))
                         /\ Len(SelectSeq(m, LAMBDA c : c = ".")) <= 1
        e == SelectInSeq(u, LAMBDA c : c = "e")
    IN  IF e = 0 THEN IsMantissa(u) /\ Contains(u, ".")
        ELSE IsMantissa(SubSeq(u, 1, e - 1)) /\ IsExponent(SubSeq(u, e + 1, Len(u)))

RECURSIVE NoLeadingZeros(_)
NoLeadingZeros(s) == IF Len(s) > 1 /\ Head(s) = "0" THEN NoLeadingZeros(Tail(s)) ELSE s
\* std::stoll() and std::to_string() of the result.
Canonical(s) ==
    LET digits == NoLeadingZeros(Unsigned(s))
    IN  IF Head(s) = "-" /\ digits # <<"0">> THEN <<"-">> \o digits ELSE digits

YEscaped == [c \in {"\"", "\\", "newline", "tab"} |->
    CASE c = "newline" -> "n" [] c = "tab" -> "t" [] OTHER -> c]
YUnescaped == [e \in {"\"", "\\", "n", "t"} |->
    CASE e = "n" -> "newline" [] e = "t" -> "tab" [] OTHER -> e]
HexDigits == [e \in {"u", "U", "x"} |->
    CASE e = "u" -> {"00e9"} [] e = "U" -> {"000000e9"} [] e = "x" -> {"09"}]
CodePoint == [h \in {"00e9", "000000e9", "09"} |-> IF h = "09" THEN "tab" ELSE "e-acute"]

Bad == <<"bad escape">>
\* processDoubleQuotedEscapes(): Bad where it throws.
RECURSIVE ProcessEscapes(_)
ProcessEscapes(s) ==
    LET Then(c, rest) == IF ProcessEscapes(rest) = Bad THEN Bad ELSE <<c>> \o ProcessEscapes(rest)
    IN  CASE s = <<>> -> <<>>
          [] s # <<>> /\ Head(s) # "\\" -> Then(Head(s), Tail(s))
          [] Len(s) > 1 /\ Head(s) = "\\" /\ s[2] \in DOMAIN YUnescaped ->
               Then(YUnescaped[s[2]], SubSeq(s, 3, Len(s)))
          [] Len(s) > 2 /\ Head(s) = "\\" /\ s[2] \in DOMAIN HexDigits /\ s[3] \in HexDigits[s[2]] ->
               Then(CodePoint[s[3]], SubSeq(s, 4, Len(s)))
          [] OTHER -> Bad

Quotes == {"\"", "'"}
IsQuoted(s) == Len(s) >= 2 /\ Head(s) \in Quotes /\ Last(s) = Head(s)

Invalid == [type |-> "invalid"]
\* The value of a text without anchor; Invalid where a conversion throws.
Scalar(s) ==
    LET inner == Tail(Front(s))
    IN  CASE IsQuoted(s) /\ Head(s) = "'" -> YString(inner)
          [] IsQuoted(s) /\ Head(s) = "\"" ->
               IF ProcessEscapes(inner) = Bad THEN Invalid ELSE YString(ProcessEscapes(inner))
          [] s \in {<<"null">>, <<"~">>} -> YNull
          [] Len(s) = 1 /\ s[1] \in TrueWords \cup FalseWords -> YBool(s[1] \in TrueWords)
          [] IsInteger(s) -> IF Unsigned(s) = <<>> THEN Invalid ELSE YInt(Canonical(s))
          [] IsDouble(s) -> YDouble(s)
          [] OTHER -> YString(s)

-----------------------------------------------------------------------------
(* Lines. *)

\* The index of the first character in cs outside quotes, or 0.  A backslash
\* does not keep a quote from ending one.
FirstOutside(s, cs) ==
    FoldLeft(LAMBDA r, c :
                 CASE r.found -> r
                   [] ~r.found /\ r.quote = "" /\ c \in cs -> [r EXCEPT !.found = TRUE]
                   [] ~r.found /\ r.quote = "" /\ c \in Quotes ->
                        [r EXCEPT !.quote = c, !.pos = @ + 1]
                   [] ~r.found /\ r.quote # "" /\ c = r.quote ->
                        [r EXCEPT !.quote = "", !.pos = @ + 1]
                   [] OTHER -> [r EXCEPT !.pos = @ + 1],
             [found |-> FALSE, quote |-> "", pos |-> 1], s)
Outside(s, c) == LET r == FirstOutside(s, {c}) IN IF r.found THEN r.pos ELSE 0

StripComments(line) ==
    LET hash == Outside(line, "#")
    IN  IF hash = 0 THEN line ELSE DropSpaceAtEnd(SubSeq(line, 1, hash - 1))

Indent(line) ==
    LET other == SelectInSeq(line, LAMBDA c : c # " ")
    IN  IF other = 0 THEN Len(line) ELSE other - 1

-----------------------------------------------------------------------------
(* class parser.  error is what has been thrown: "yaml" for a              *)
(* yaml_exception, "other" for an exception of the standard library, and   *)
(* "undefined" once memory that is gone has been used.                     *)

Frame(level, isMapping) ==
    [level |-> level, container |-> YNull, isMapping |-> isMapping,
     pendingKey |-> <<>>, parentKey |-> <<>>, anchor |-> <<>>]

NewParser ==
    [stack |-> <<Frame(0, FALSE)>>, anchors |-> <<>>, pending |-> <<>>, unit |-> 0,
     error |-> "none"]

Back(p) == Last(p.stack)
Top(p) == Len(p.stack)
WithBack(p, frame) == [p EXCEPT !.stack[Len(p.stack)] = frame]
Throw(p, error) == [p EXCEPT !.error = error]

Dangling == [frame |-> 0, path |-> <<>>]
WithPointers(p, Anchor(_), Pending(_)) ==
    [p EXCEPT !.anchors = [name \in DOMAIN @ |-> Anchor(@[name])],
              !.pending = [i \in DOMAIN @ |-> Pending(@[i])]]

\* A value is assigned to the place at path: what was in it is destroyed.
Overwritten(p, path) ==
    WithPointers(p,
        LAMBDA q : IF q.frame = Top(p) /\ IsStrictPrefix(path, q.path) THEN Dangling ELSE q,
        LAMBDA q : IF q.frame = Top(p) /\ IsPrefix(path, q.path) THEN Dangling ELSE q)

\* push_back() to a vector of n elements at path: it moves them when it grows,
\* to twice the size.
Grown(p, path, n) ==
    LET Moved(q) == IF /\ n \in {1, 2, 4, 8}
                       /\ q.frame = Top(p) /\ Len(q.path) = Len(path) + 1 /\ IsPrefix(path, q.path)
                    THEN Dangling ELSE q
    IN  WithPointers(p, Moved, Moved)

\* The container of the back frame becomes c; none of the old one is left.
FreshContainer(p, c, isMapping) ==
    WithBack(Overwritten(p, <<>>), [Back(p) EXCEPT !.container = c, !.isMapping = isMapping])

AssignMember(p, key, v) ==
    WithBack(Overwritten(p, <<YMember(key)>>),
             [Back(p) EXCEPT !.container = YObject(Holding(@.members, key, v))])
PushElement(p, v) ==
    LET items == Back(p).container.items
    IN  WithBack(Grown(p, <<>>, Len(items)),
                 [Back(p) EXCEPT !.container = YArray(Append(items, v))])

\* Mutant: the container is copied into its place.
Followed_Copied(p, q, path) == IF q.frame = Top(p) THEN Dangling ELSE q
\* The back frame's container is moved to path in its parent: its elements and
\* members stay where they are in memory.
Followed(p, q, path) ==
    IF q.frame = Top(p) THEN [frame |-> Top(p) - 1, path |-> path \o q.path] ELSE q

MovedInto(p, path) ==
    LET child == Back(p)
        rest == [p EXCEPT !.stack = Front(@)]
        cleared == Overwritten(rest, path)
        Follow(q) == Followed(p, q, path)
    IN  WithBack(WithPointers(cleared, Follow, Follow),
                 [Back(rest) EXCEPT !.container =
                     IF "key" \in DOMAIN path[1]
                     THEN YObject(Holding(@.members, path[1].key, child.container))
                     ELSE Replaced(@, path, child.container)])
Discarded(p) ==
    LET Gone(q) == IF q.frame = Top(p) THEN Dangling ELSE q
    IN  [WithPointers(p, Gone, Gone) EXCEPT !.stack = Front(@)]

PopIndent(p) ==
    LET child == Back(p)
        parent == p.stack[Top(p) - 1]
        c == parent.container
    IN  IF child.parentKey = <<>>
        THEN CASE parent.isMapping \/ c = YNull -> Discarded(p)
               [] ~parent.isMapping /\ c.type = "array" ->
                    IF c.items = <<>> THEN Discarded(p)
                    ELSE MovedInto(p, <<Element(Len(c.items))>>)
               [] ~parent.isMapping /\ c.type \notin {"null", "array"} ->
                    Throw(p, IF c.type = "alias" THEN "yaml" ELSE "other")
        ELSE IF parent.isMapping THEN MovedInto(p, <<YMember(child.parentKey)>>)
        ELSE Discarded(p)

RECURSIVE PopTo(_, _)
PopTo(p, level) ==
    IF p.error = "none" /\ level < Back(p).level /\ Top(p) > 1 THEN PopTo(PopIndent(p), level) ELSE p

PushIndent(p, level, isMapping) == [p EXCEPT !.stack = Append(@, Frame(level, isMapping))]

\* A deeper line: the new frame takes the pending key of the frame around it.
OpenScope(p, level) ==
    IF level <= Back(p).level THEN p
    ELSE LET q == PushIndent(p, level, FALSE)
         IN  [q EXCEPT !.stack[Top(p)].pendingKey = <<>>,
                       !.stack[Top(q)].parentKey = Back(p).pendingKey]

\* Where addValue() finds what it has added, or an error: as_array() throws for
\* what is no array, and makes one of null.
Added(p) ==
    LET f == Back(p)
        c == f.container
    IN  CASE f.isMapping -> <<YMember(f.pendingKey)>>
          [] ~f.isMapping /\ c.type = "array" -> <<Element(Len(c.items))>>
          [] OTHER -> <<>>

Placed(p, v) ==
    LET f == Back(p)
        c == f.container
    IN  CASE c = YNull -> WithBack(p, [f EXCEPT !.container = v])
          [] c.type = "object" /\ f.isMapping -> AssignMember(p, f.pendingKey, v)
          [] c.type = "array" /\ ~f.isMapping -> PushElement(p, v)
          [] OTHER -> Throw(p, IF c.type = "alias" THEN "yaml" ELSE "other")
\* An alias is remembered, to be resolved at the end ...
WithPending(p, v) ==
    LET here == [frame |-> Top(p), path |-> Added(p)]
    IN  IF v.type # "alias" \/ p.error # "none" THEN p
        ELSE IF here.path = <<>> THEN Throw(p, "yaml")
        ELSE [p EXCEPT !.pending = Append(@, here)]
\* ... and a value behind an anchor is what the anchor's name leads to.
WithAnchor(p) ==
    LET f == Back(p)
        here == [frame |-> Top(p), path |-> Added(p)]
    IN  CASE p.error # "none" \/ f.anchor = <<>> -> p
          [] p.error = "none" /\ f.anchor # <<>> /\ here.path # <<>> ->
               [WithBack(p, [f EXCEPT !.anchor = <<>>]) EXCEPT !.anchors = Holding(@, f.anchor, here)]
          [] p.error = "none" /\ f.anchor # <<>> /\ here.path = <<>> ->
               IF f.container = YNull THEN WithBack(p, [f EXCEPT !.container = YArray(<<>>)])
               ELSE Throw(p, "other")
AddValue(p, v) == WithAnchor(WithPending(Placed(p, v), v))

AddScalar(p, s) ==
    IF Scalar(s) = Invalid
    THEN Throw(p, IF IsQuoted(s) THEN "yaml" ELSE "other")
    ELSE AddValue(p, Scalar(s))

DispatchScalar(p, s) ==
    LET space == SelectInSeq(s, LAMBDA c : c = " ")
        Anchored(name) == WithBack(p, [Back(p) EXCEPT !.anchor = name])
    IN  CASE Len(s) >= 2 /\ s[1] = "*" /\ s[2] # " " -> AddValue(p, YAlias(Tail(s)))
          [] Len(s) >= 2 /\ s[1] = "&" /\ space # 0 ->
               AddScalar(Anchored(SubSeq(s, 2, space - 1)), DropSpace(SubSeq(s, space + 1, Len(s))))
          [] Len(s) >= 2 /\ s[1] = "&" /\ space = 0 -> AddValue(Anchored(Tail(s)), YNull)
          [] OTHER -> AddScalar(p, s)

DispatchMappingKey(p, key) ==
    LET f == Back(p)
        q == IF ~f.isMapping \/ f.container = YNull
             THEN FreshContainer(p, YObject(<<>>), TRUE) ELSE p
    IN  AssignMember(WithBack(q, [Back(q) EXCEPT !.pendingKey = key]), key, YNull)

\* The start of a sequence, unless the frame has one.
StartSequence(p) ==
    IF Back(p).isMapping \/ Back(p).container = YNull
    THEN FreshContainer(p, YArray(<<>>), FALSE) ELSE p

DispatchSequenceEntry(p, line) ==
    LET q == StartSequence(p)
        rest == DropSpace(SubSeq(line, 3, Len(line)))
    IN  IF rest # <<>> THEN DispatchScalar(q, rest)
        ELSE IF Back(q).container.type = "array" THEN PushElement(q, YNull)
        ELSE Throw(q, IF Back(q).container.type = "alias" THEN "yaml" ELSE "other")

IsEntry(s) == Len(s) >= 2 /\ s[1] = "-" /\ s[2] = " "

\* "- key:": a new mapping at the end of the sequence, in a frame of its own.
OpenCompact(p, level) ==
    LET q == StartSequence(p)
    IN  IF Back(q).container.type = "array"
        THEN LET pushed == PushElement(q, YObject(<<>>))
             IN  FreshContainer(PushIndent(pushed, level + 1, TRUE), YObject(<<>>), TRUE)
        ELSE Throw(q, IF Back(q).container.type = "alias" THEN "yaml" ELSE "other")

DispatchLine(p, line, level) ==
    LET colon == Outside(line, ":")
        name == DropSpaceAtEnd(SubSeq(line, 1, colon - 1))
        key == IF IsEntry(name) THEN SubSeq(name, 3, Len(name)) ELSE name
        opened == IF IsEntry(name) THEN OpenCompact(p, level) ELSE p
        v == DropSpace(SubSeq(line, colon + 1, Len(line)))
    IN  CASE colon # 0 /\ opened.error # "none" -> opened
          [] colon # 0 /\ opened.error = "none" ->
               LET keyed == DispatchMappingKey(opened, key)
               IN  IF v = <<>> THEN keyed ELSE DispatchScalar(keyed, v)
          [] colon = 0 /\ IsEntry(line) -> DispatchSequenceEntry(p, line)
          [] colon = 0 /\ ~IsEntry(line) -> DispatchScalar(p, line)

Level(indent, unit) == IF indent = 0 THEN 0 ELSE indent \div unit

\* parseLine()
ParseLine(p, line) ==
    LET indent == Indent(line)
        unit == IF indent > 0 /\ p.unit = 0 THEN indent ELSE p.unit
        level == Level(indent, unit)
        scoped == PopTo([p EXCEPT !.unit = unit], level)
        opened == OpenScope(scoped, level)
        content == StripComments(line)
    IN  CASE indent < Len(line) /\ line[indent + 1] = "tab" -> Throw(p, "yaml")
          [] ~(indent < Len(line) /\ line[indent + 1] = "tab") ->
               IF indent > 0 /\ indent % unit # 0 THEN Throw(p, "yaml")
               ELSE IF scoped.error # "none" THEN scoped
               ELSE IF content = <<>> THEN opened
               ELSE DispatchLine(opened, SubSeq(content, indent + 1, Len(content)), level)

-----------------------------------------------------------------------------
(* The end of parseNext(): the frames are closed, then the aliases resolved *)
(* in order.  Without any anchor an alias stays without a target.           *)

Target(p, name) ==
    IF p.anchors[name] = Dangling THEN {"dangling"} ELSE {p.anchors[name].path}

Resolve(p, pending) ==
    LET doc == p.stack[1].container
        alias == At(doc, pending.path)
    IN  CASE p.error # "none" -> p
          [] p.error = "none" /\ pending = Dangling -> Throw(p, "undefined")
          [] p.error = "none" /\ pending # Dangling ->
               IF alias.name \in DOMAIN p.anchors
               THEN [p EXCEPT !.stack[1].container =
                        Replaced(doc, pending.path, [alias EXCEPT !.target = Target(p, alias.name)])]
               ELSE IF p.anchors # <<>> THEN Throw(p, "yaml") ELSE p

Finish(p) ==
    LET closed == PopTo(p, -1)
    IN  IF closed.error # "none" THEN closed
        ELSE FoldLeft(Resolve, closed, closed.pending)
Document(p) == p.stack[1].container

ReadLines(lines) ==
    FoldLeft(LAMBDA p, line : IF p.error = "none" THEN ParseLine(p, line) ELSE p, NewParser, lines)

-----------------------------------------------------------------------------
(* yaml_exporter *)

NeedsQuoting(s) ==
    s = <<>> \/ Head(s) \in Space \/ Last(s) \in Space
    \/ \E i \in DOMAIN s : s[i] \in {":", "#", "&", "*", "-", "[", "{"}

Quoted(s) ==
    <<"\"">> \o FlattenSeq([i \in DOMAIN s |->
                    IF s[i] \in DOMAIN YEscaped THEN <<"\\", YEscaped[s[i]]>> ELSE <<s[i]>>]) \o <<"\"">>
PlainText(s) == IF NeedsQuoting(s) THEN Quoted(s) ELSE s

WriteScalar(v) ==
    CASE v.type = "null" -> <<"null">>
      [] v.type = "bool" -> IF v.bool THEN <<"true">> ELSE <<"false">>
      [] v.type \in {"int", "double"} -> v.digits
      [] v.type = "string" -> PlainText(v.chars)

NewLineAt(level, indent) == <<"newline">> \o [i \in 1..(level * indent) |-> " "]

\* The parts of a container, on lines of their own.
Parts(parts, level, indent) ==
    FlattenSeq([i \in DOMAIN parts |->
        IF i = 1 THEN parts[i] ELSE NewLineAt(level, indent) \o parts[i]])

RECURSIVE WriteValue(_, _, _)
WriteValue(v, level, indent) ==
    LET Below(w) == NewLineAt(level + 1, indent) \o WriteValue(w, level + 1, indent)
        Value(w) == IF IsScalar(w) THEN <<" ">> \o WriteScalar(w) ELSE Below(w)
        Entry(w) == <<"-", " ">> \o (IF IsScalar(w) THEN WriteScalar(w) ELSE Below(w))
    IN  CASE IsScalar(v) -> WriteScalar(v)
          [] v.type = "alias" -> <<"*">> \o v.name
          [] v.type = "array" ->
               IF v.items = <<>> THEN <<"[", "]">>
               ELSE Parts([i \in DOMAIN v.items |-> Entry(v.items[i])], level, indent)
          [] v.type = "object" ->
               IF v.members = <<>> THEN <<"{", "}">>
               ELSE LET keys == SetToSeq(DOMAIN v.members)
                    IN  Parts([i \in DOMAIN keys |->
                                  PlainText(keys[i]) \o <<":">> \o Value(v.members[keys[i]])],
                              level, indent)

\* std::getline()
LinesOf(chars) ==
    FoldLeft(LAMBDA lines, c : IF c = "newline" THEN Append(lines, <<>>)
                               ELSE [lines EXCEPT ![Len(lines)] = Append(@, c)],
             <<<<>>>>, chars)

-----------------------------------------------------------------------------
(* A program that reads a text line by line, or exports a document and reads *)
(* that.                                                                     *)

NotWritten == [type |-> "not written"]
YamlInit == parser = NewParser /\ yamlText = <<>> /\ written = NotWritten

\* readLine() and parseLine(): others wrote the line.
ReadYamlLine(line) ==
    /\ parser.error = "none" /\ Len(yamlText) < MaxLines /\ written = NotWritten
    /\ parser' = ParseLine(parser, line)
    /\ yamlText' = Append(yamlText, line)
    /\ UNCHANGED written

\* yaml_exporter and parser, one after the other.
ExportAndRead(doc, indent) ==
    /\ written' = doc
    /\ yamlText' = LinesOf(WriteValue(doc, 0, indent))
    /\ parser' = ReadLines(yamlText')

YamlNext ==
    \/ \E line \in YamlLines : ReadYamlLine(line)
    \/ yamlText = <<>> /\ \E doc \in YamlDocs, indent \in {1, 2} : ExportAndRead(doc, indent)
YamlSpec == YamlInit /\ [][YamlNext]_yamlVars

-----------------------------------------------------------------------------
(* Properties. *)

\* What the exporter can write so that it is read again: containers that are
\* not empty, strings that look like nothing else, and no quotes, for keys are
\* not unquoted and an escaped quote ends the quotes for the search of ":"
\* and "#".
PlainWord(s) ==
    s # <<>> /\ \A i \in DOMAIN s : s[i] \notin Quotes \cup {"newline"} /\ ~NeedsQuoting(s)
Readable(s) ==
    \/ NeedsQuoting(s) /\ \A i \in DOMAIN s : s[i] \notin Quotes
    \/ PlainWord(s) /\ Scalar(s) = YString(s)
RECURSIVE Exportable(_)
Exportable(v) ==
    CASE v.type = "array" -> v.items # <<>> /\ \A i \in DOMAIN v.items : Exportable(v.items[i])
      [] v.type = "object" -> /\ v.members # <<>>
                              /\ \A k \in DOMAIN v.members : PlainWord(k) /\ Exportable(v.members[k])
      [] v.type = "string" -> Readable(v.chars)
      [] v.type = "alias" -> FALSE
      [] OTHER -> TRUE

\* A document that has been exported is read back, whatever the indentation.
YamlComesBack ==
    written # NotWritten /\ Exportable(written) =>
        LET end == Finish(parser)
        IN  end.error = "none" /\ Document(end) = written

\* All anchors and aliases stand behind keys, no key comes twice, every scope
\* was opened by an entry or a key without a value, and none mixes keys,
\* entries and scalars.
KeyOf(line) ==
    LET name == SelectSeq(SubSeq(line, 1, Outside(line, ":") - 1), LAMBDA c : c # " ")
    IN  IF name # <<>> /\ Head(name) = "-" THEN Tail(name) ELSE name
ScopesAreOpened(stack) ==
    /\ \A i \in DOMAIN yamlText :
          Outside(yamlText[i], "&") # 0 \/ Outside(yamlText[i], "*") # 0
              => Outside(yamlText[i], ":") # 0
    /\ \A i, j \in DOMAIN yamlText :
          KeyOf(yamlText[i]) = KeyOf(yamlText[j]) => i = j \/ Outside(yamlText[i], ":") = 0
    /\ \A n \in DOMAIN yamlText :
          /\ \A f \in 2..Len(stack[n]) :
                LET around == stack[n][f - 1].container
                    key == stack[n][f].parentKey
                IN  IF key = <<>> THEN around.type = "array"
                    ELSE around.members[key] = YNull
          /\ \A f \in DOMAIN stack[n - 1] \cap DOMAIN stack[n] :
                stack[n - 1][f].level = stack[n][f].level
                    => stack[n - 1][f].container.type \in {"null", stack[n][f].container.type}
WellFormed == ScopesAreOpened([n \in 0..Len(yamlText) |-> ReadLines(SubSeq(yamlText, 1, n)).stack])

RECURSIVE Aliases(_)
Aliases(v) ==
    CASE v.type = "alias" -> {v}
      [] v.type = "array" -> UNION {Aliases(v.items[i]) : i \in DOMAIN v.items}
      [] v.type = "object" -> UNION {Aliases(v.members[k]) : k \in DOMAIN v.members}
      [] OTHER -> {}

\* The pointers that the parser keeps while frames are pushed and popped,
\* containers are moved and members overwritten, still lead to the value
\* behind the anchor when the aliases are resolved.
AliasesLeadToAnchors ==
    LET end == Finish(parser) IN
    yamlText # <<>> /\ parser.error = "none" /\ written = NotWritten /\ WellFormed =>
        /\ end.error # "undefined"
        /\ end.error = "none" /\ end.anchors # <<>> =>
              \A alias \in Aliases(Document(end)) :
                 \E i \in DOMAIN yamlText, path \in alias.target :
                    /\ Outside(yamlText[i], "&") # 0
                    /\ Last(path) = YMember(KeyOf(yamlText[i]))
                    /\ IsPrefix(alias.name, SubSeq(yamlText[i], Outside(yamlText[i], "&") + 1, Len(yamlText[i])))

\* A comment behind a line, or on a line of its own in the same scope, changes
\* nothing.
CommentsChangeNothing ==
    yamlText # <<>> /\ parser.error = "none" /\ written = NotWritten =>
        /\ \A line \in YamlLines :
              line # <<>> /\ Last(line) # " "
                  => ParseLine(parser, line \o <<" ", "#", "a", ":">>) = ParseLine(parser, line)
        /\ parser.unit > 0 \/ Back(parser).level = 0
              => ParseLine(parser, [i \in 1..(Back(parser).level * parser.unit) |-> " "] \o <<"#">>)
                     = parser

\* How wide an indentation is does not matter.
UnitIsFree ==
    yamlText # <<>> =>
      ReadLines([i \in DOMAIN yamlText |-> [j \in 1..Indent(yamlText[i]) |-> " "] \o yamlText[i]])
          = [parser EXCEPT !.unit = 2 * @]

\* A document has one meaning, however it is indented and whatever is commented
\* within its scopes, in which aliases that are values of members lead where their
\* anchors are, and which export() keeps.
YamlKeepsItsMeaning == YamlComesBack /\ AliasesLeadToAnchors /\ CommentsChangeNothing /\ UnitIsFree
=============================================================================
