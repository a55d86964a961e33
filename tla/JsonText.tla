------------------------------ MODULE JsonText ------------------------------
(***************************************************************************)
(* json_exporter and json_parser (src/src/json.cpp): documents to text and *)
(* back.                                                                   *)
(***************************************************************************)
EXTENDS Json

-----------------------------------------------------------------------------
(* json_exporter *)

\* The styles of toString(), toCompatString() and the two factories.
Pretty == [compat |-> FALSE, escapeNonAscii |-> FALSE]
Compat == [compat |-> TRUE, escapeNonAscii |-> FALSE]
Compact == [compat |-> TRUE, escapeNonAscii |-> TRUE]
Styles == {Pretty, Compat, Compact}

Escapes == [c \in {"\"", "\\", "newline"} |->
               <<"\\", CASE c = "newline" -> "n" [] OTHER -> c>>]
HexOf == [c \in {"e-acute", "control", "0x89"} |->
             CASE c = "e-acute" -> "x00e9" [] c = "control" -> "x0001" [] OTHER -> "x0089"]
Unicode(c) == <<"\\", "u", HexOf[c]>>

\* The byte after a character in UTF-8 is skipped; of a character of two bytes
\* the second is left.
SkipByte(chars) ==
    IF chars = <<>> THEN <<>>
    ELSE IF Head(chars) = "e-acute" THEN <<"0x89">> \o Tail(chars)
    ELSE Tail(chars)

\* escapeJsonString()
RECURSIVE EscapeString(_, _)
EscapeString(chars, nonAscii) ==
    IF chars = <<>> THEN <<>>
    ELSE LET c == Head(chars) IN
         CASE c \in DOMAIN Escapes -> Escapes[c] \o EscapeString(Tail(chars), nonAscii)
           [] c = "control" \/ (c = "0x89" /\ nonAscii) ->
                Unicode(c) \o EscapeString(Tail(chars), nonAscii)
           [] c = "e-acute" /\ nonAscii ->
                Unicode(c) \o EscapeString(SkipByte(Tail(chars)), nonAscii)
           [] OTHER -> <<c>> \o EscapeString(Tail(chars), nonAscii)

\* jquote() escapes what its callers have escaped already.
Quote(chars, style) == <<"\"">> \o EscapeString(chars, style.escapeNonAscii) \o <<"\"">>
Escaped(chars, style) == Quote(EscapeString(chars, style.escapeNonAscii), style)

DigitOf == [n \in {DigitValue[d] : d \in Digits} |->
               CHOOSE d \in Digits : DigitValue[d] = n]
\* std::to_string(int64_t)
RECURSIVE Decimal(_)
Decimal(n) == IF n < 0 THEN <<"-">> \o Decimal(-n)
              ELSE IF n < 10 THEN <<DigitOf[n]>>
              ELSE Decimal(n \div 10) \o <<DigitOf[n % 10]>>

\* std::to_string(double) has six decimals and no exponent: what is smaller
\* than they can show becomes zero.  The zeros at the end are left out here.
Tiny == <<"1", "e", "-", "9">>
Zero == <<"0", ".", "0">>
Fixed(digits) == IF digits = Tiny THEN Zero ELSE digits

NewLine(style) == IF style.compat THEN <<>> ELSE <<" ">>

\* The elements of an array or an object, each on a line of its own.
Separated(texts, style) ==
    NewLine(style) \o FlattenSeq([i \in DOMAIN texts |->
        texts[i] \o (IF i < Len(texts) THEN <<",">> ELSE <<>>) \o NewLine(style)])

RECURSIVE Export(_, _)
Export(v, style) ==
    CASE v.type = "null" -> <<"null">>
      [] v.type = "bool" -> <<IF v.bool THEN "true" ELSE "false">>
      [] v.type = "integer" -> Decimal(v.int)
      [] v.type = "floating" -> Fixed(v.digits)
      [] v.type = "string" -> Escaped(v.chars, style)
      [] v.type = "bytearray" -> Quote(<<"base64:">> \o v.data, style)
      [] v.type = "data_uri" -> Quote(<<"data:">> \o v.media \o <<";base64", ",">> \o v.data, style)
      [] v.type = "array" ->
           IF v.items = <<>> THEN <<"[", "]">>
           ELSE <<"[">> \o Separated([i \in DOMAIN v.items |-> Export(v.items[i], style)], style)
                \o <<"]">>
      [] v.type = "object" ->
           LET keys == Ordered(v.members)
               colon == IF style.compat THEN <<":">> ELSE <<":", " ">>
           IN  IF keys = <<>> THEN <<"{", "}">>
               ELSE <<"{">>
                    \o Separated([i \in DOMAIN keys |->
                          Escaped(keys[i], style) \o colon \o Export(v.members[keys[i]], style)], style)
                    \o <<"}">>

-----------------------------------------------------------------------------
(* json_parser: every operator takes the position and returns the next one. *)

Failed == [ok |-> FALSE, v |-> Null, next |-> 0]
Done(v, next) == [ok |-> TRUE, v |-> v, next |-> next]

\* peek(), which returns 0 at the end.
Peek(t, pos) == IF pos \in DOMAIN t THEN t[pos] ELSE "end"

RECURSIVE SkipWhitespace(_, _)
SkipWhitespace(t, pos) ==
    IF Peek(t, pos) \in {" ", "newline"} THEN SkipWhitespace(t, pos + 1) ELSE pos

CharOf == [hex \in {"x00e9", "x0001", "x0089"} |->
              CASE hex = "x00e9" -> "e-acute" [] hex = "x0001" -> "control" [] OTHER -> "U+0089"]
Unescaped == [e \in {"\"", "\\", "n"} |-> CASE e = "n" -> "newline" [] OTHER -> e]

\* parseJsonString() after the opening quote; v is a sequence of characters.
RECURSIVE ParseChars(_, _, _)
ParseChars(t, pos, chars) ==
    LET c == Peek(t, pos)
        escaped == Peek(t, pos + 1)
    IN  CASE c = "end" -> Failed
          [] c = "\"" -> Done(chars, pos + 1)
          [] c = "\\" /\ escaped \in DOMAIN Unescaped ->
               ParseChars(t, pos + 2, Append(chars, Unescaped[escaped]))
          [] c = "\\" /\ escaped = "u" /\ Peek(t, pos + 2) \in DOMAIN CharOf ->
               ParseChars(t, pos + 3, Append(chars, CharOf[Peek(t, pos + 2)]))
          [] c = "\\" /\ escaped \notin DOMAIN Unescaped
                      /\ ~(escaped = "u" /\ Peek(t, pos + 2) \in DOMAIN CharOf) -> Failed
          [] OTHER -> ParseChars(t, pos + 1, Append(chars, c))

\* bytearray::fromBase64(): a character that is no digit, or a single one at the
\* end, throws, and what is less than four digits at the end is dropped.
Base64Digits == Digits \cup {"a", "n", "u", "/", "+"}
IsBase64(chars) == Range(chars) \subseteq Base64Digits /\ Len(chars) % 4 # 1
FromBase64(chars) == SubSeq(chars, 1, 4 * (Len(chars) \div 4))
\* The digits of a payload that was not written with them are not told apart, and
\* payloads come in threes: a rest would be padded, which Base64ComesBack is about.
Encoded(payload) == [i \in 1..(4 * (Len(payload) \div 3)) |-> "a"]

\* inline_data_uri::from_string(), behind "data:".  to_string() writes base64
\* whatever it has read.
ParseUri(chars, next) ==
    LET comma == SelectInSeq(chars, LAMBDA c : c = ",")
        meta == SubSeq(chars, 1, comma - 1)
        base64 == meta # <<>> /\ Last(meta) = ";base64"
        payload == SubSeq(chars, comma + 1, Len(chars))
    IN  IF comma = 0 \/ (base64 /\ ~IsBase64(payload)) THEN Failed
        ELSE Done(DataUri(IF base64 THEN Front(meta) ELSE meta, base64,
                          IF base64 THEN FromBase64(payload) ELSE Encoded(payload)), next)

\* parseString(): base64 becomes a bytearray and data: a data URI, or they throw.
StringValue(chars, next) ==
    CASE chars # <<>> /\ Head(chars) = "base64:" ->
           IF IsBase64(Tail(chars)) THEN Done(Bytes(FromBase64(Tail(chars))), next) ELSE Failed
      [] chars # <<>> /\ Head(chars) = "data:" -> ParseUri(Tail(chars), next)
      [] OTHER -> Done(String(chars), next)

RECURSIVE SkipDigits(_, _)
SkipDigits(t, pos) == IF Peek(t, pos) \in Digits THEN SkipDigits(t, pos + 1) ELSE pos

\* parseNumber(): integer part, fraction, exponent; 0 where it throws.
IntegerPart(t, pos) ==
    LET first == IF Peek(t, pos) = "-" THEN pos + 1 ELSE pos
    IN  IF Peek(t, first) \notin Digits THEN 0
        ELSE IF Peek(t, first) # "0" THEN SkipDigits(t, first)
        ELSE IF Peek(t, first + 1) \in Digits THEN 0 ELSE first + 1
Fraction(t, pos) ==
    IF pos = 0 \/ Peek(t, pos) # "." THEN pos
    ELSE IF Peek(t, pos + 1) \in Digits THEN SkipDigits(t, pos + 1) ELSE 0
Exponent(t, pos) ==
    IF pos = 0 \/ Peek(t, pos) # "e" THEN pos
    ELSE LET digits == IF Peek(t, pos + 1) \in {"+", "-"} THEN pos + 2 ELSE pos + 1
         IN  IF Peek(t, digits) \in Digits THEN SkipDigits(t, digits) ELSE 0

\* std::stoll(), or std::stod() for what is floating or too large.
Numeric(chars) ==
    LET negative == Head(chars) = "-"
        digits == IF negative THEN Tail(chars) ELSE chars
        most == IF negative THEN MaxInt + 1 ELSE MaxInt
    IN  IF Range(chars) \cap {".", "e"} # {} \/ ValueOf(digits) > most
        THEN Floating(chars)
        ELSE Integer(IF negative THEN -ValueOf(digits) ELSE ValueOf(digits))

ParseNumber(t, pos) ==
    LET next == Exponent(t, Fraction(t, IntegerPart(t, pos)))
    IN  IF next = 0 THEN Failed ELSE Done(Numeric(SubSeq(t, pos, next - 1)), next)

RECURSIVE ParseValue(_, _), ParseItems(_, _, _), ParseMembers(_, _, _)

\* Mutant: a bracket may follow a comma.
ParseItems_CommaLast(t, pos, items) ==
    LET first == SkipWhitespace(t, pos)
        item == ParseValue(t, first)
        next == SkipWhitespace(t, item.next)
    IN  IF Peek(t, first) = "]" THEN Done(Array(items), first + 1)
        ELSE IF ~item.ok THEN Failed
        ELSE CASE Peek(t, next) = "," -> ParseItems(t, next + 1, Append(items, item.v))
               [] Peek(t, next) = "]" -> Done(Array(Append(items, item.v)), next + 1)
               [] OTHER -> Failed
\* parseArray() from the first element on, or from behind a comma.
ParseItems(t, pos, items) ==
    LET item == ParseValue(t, SkipWhitespace(t, pos))
        next == SkipWhitespace(t, item.next)
    IN  IF ~item.ok THEN Failed
        ELSE CASE Peek(t, next) = "," -> ParseItems(t, next + 1, Append(items, item.v))
               [] Peek(t, next) = "]" -> Done(Array(Append(items, item.v)), next + 1)
               [] OTHER -> Failed

\* parseObject() and getNextObject(): a key that is already there stays as it
\* is.
ParseMembers(t, pos, members) ==
    LET quote == SkipWhitespace(t, pos)
        key == IF Peek(t, quote) = "\"" THEN ParseChars(t, quote + 1, <<>>) ELSE Failed
        colon == SkipWhitespace(t, key.next)
        member == ParseValue(t, SkipWhitespace(t, colon + 1))
        next == SkipWhitespace(t, member.next)
        after == IF key.v \in DOMAIN members THEN members ELSE With(members, key.v, member.v)
    IN  IF ~key.ok \/ Peek(t, colon) # ":" \/ ~member.ok THEN Failed
        ELSE CASE Peek(t, next) = "," -> ParseMembers(t, next + 1, after)
               [] Peek(t, next) = "}" -> Done(Object(after), next + 1)
               [] OTHER -> Failed

Literals == [l \in {"null", "true", "false"} |->
                CASE l = "null" -> Null [] l = "true" -> Bool(TRUE) [] OTHER -> Bool(FALSE)]

\* parseJsonValue(); white space is not skipped here, nor after an opening
\* bracket that is closed at once.
ParseValue(t, pos) ==
    LET c == Peek(t, pos) IN
    CASE c = "{" -> IF Peek(t, pos + 1) = "}" THEN Done(Object(<<>>), pos + 2)
                    ELSE ParseMembers(t, pos + 1, <<>>)
      [] c = "[" -> IF Peek(t, pos + 1) = "]" THEN Done(Array(<<>>), pos + 2)
                    ELSE ParseItems(t, pos + 1, <<>>)
      [] c = "\"" -> LET s == ParseChars(t, pos + 1, <<>>)
                     IN  IF s.ok THEN StringValue(s.v, s.next) ELSE Failed
      [] c = "-" \/ c \in Digits -> ParseNumber(t, pos)
      [] c \in DOMAIN Literals -> Done(Literals[c], pos + 1)
      [] OTHER -> Failed

\* json::fromString(): what follows the value is not looked at.
Parse(t) == ParseValue(t, 1)

-----------------------------------------------------------------------------
(* Files.  While the program edits its document no file is being passed on. *)

Init == doc = Null /\ text = <<>>

\* Doubles of which the model knows the decimals.
Half == <<"0", ".", "5">>
RECURSIVE Printable(_)
Printable(v) ==
    /\ v.type = "floating" => v.digits \in {Half, Tiny, Zero}
    /\ IsArray(v) => \A i \in DOMAIN v.items : Printable(v.items[i])
    /\ IsObject(v) => \A k \in DOMAIN v.members : Printable(v.members[k])

\* toFile(), or the program writes what exportToString() returns in another
\* style.
ToFile ==
    /\ text = <<>> /\ Printable(doc)
    /\ \E style \in Styles : text' = Export(doc, style)
    /\ Len(text') <= MaxText
    /\ UNCHANGED doc

\* Others write the file.
Receive == text = <<>> /\ doc = Null /\ text' \in Texts /\ UNCHANGED doc

\* fromFile(), which throws unless it can parse.
FromFile ==
    /\ text # <<>>
    /\ doc' = IF Parse(text).ok THEN Parse(text).v ELSE doc
    /\ text' = <<>>

Next == Edit \/ ToFile \/ Receive \/ FromFile

Spec == Init /\ [][Next]_<<doc, text>>

-----------------------------------------------------------------------------
(* Properties. *)

\* Strings that need no escape.
Plain(chars, style) ==
    \A i \in DOMAIN chars :
        chars[i] \notin DOMAIN Escapes \cup {"control"}
             \cup (IF style.escapeNonAscii THEN {"e-acute", "0x89"} ELSE {})
\* Strings that an extension takes for something else.
TakenForOther(chars) == chars # <<>> /\ Head(chars) \in {"base64:", "data:"}

\* w is v as far as text can show it: strings that are not plain, and doubles
\* smaller than six decimals show, come back as something else of their kind, and
\* data URIs as what they are in base64.
RECURSIVE Resembles(_, _, _)
Resembles(v, w, style) ==
    CASE v.type = "string" -> IF Plain(v.chars, style) THEN v = w ELSE w.type = "string"
      [] v.type = "data_uri" -> w = DataUri(v.media, TRUE, v.data)
      [] v.type = "floating" -> w = Floating(Fixed(v.digits))
      [] IsArray(v) -> /\ IsArray(w) /\ DOMAIN v.items = DOMAIN w.items
                       /\ \A i \in DOMAIN v.items : Resembles(v.items[i], w.items[i], style)
      [] IsObject(v) -> /\ IsObject(w) /\ DOMAIN v.members = DOMAIN w.members
                        /\ \A k \in DOMAIN v.members : Resembles(v.members[k], w.members[k], style)
      [] OTHER -> v = w

\* The strings that an extension takes for something else, in v.
RECURSIVE Exact(_)
Exact(v) ==
    CASE v.type = "string" -> ~TakenForOther(v.chars)
      [] IsArray(v) -> \A i \in DOMAIN v.items : Exact(v.items[i])
      [] IsObject(v) -> \A k \in DOMAIN v.members : Exact(v.members[k])
      [] OTHER -> TRUE

\* Every document that was built by any calls, or read from any text, is written
\* so that it can be read to the last character, with the structure, the keys, the
\* numbers and the plain strings it had, in every style.  A string that begins
\* with "base64:" or "data:" is left to StringsAreLoaded.
ExportIsReadable ==
    text = <<>> /\ Printable(doc) /\ Exact(doc) =>
        \A style \in Styles :
            LET t == Export(doc, style)
                r == Parse(t)
            IN  r.ok /\ r.next = Len(t) + 1 /\ Resembles(doc, r.v, style)

\* json.md: "The library stores strings as raw bytes - what you put in is what
\* you get back."  A document comes back from its text as it was, but for the
\* strings that an extension takes for something else, data URIs, and doubles
\* smaller than six decimals show.
RECURSIVE Lossless(_)
Lossless(v) ==
    CASE v.type = "floating" -> v.digits # Tiny
      [] v.type = "data_uri" -> v.base64
      [] IsArray(v) -> \A i \in DOMAIN v.items : Lossless(v.items[i])
      [] IsObject(v) -> \A k \in DOMAIN v.members : Lossless(v.members[k])
      [] OTHER -> TRUE
StringsComeBack ==
    text = <<>> /\ Printable(doc) /\ Exact(doc) /\ Lossless(doc) => Parse(Export(doc, Pretty)).v = doc

\* The same words of json.md, of a document with any strings: what the exporter
\* wrote can at least be read.  Violated: a string that begins with "base64:" or
\* "data:" and is neither makes parseString() throw, and the whole file is lost.
StringsAreLoaded ==
    text = <<>> /\ Printable(doc) => Parse(Export(doc, Pretty)).ok

\* A blank may stand between any two tokens of a text that an exporter wrote,
\* except in brackets that hold nothing else.
WhitespaceIsIgnored ==
    text = <<>> /\ doc # Null /\ Printable(doc) =>
        LET t == Export(doc, Compat)
            inString(i) == Cardinality({j \in 1..i : t[j] = "\""}) % 2 = 1
            inNumber(i) == t[i] \in Digits \cup {"-", "."} /\ t[i + 1] \in Digits \cup {"."}
            escapes == \E i \in DOMAIN t : t[i] = "\\"
        IN  ~escapes => \A i \in 1..(Len(t) - 1) :
                \/ inString(i) \/ inNumber(i)
                \/ <<t[i], t[i + 1]>> \in {<<"{", "}">>, <<"[", "]">>}
                \/ Parse(InsertAt(t, i + 1, " ")).v = Parse(t).v

\* What is read is a value and nothing else: printed again it is the text that
\* was read.  (Where a key came twice the second value has been dropped;
\* an escape does not come back as it was, nor the sign of -0, nor what an
\* extension drops of a string.)
RECURSIVE Members(_)
Members(v) ==
    CASE IsArray(v) -> FoldLeft(LAMBDA n, item : n + Members(item), 0, v.items)
      [] IsObject(v) -> FoldLeft(LAMBDA n, k : n + 1 + Members(v.members[k]), 0, Ordered(v.members))
      [] OTHER -> 0
ParserReadsOnlyValues ==
    LET r == Parse(text)
        squeezed(t) == SelectSeq(t, LAMBDA c : c # " ")
        read == squeezed(SubSeq(text, 1, r.next - 1))
        colons == Cardinality({i \in DOMAIN read : read[i] = ":"})
    IN  text # <<>> /\ text \in Texts /\ Range(text) \cap {"\\", "-", "base64:", "data:"} = {}
          /\ r.ok /\ Printable(r.v) /\ colons = Members(r.v)
            => read = squeezed(Export(r.v, Compat))

\* The number grammar of JSON.
IsNumber(t) ==
    \E a \in 0..1, b \in 1..Len(t), c \in 0..Len(t), d \in 0..Len(t) :
        LET allDigits(s) == \A i \in DOMAIN s : s[i] \in Digits
            integer == SubSeq(t, a + 1, b)
            fraction == SubSeq(t, b + 1, c)
            exponent == SubSeq(t, c + 1, d)
        IN  /\ a <= b /\ b <= c /\ c <= d /\ d = Len(t)
            /\ a = 1 => t[1] = "-"
            /\ integer # <<>> /\ allDigits(integer) /\ (Len(integer) > 1 => Head(integer) # "0")
            /\ fraction # <<>> => /\ Head(fraction) = "." /\ Len(fraction) > 1
                                  /\ allDigits(Tail(fraction))
            /\ exponent # <<>> =>
                 /\ Head(exponent) = "e"
                 /\ LET power == IF Len(exponent) > 1 /\ exponent[2] \in {"+", "-"}
                                 THEN SubSeq(exponent, 3, Len(exponent)) ELSE Tail(exponent)
                    IN  power # <<>> /\ allDigits(power)
\* A text of digits, signs, points and exponents is read to its end if and only
\* if it is a number of the JSON grammar.
NumbersAreJson ==
    text # <<>> /\ (\A i \in DOMAIN text : text[i] \in Digits \cup {"-", "+", ".", "e"})
        => ((Parse(text).ok /\ Parse(text).next = Len(text) + 1) <=> IsNumber(text))

\* What the exporter writes and what the parser takes is JSON and the document:
\* no value is lost or out of reach, no text taken that says something else.
TextsAreJson ==
    MembersAreReachable /\ ExportIsReadable /\ WhitespaceIsIgnored /\ ParserReadsOnlyValues /\ NumbersAreJson
=============================================================================
