------------------------------ MODULE HttpText ------------------------------
(***************************************************************************)
(* The text of HTTP messages (src/src/http.cpp), read from a stream that   *)
(* may stop after any character, as server::handleClient()                 *)
(* (src/src/httpserver.cpp) and client::receive_response()                 *)
(* (src/src/httpclient.cpp) do.  That a message is accepted when all of it *)
(* is there, and not before, is what HttpMessages takes for granted.       *)
(*                                                                         *)
(* A text is a sequence of tokens: the characters that the code looks for, *)
(* and words and numbers, which stand for themselves.  A character of a    *)
(* body is a token.                                                        *)
(***************************************************************************)
EXTENDS Integers, Sequences, SequencesExt

CONSTANTS HttpSent,      \* messages that serialize() writes
          HttpForeign    \* texts of others, with the kind they are read as

VARIABLES wire           \* one message: kind, text, how much of it has arrived,
                         \* what was sent (or Unread), what was read (or Unread)

CR == "\r"
LF == "\n"
NulChar == "zero"
HttpBlanks == {" ", "\t"}
Break == <<CR, LF>>

Methods == {"GET", "POST", "PUT", "DELETE", "HEAD", "OPTIONS", "PATCH", "TRACE", "CONNECT"}
MethodToString(method) == IF method \in Methods THEN method ELSE "GET"

StatusMessages ==
    [c \in {"200", "201", "204", "400", "404", "405", "500", "501"} |->
        CASE c = "200" -> <<"OK">> [] c = "201" -> <<"Created">> [] c = "204" -> <<"No", " ", "Content">>
          [] c = "400" -> <<"Bad", " ", "Request">> [] c = "404" -> <<"Not", " ", "Found">>
          [] c = "405" -> <<"Method", " ", "Not", " ", "Allowed">>
          [] c = "500" -> <<"Internal", " ", "Server", " ", "Error">>
          [] c = "501" -> <<"Not", " ", "Implemented">>]
StatusToString(status) == IF status \in DOMAIN StatusMessages THEN StatusMessages[status] ELSE <<"Unknown">>

\* The numbers that are words of a text.
Sizes == <<"0", "1", "2", "3", "4", "5", "6", "7", "8", "9">>
IsNumber(token) == token \in ToSet(Sizes) \cup DOMAIN StatusMessages \cup {"299"}
SizeOf(token) == IF token \in ToSet(Sizes) THEN SelectInSeq(Sizes, LAMBDA s : s = token) - 1 ELSE 200

-----------------------------------------------------------------------------
(* serialize().  Headers are in the order of their keys. *)

TypeKey == <<"Content-Type">>
LengthKey == <<"Content-Length">>
KeyOrder == <<<<>>, LengthKey, TypeKey, <<"X">>>>

HeaderText(key, value) == key \o <<":", " ">> \o value \o Break
LengthHeader(m) ==
    IF m.body /= <<>> /\ LengthKey \notin DOMAIN m.headers
    THEN HeaderText(LengthKey, <<Sizes[Len(m.body) + 1]>>) ELSE <<>>
StartLine(m) ==
    (IF m.kind = "request" THEN <<MethodToString(m.method), " ">> \o m.path \o <<" ">> \o m.version
     ELSE m.version \o <<" ", m.status, " ">> \o StatusToString(m.status)) \o Break
SerializeText(m) ==
    LET keys == SelectSeq(KeyOrder, LAMBDA k : k \in DOMAIN m.headers)
    IN StartLine(m) \o FlattenSeq([i \in DOMAIN keys |-> HeaderText(keys[i], m.headers[keys[i]])])
        \o LengthHeader(m) \o Break \o m.body

\* make_text(), make_json()
Response(status, type, body) ==
    [kind |-> "response", status |-> status, version |-> <<"HTTP/1.1">>,
     headers |-> [key \in {TypeKey} |-> <<type, ";", " ", "charset=utf-8">>], body |-> body]
MakeText(status, text) == Response(status, "text/plain", text)
MakeJson(status, json) == Response(status, "application/json", json)

-----------------------------------------------------------------------------
(* deserialize() *)

Unread == [kind |-> "unread"]
BadMessage == [kind |-> "refused"]    \* an exception

\* std::getline(): the pieces between line ends
HttpLines(text) ==
    FoldLeft(LAMBDA lines, c : IF c = LF THEN Append(lines, <<>>)
                               ELSE ReplaceAt(lines, Len(lines), Append(Last(lines), c)),
             <<<<>>>>, text)
WithoutCR(line) == IF line /= <<>> /\ Last(line) = CR THEN Front(line) ELSE line

\* operator>>: the words of the first line
WordsOf(line) ==
    LET pieces == FoldLeft(LAMBDA words, c : IF c \in HttpBlanks \cup {CR} THEN Append(words, <<>>)
                                             ELSE ReplaceAt(words, Len(words), Append(Last(words), c)),
                           <<<<>>>>, line)
    IN SelectSeq(pieces, LAMBDA w : w /= <<>>)
WordAt(words, i) == IF i <= Len(words) THEN words[i] ELSE <<>>

\* The position of the empty line; the end of the text is one, too.
EmptyLine(lines) ==
    LET n == SelectInSeq(Tail(lines), LAMBDA l : WithoutCR(l) = <<>>) IN IF n = 0 THEN Len(lines) + 1 ELSE n + 1

\* A value of blanks only stays as it is.
ValueOf(text) ==
    LET n == SelectInSeq(text, LAMBDA c : c \notin HttpBlanks) IN IF n = 0 THEN text ELSE SubSeq(text, n, Len(text))
\* Lines without a colon are skipped; a second value replaces the first.
ReadHeader(headers, l) ==
    LET line == WithoutCR(l)
        colon == SelectInSeq(line, LAMBDA c : c = ":")
        key == SubSeq(line, 1, colon - 1)
    IN IF colon = 0 THEN headers
       ELSE [k \in DOMAIN headers \cup {key} |->
                IF k = key THEN ValueOf(SubSeq(line, colon + 1, Len(line))) ELSE headers[k]]
\* The rest of the text, up to a zero.
ReadBody(lines) ==
    LET n == EmptyLine(lines)
        rest == FoldLeft(LAMBDA text, l : text \o <<LF>> \o l, <<>>, SubSeq(lines, n + 1, Len(lines)))
        zero == SelectInSeq(rest, LAMBDA c : c = NulChar)
    IN IF rest = <<>> THEN <<>> ELSE SubSeq(rest, 2, IF zero = 0 THEN Len(rest) ELSE zero - 1)

\* A response without a status leaves it as junk.
Deserialize(kind, text, junk) ==
    LET lines == HttpLines(text)
        words == WordsOf(WithoutCR(Head(lines)))
        headers == FoldLeft(ReadHeader, <<>>, SubSeq(lines, 2, EmptyLine(lines) - 1))
        body == ReadBody(lines)
    IN IF kind = "request"
       THEN IF Len(words) < 2 \/ words[1] \notin {<<method>> : method \in Methods} THEN BadMessage
            ELSE [kind |-> kind, method |-> words[1][1], path |-> words[2], headers |-> headers, body |-> body,
                  version |-> IF Len(words) > 2 THEN words[3] ELSE <<"HTTP/1.1">>]
       ELSE IF text = <<>> THEN BadMessage
       ELSE [kind |-> kind, version |-> WordAt(words, 1), headers |-> headers, body |-> body,
             status |-> IF Len(words) < 2 THEN junk
                        ELSE IF IsNumber(Head(words[2])) THEN Head(words[2]) ELSE "0"]

-----------------------------------------------------------------------------
(* What the receivers ask before they take a message. *)

\* has_complete_headers(), and find() of the same: where the body begins
Ends(text) == {i \in 1..(Len(text) - 3) : SubSeq(text, i, i + 3) = Break \o Break}
HasCompleteHeaders(text) == Ends(text) /= {}
\* Mutant: the body begins in front of the empty line.
BodyStart_Early(text) == CHOOSE i \in Ends(text) : \A j \in Ends(text) : i <= j
BodyStart(text) == 3 + CHOOSE i \in Ends(text) : \A j \in Ends(text) : i <= j

\* get_content_length(): a number that wraps when it is negative; what is no
\* number counts as 0.
Enormous == 1000
ContentLength(headers) ==
    LET value == IF LengthKey \in DOMAIN headers THEN headers[LengthKey] ELSE <<>>
    IN IF value /= <<>> /\ IsNumber(Head(value)) THEN SizeOf(Head(value))
       ELSE IF Len(value) > 1 /\ Head(value) = "-" /\ IsNumber(value[2]) /\ SizeOf(value[2]) > 0 THEN Enormous
       ELSE 0

\* What is refused is not waited for.
Accepts(kind, text) ==
    /\ HasCompleteHeaders(text)
    /\ \E read \in {Deserialize(kind, text, "200")} :
          read = BadMessage \/ Len(text) - BodyStart(text) >= ContentLength(read.headers)

Wire(kind, text, sent) == [kind |-> kind, text |-> text, arrived |-> 0, sent |-> sent, read |-> Unread]

HttpTextInit ==
    \/ \E m \in HttpSent : wire = Wire(m.kind, SerializeText(m), m)
    \/ \E t \in HttpForeign : wire = Wire(t.kind, t.text, Unread)

\* The next read() finds some more of the text.
Arrive(n) ==
    /\ wire.read = Unread
    /\ \E junk \in {"0", "299"} :
        LET text == SubSeq(wire.text, 1, n)
        IN wire' = [wire EXCEPT !.arrived = n,
                                !.read = IF Accepts(wire.kind, text) THEN Deserialize(wire.kind, text, junk) ELSE @]

HttpTextNext == \E n \in (wire.arrived + 1)..Len(wire.text) : Arrive(n)

-----------------------------------------------------------------------------
(* Properties. *)

\* What can be sent as it is: serialize() escapes and refuses nothing.
Plain(word) == word /= <<>> /\ \A c \in HttpBlanks \cup {CR, LF} : ~Contains(word, c)
Sendable(m) ==
    /\ m.kind = "request" => Plain(m.path) /\ m.method \in Methods
    /\ Plain(m.version) /\ ~Contains(m.body, NulChar)
    /\ \A key \in DOMAIN m.headers :
          LET value == m.headers[key]
          IN value /= <<>> /\ Head(value) \notin HttpBlanks /\ ~Contains(value, CR) /\ ~Contains(value, LF)
    /\ LengthKey \in DOMAIN m.headers => ContentLength(m.headers) = Len(m.body)

\* A message is taken when all of it has arrived, however it was cut, and not
\* before: what HttpExchange says of pieces holds of characters.
TakenWhenWhole ==
    wire.sent /= Unread /\ Sendable(wire.sent) => (wire.read /= Unread <=> wire.arrived = Len(wire.text))

\* It is read as it was sent, with the length of its body among the headers.
MessageComesBack ==
    wire.sent /= Unread /\ Sendable(wire.sent) /\ wire.read /= Unread =>
        LET m == wire.sent
            Got(key) == IF key \in DOMAIN m.headers THEN m.headers[key] ELSE <<Sizes[Len(m.body) + 1]>>
            keys == DOMAIN m.headers \cup (IF m.body = <<>> THEN {} ELSE {LengthKey})
        IN wire.read = [m EXCEPT !.headers = [key \in keys |-> Got(key)]]

\* Whoever wrote the text: once has_complete_headers() is true, what the
\* receivers read of an unfinished message is final but for the end of its body.
HeadIsFinal ==
    LET text == SubSeq(wire.text, 1, wire.arrived)
    IN HasCompleteHeaders(text) =>
       \A early \in {Deserialize(wire.kind, text, "0")}, late \in {Deserialize(wire.kind, wire.text, "0")} :
          /\ early = BadMessage <=> late = BadMessage
          /\ early /= BadMessage => IsPrefix(early.body, late.body) /\ late = [early EXCEPT !.body = late.body]

\* Sender and receivers agree where a message ends and what it says, wherever
\* its text is cut.
MessagesArriveWhole == TakenWhenWhole /\ MessageComesBack /\ HeadIsFinal
=============================================================================
