-------------------------------- MODULE Json --------------------------------
(***************************************************************************)
(* scl2::json_value, json_pointer, json_parser and json_exporter           *)
(* (src/src/json.cpp, src/include/json.hpp, with SCL2_JSON_ENABLE_         *)
(* EXTENSIONS as it is built by default): a program builds a document,     *)
(* writes it to a file, and reads files that it or others wrote.           *)
(*                                                                         *)
(* A text is a sequence of characters.  A white space and the four hex     *)
(* digits of an escape are one character each, and so is what UTF-8 writes *)
(* in two bytes.                                                           *)
(***************************************************************************)
EXTENDS Integers, Sequences, FiniteSets, SequencesExt

CONSTANTS Pointers,    \* the pointers the program uses, before they are split
          Scalars,     \* the values it stores
          Texts,       \* the texts that others write
          MaxInt,      \* INT64_MAX
          SizeMax,     \* SIZE_MAX, of unsigned long as well
          MaxLength,   \* what a vector may hold at most
          MaxSize,     \* bound: values in the document
          MaxText      \* bound: characters in the file

VARIABLES doc,         \* the program's document
          text         \* the file; it is empty while the program edits

-----------------------------------------------------------------------------
(* json_value *)

Null == [type |-> "null"]
Bool(b) == [type |-> "bool", bool |-> b]
Integer(n) == [type |-> "integer", int |-> n]
Floating(digits) == [type |-> "floating", digits |-> digits]
String(chars) == [type |-> "string", chars |-> chars]
Bytes(data) == [type |-> "bytearray", data |-> data]
DataUri(media, base64, data) == [type |-> "data_uri", media |-> media, base64 |-> base64, data |-> data]
Array(items) == [type |-> "array", items |-> items]
Object(members) == [type |-> "object", members |-> members]

IsArray(v) == v.type = "array"
IsObject(v) == v.type = "object"

With(members, key, v) ==
    [k \in DOMAIN members \cup {key} |-> IF k = key THEN v ELSE members[k]]
Without(members, key) == [k \in DOMAIN members \ {key} |-> members[k]]
\* Mutant: the vector is filled anew.
Resized_Anew(items, n) == [i \in 1..n |-> Null]
\* resize()
Resized(items, n) == items \o [i \in 1..(n - Len(items)) |-> Null]

\* The keys of an object in some order: no property tells it from that of
\* std::map.
Ordered(members) == SetToSeq(DOMAIN members)

-----------------------------------------------------------------------------
(* json_pointer *)

\* unescape_segment(): every occurrence of `escape` from the left is replaced.
RECURSIVE Replace(_, _, _)
Replace(chars, escape, by) ==
    IF Len(chars) < 2 THEN chars
    ELSE IF SubSeq(chars, 1, 2) = escape THEN <<by>> \o Replace(SubSeq(chars, 3, Len(chars)), escape, by)
    ELSE <<Head(chars)>> \o Replace(Tail(chars), escape, by)
UnescapeSegment(chars) == Replace(Replace(chars, <<"~", "1">>, "/"), <<"~", "0">>, "~")

\* split_tokens(), after the leading "/".
RECURSIVE SplitAtSlash(_)
SplitAtSlash(chars) ==
    IF ~Contains(chars, "/") THEN <<UnescapeSegment(chars)>>
    ELSE LET pos == CHOOSE i \in DOMAIN chars :
                      chars[i] = "/" /\ \A j \in 1..(i - 1) : chars[j] # "/"
         IN  <<UnescapeSegment(SubSeq(chars, 1, pos - 1))>>
                \o SplitAtSlash(SubSeq(chars, pos + 1, Len(chars)))
SplitTokens(pointer) == IF pointer = <<>> THEN <<>> ELSE SplitAtSlash(Tail(pointer))
TokensOf == [p \in Pointers |-> SplitTokens(p)]

Digits == {"0", "1", "2", "5", "9"}
DigitValue == [d \in Digits |-> CASE d = "0" -> 0 [] d = "1" -> 1 [] d = "2" -> 2
                                  [] d = "5" -> 5 [] d = "9" -> 9]
LeadingDigits(chars) ==
    SubSeq(chars, 1, CHOOSE n \in 0..Len(chars) :
                        /\ \A i \in 1..n : chars[i] \in Digits
                        /\ n < Len(chars) => chars[n + 1] \notin Digits)
ValueOf(chars) ==
    LET value[n \in 0..Len(chars)] == IF n = 0 THEN 0 ELSE 10 * value[n - 1] + DigitValue[chars[n]]
    IN  value[Len(chars)]

Unblanked(chars) == SubSeq(chars, SelectInSeq(chars \o <<"0">>, LAMBDA c : c \notin {" ", "newline"}), Len(chars))
BehindSign(chars) == IF chars # <<>> /\ Head(chars) \in {"+", "-"} THEN Tail(chars) ELSE chars
IsNegative(chars) == chars # <<>> /\ Head(chars) = "-"
\* The index that std::stoul() makes of a segment, counted from 1, or 0 where it
\* throws: blanks and a sign may come first, what follows the digits is ignored,
\* and a negative number wraps around, so that SizeMax + 1 is the index of which
\* index + 1 is 0.
Index(segment) ==
    LET chars == Unblanked(segment)
        digits == LeadingDigits(BehindSign(chars))
        n == ValueOf(digits)
    IN  IF digits = <<>> \/ n > SizeMax THEN 0
        ELSE 1 + (IF IsNegative(chars) THEN (SizeMax + 1 - n) % (SizeMax + 1) ELSE n)
IsIndex(segment) == segment # <<>> /\ LeadingDigits(segment) = segment

Missing == [type |-> "missing"]

\* apply() to a constant: the value there, or Missing where it throws.
RECURSIVE Apply(_, _)
Apply(v, tokens) ==
    IF tokens = <<>> THEN v
    ELSE LET segment == Head(tokens)
         IN  CASE IsArray(v) /\ Index(segment) \in DOMAIN v.items ->
                    Apply(v.items[Index(segment)], Tail(tokens))
               [] IsObject(v) /\ segment \in DOMAIN v.members ->
                    Apply(v.members[segment], Tail(tokens))
               [] OTHER -> Missing

\* contains()
RECURSIVE Contained(_, _)
Contained(v, tokens) ==
    \/ tokens = <<>>
    \/ /\ IsArray(v) /\ Index(Head(tokens)) \in DOMAIN v.items
       /\ Contained(v.items[Index(Head(tokens))], Tail(tokens))
    \/ /\ IsObject(v) /\ Head(tokens) \in DOMAIN v.members
       /\ Contained(v.members[Head(tokens)], Tail(tokens))

Created(segment) == IF IsIndex(segment) THEN Array(<<>>) ELSE Object(<<>>)

\* apply() to a document that may change: the document with all values on the
\* way, and whether nothing was thrown.  What was created before a throw stays.
\* resize(index + 1) empties the array when index + 1 is 0, and throws when it is
\* more than a vector may hold.  An element SizeMax is none: what the program
\* writes there is no part of the document, and it may end of it.
RECURSIVE Create(_, _)
Create(v, tokens) ==
    IF tokens = <<>> THEN [ok |-> TRUE, doc |-> v]
    ELSE LET segment == Head(tokens)
             current == IF v = Null THEN Created(segment) ELSE v
             i == Index(segment)
         IN  CASE IsArray(current) /\ i > SizeMax -> [ok |-> FALSE, doc |-> Array(<<>>)]
               [] IsArray(current) /\ i \in 1..MaxLength ->
                    LET items == IF i > Len(current.items) THEN Resized(current.items, i)
                                 ELSE current.items
                        r == Create(items[i], Tail(tokens))
                    IN  [ok |-> r.ok, doc |-> Array([items EXCEPT ![i] = r.doc])]
               [] IsObject(current) ->
                    LET member == IF segment \in DOMAIN current.members
                                  THEN current.members[segment] ELSE Null
                        r == Create(member, Tail(tokens))
                    IN  [ok |-> r.ok, doc |-> Object(With(current.members, segment, r.doc))]
               [] OTHER -> [ok |-> FALSE, doc |-> current]

\* An assignment to the reference that apply() returned.
RECURSIVE Assign(_, _, _)
Assign(v, tokens, w) ==
    IF tokens = <<>> THEN w
    ELSE IF IsArray(v)
    THEN Array([v.items EXCEPT ![Index(Head(tokens))] = Assign(@, Tail(tokens), w)])
    ELSE Object([v.members EXCEPT ![Head(tokens)] = Assign(@, Tail(tokens), w)])

-----------------------------------------------------------------------------
(* Editing. *)

RECURSIVE Size(_)
Size(v) ==
    CASE IsArray(v) -> FoldLeft(LAMBDA n, item : n + Size(item), 1, v.items)
      [] IsObject(v) -> FoldLeft(LAMBDA n, k : n + Size(v.members[k]), 1, Ordered(v.members))
      [] OTHER -> 1

Small(v) == Size(v) <= MaxSize

\* at_path(p) = w
Set(p, w) ==
    LET tokens == TokensOf[p]
        created == Create(doc, tokens)
    IN  /\ text = <<>>
        /\ doc' = IF created.ok THEN Assign(created.doc, tokens, w) ELSE created.doc
        /\ Small(doc')
        /\ UNCHANGED text

\* at_path(p).push_back(w): as_array() makes an array of null and throws for
\* anything else.
PushBack(p, w) ==
    LET tokens == TokensOf[p]
        created == Create(doc, tokens)
        v == Apply(created.doc, tokens)
    IN  /\ text = <<>>
        /\ doc' = IF ~created.ok THEN created.doc
                  ELSE CASE v = Null -> Assign(created.doc, tokens, Array(<<w>>))
                         [] IsArray(v) -> Assign(created.doc, tokens, Array(Append(v.items, w)))
                         [] OTHER -> created.doc
        /\ Small(doc')
        /\ UNCHANGED text

\* erase(index) of an array found there, for an index within it; pop_back() is
\* that of the last.
EraseIndex(p) ==
    LET tokens == TokensOf[p]
        v == Apply(doc, tokens)
    IN  /\ text = <<>>
        /\ IsArray(v)
        /\ \E i \in DOMAIN v.items : doc' = Assign(doc, tokens, Array(RemoveAt(v.items, i)))
        /\ UNCHANGED text

\* remove_member()
RemoveMember(p) ==
    LET tokens == TokensOf[p]
        v == Apply(doc, tokens)
    IN  /\ text = <<>>
        /\ IsObject(v)
        /\ \E k \in DOMAIN v.members : doc' = Assign(doc, tokens, Object(Without(v.members, k)))
        /\ UNCHANGED text

\* clear(), clear_as_array() and clear_as_object(): the last two only change a
\* value of that type.
Clear(p) ==
    LET tokens == TokensOf[p]
        v == Apply(doc, tokens)
    IN  /\ text = <<>>
        /\ v # Missing
        /\ \/ doc' = Assign(doc, tokens, Null)
           \/ IsArray(v) /\ doc' = Assign(doc, tokens, Array(<<>>))
           \/ IsObject(v) /\ doc' = Assign(doc, tokens, Object(<<>>))
        /\ UNCHANGED text

Edit ==
    \E p \in Pointers :
        \/ \E w \in Scalars : Set(p, w) \/ PushBack(p, w)
        \/ EraseIndex(p) \/ RemoveMember(p) \/ Clear(p)

-----------------------------------------------------------------------------
(* Properties. *)

\* Where a pointer leads in v: two pointers may write the same index.
RECURSIVE Where(_, _)
Where(v, tokens) ==
    IF tokens = <<>> THEN <<>>
    ELSE IF IsArray(v)
    THEN <<Index(Head(tokens))>> \o Where(v.items[Index(Head(tokens))], Tail(tokens))
    ELSE <<Head(tokens)>> \o Where(v.members[Head(tokens)], Tail(tokens))

\* w is v with more in it: nulls that became something, elements and members that
\* were not there.
RECURSIVE OnlyGrown(_, _)
OnlyGrown(v, w) ==
    \/ v = Null \/ v = w
    \/ /\ IsArray(v) /\ IsArray(w) /\ Len(v.items) <= Len(w.items)
       /\ \A i \in DOMAIN v.items : OnlyGrown(v.items[i], w.items[i])
    \/ /\ IsObject(v) /\ IsObject(w) /\ DOMAIN v.members \subseteq DOMAIN w.members
       /\ \A k \in DOMAIN v.members : OnlyGrown(v.members[k], w.members[k])

\* Pointers without a sign: no index of them wraps around.
WithoutSign(tokens) == \A i \in DOMAIN tokens : ~IsNegative(Unblanked(tokens[i]))

\* at_path(p) = w changes what p points to and, but for the values on the way
\* and the nulls that fill an array, nothing else.  When it throws, the containers
\* and the nulls that it created stay, and everything that was there is still
\* there.
SetIsLocal ==
    [][doc' # doc => \A p \in Pointers, w \in Scalars : Set(p, w) /\ WithoutSign(TokensOf[p]) =>
          LET tokens == TokensOf[p] IN
          \/ ~Create(doc, tokens).ok /\ OnlyGrown(doc, doc')
          \/ /\ Contained(doc', tokens) /\ Apply(doc', tokens) = w
             /\ \A q \in Pointers :
                  LET others == TokensOf[q] IN
                  Contained(doc, others) =>
                    \/ /\ Contained(doc', others)
                       /\ Apply(doc', others) = Apply(doc, others)
                    \/ IsPrefix(Where(doc, others), Where(doc', tokens))
                    \/ IsPrefix(Where(doc', tokens), Where(doc, others))]_doc

\* json.md: "Arrays auto-expand via resize(index + 1) with null fill."  Violated:
\* a segment of -1 is the index SIZE_MAX, index + 1 is 0, and the array is emptied.
ArraysExpand ==
    [][\A p \in Pointers, w \in Scalars : Set(p, w) /\ ~Create(doc, TokensOf[p]).ok => OnlyGrown(doc, doc')]_doc

\* Every member of an object is reached by a pointer with its key escaped, and
\* contains() says so.
Escape(key) ==
    FlattenSeq([i \in DOMAIN key |-> CASE key[i] = "~" -> <<"~", "0">>
                                       [] key[i] = "/" -> <<"~", "1">>
                                       [] OTHER -> <<key[i]>>])
MembersAreReachable ==
    IsObject(doc) => \A k \in DOMAIN doc.members :
        LET tokens == SplitTokens(<<"/">> \o Escape(k))
        IN  Contained(doc, tokens) /\ Apply(doc, tokens) = doc.members[k]
=============================================================================
