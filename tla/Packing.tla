------------------------------- MODULE Packing ------------------------------
(***************************************************************************)
(* What is built on bytearray: hexadecimal and base64 text                 *)
(* (src/src/bytearray.cpp), data URIs (src/src/datauri.cpp) and filepack,  *)
(* several files in one array (src/src/filepack.cpp).                      *)
(*                                                                         *)
(* A string is the sequence of its bytes, as an array is.                  *)
(***************************************************************************)
EXTENDS Bytes

CONSTANTS FileNames,     \* names of files in a pack
          Contents,      \* their contents, and the data that is written as text
          MediaTypes,    \* the media types of data URIs
          MaxFiles       \* bound: files in a pack

VARIABLES pack           \* a filepack: its entries

BadText == <<-3>>        \* an exception

-----------------------------------------------------------------------------
(* toHex(), fromHex(), toBase64(), fromBase64() *)

HexDigit(n) == IF n < 10 THEN 48 + n ELSE 87 + n
ToHex(bytes) == FlattenSeq([i \in DOMAIN bytes |-> <<HexDigit(bytes[i] \div 16), HexDigit(bytes[i] % 16)>>])

HexValue(c) == CASE c \in 48..57 -> c - 48 [] c \in 97..102 -> c - 87 [] c \in 65..70 -> c - 55 [] OTHER -> -1
\* What is no digit is skipped; a digit without a second one is the high one.
FromHex(text) ==
    LET digits == SelectSeq([i \in DOMAIN text |-> HexValue(text[i])], LAMBDA v : v >= 0)
    IN [i \in 1..((Len(digits) + 1) \div 2) |->
            16 * digits[2 * i - 1] + (IF 2 * i <= Len(digits) THEN digits[2 * i] ELSE 0)]

SextetChar(n) == CASE n < 26 -> 65 + n [] n \in 26..51 -> 71 + n [] n \in 52..61 -> n - 4 [] n = 62 -> 43 [] n = 63 -> 47
Sextet(c) == CASE c \in 65..90 -> c - 65 [] c \in 97..122 -> c - 71 [] c \in 48..57 -> c + 4
               [] c = 43 -> 62 [] c = 47 -> 63 [] OTHER -> -1
Equals == 61

GroupText(b) ==
    LET n == Len(b)
        sum == 65536 * b[1] + (IF n > 1 THEN 256 * b[2] ELSE 0) + (IF n > 2 THEN b[3] ELSE 0)
    IN [i \in 1..4 |-> IF i > n + 1 THEN Equals ELSE SextetChar((sum \div 64^(4 - i)) % 64)]
Groups(sequence, size) ==
    [i \in 1..((Len(sequence) + size - 1) \div size) |-> Part(sequence, (i - 1) * size, i * size)]
ToBase64(bytes) == FlattenSeq([i \in DOMAIN Groups(bytes, 3) |-> GroupText(Groups(bytes, 3)[i])])

\* One "=" at the end counts for one more byte, and two for two.
FromBase64(text) ==
    LET pad == IF ~IsSuffix(<<Equals>>, text) THEN 0 ELSE IF IsSuffix(<<Equals, Equals>>, text) THEN 2 ELSE 1
        len == Len(text) - pad
        out == (len \div 4) * 3 + pad
        groups == Groups(Part(text, 0, len), 4)
        Value(g, i) == IF i <= Len(g) THEN Sextet(g[i]) ELSE IF i = 2 THEN -1 ELSE 0
        Sum(g) == 262144 * Value(g, 1) + 4096 * Value(g, 2) + 64 * Value(g, 3) + Value(g, 4)
        bytes == FlattenSeq([k \in DOMAIN groups |->
                    [i \in 1..3 |-> (Sum(groups[k]) \div 256^(3 - i)) % 256]])
    IN IF \E k \in DOMAIN groups : \E i \in 1..4 : Value(groups[k], i) < 0 THEN BadText
       ELSE [i \in 1..out |-> IF i <= Len(bytes) THEN bytes[i] ELSE 0]

-----------------------------------------------------------------------------
(* data_uri and inline_data_uri *)

DataPrefix == <<100, 97, 116, 97, 58>>                  \* data:
Base64Mark == <<59, 98, 97, 115, 101, 54, 52>>          \* ;base64
Comma == 44
Percent == 37
NoDataUri == [media |-> BadText, base64 |-> FALSE, data |-> BadText]   \* std::runtime_error

Unreserved(c) == c \in (48..57) \cup (65..90) \cup (97..122) \cup {45, 95, 46, 126}
UpperDigit(n) == IF n < 10 THEN 48 + n ELSE 55 + n
PercentEncode(text) == FlattenSeq([i \in DOMAIN text |->
    IF Unreserved(text[i]) THEN <<text[i]>>
    ELSE <<Percent, UpperDigit(text[i] \div 16), UpperDigit(text[i] % 16)>>])

RECURSIVE PercentDecode(_)
PercentDecode(text) ==
    LET Nibble(c) == IF HexValue(c) < 0 THEN 0 ELSE HexValue(c)
    IN IF text = <<>> THEN <<>>
       ELSE IF Head(text) = Percent /\ Len(text) > 2
       THEN <<16 * Nibble(text[2]) + Nibble(text[3])>> \o PercentDecode(Part(text, 3, Len(text)))
       ELSE <<Head(text)>> \o PercentDecode(Tail(text))

\* encode(): text as the object says, bytes always in base64.
EncodeText(media, base64, text) ==
    DataPrefix \o media
        \o (IF base64 THEN Base64Mark \o <<Comma>> \o ToBase64(text) ELSE <<Comma>> \o PercentEncode(text))
EncodeBytes(media, bytes) == EncodeText(media, TRUE, bytes)

\* parse() and decode(), which look for the first comma.
ParseDataUri(uri) ==
    LET comma == SelectInSeq(Part(uri, 5, Len(uri)), LAMBDA c : c = Comma) + 5
        meta == Part(uri, 5, comma - 1)
        base64 == IsSuffix(Base64Mark, meta)
        data == Part(uri, comma, Len(uri))
    IN IF ~IsPrefix(DataPrefix, uri) \/ comma = 5 THEN NoDataUri
       ELSE [media |-> IF base64 THEN Part(meta, 0, Len(meta) - 7) ELSE meta,
             base64 |-> base64,
             data |-> IF base64 THEN FromBase64(data) ELSE PercentDecode(data)]

-----------------------------------------------------------------------------
(* filepack; an uint64_t takes two words. *)

Entry(name, data) == [filename |-> name, data |-> data]
Long(n) == Native(n, 2 * WordSize)
ReadLong(a) == ReadNative(a, 2 * WordSize)

\* Mutant: the contents are written right behind the names.
DumpPack_Interleaved(entries) ==
    Long(Len(entries))
        \o FlattenSeq([i \in DOMAIN entries |->
              Encoded(StringItem(entries[i].filename)) \o Long(Len(entries[i].data)) \o entries[i].data])
DumpPack(entries) ==
    Long(Len(entries))
        \o FlattenSeq([i \in DOMAIN entries |->
              Encoded(StringItem(entries[i].filename)) \o Long(Len(entries[i].data))])
        \o FlattenSeq([i \in DOMAIN entries |-> entries[i].data])

\* One more read: it adds what it got to the results, or the error ends it all.
PackFailed == <<OutOfRange>>
NoPack == <<Entry(BadText, BadText)>>
Then(done, ReadOne(_)) ==
    IF done.value = PackFailed THEN done
    ELSE LET read == ReadOne(done.next)
         IN Read(IF read.value = OutOfRange THEN PackFailed ELSE Append(done.value, read.value), read.next)
Times(n) == [i \in 1..n |-> i]

Zipped(table, all) ==
    IF all.value = PackFailed THEN Read(NoPack, all.next)
    ELSE Read([i \in DOMAIN all.value |-> Entry(table.value[2 * i - 1], all.value[i])], all.next)
LoadContents(table, count) ==
    LET Size(i) == table.value[2 * i][1]
    IN IF table.value = PackFailed THEN Read(NoPack, table.next)
       ELSE Zipped(table, FoldLeft(LAMBDA done, i : Then(done, LAMBDA b : ReadBytes(b, Size(i))),
                                   Read(<<>>, table.next), Times(count)))
LoadTable(a, count) ==
    IF count.value = OutOfRange THEN Read(NoPack, a)
    ELSE LoadContents(FoldLeft(LAMBDA done, i : Then(Then(done, ReadString), ReadLong),
                               Read(<<>>, count.next), Times(count.value[1])), count.value[1])
LoadPack(a) == LoadTable(a, ReadLong(a))

GetFile(entries, name) ==
    LET i == SelectInSeq(entries, LAMBDA e : e.filename = name)
    IN IF i = 0 THEN BadText ELSE entries[i].data

\* sortFiles(): std::sort may put equal entries in any order.
Smaller(method, d, e) ==
    IF method = "size" THEN Len(d.data) < Len(e.data)
    ELSE d.filename /= e.filename /\
         \/ IsPrefix(d.filename, e.filename)
         \/ \E i \in 1..LowerOf(Len(d.filename), Len(e.filename)) :
               SubSeq(d.filename, 1, i - 1) = SubSeq(e.filename, 1, i - 1) /\ d.filename[i] < e.filename[i]
Sorted(entries, method, ascending) ==
    {p \in {[i \in DOMAIN entries |-> entries[order[i]]] : order \in Permutations(DOMAIN entries)} :
        \A i \in 2..Len(p) : ~ IF ascending THEN Smaller(method, p[i], p[i - 1])
                               ELSE Smaller(method, p[i - 1], p[i])}

-----------------------------------------------------------------------------
PackInit == pack = <<>>

AddFile == /\ Len(pack) < MaxFiles
           /\ \E name \in FileNames, data \in Contents : pack' = Append(pack, Entry(name, data))
SortFiles == \E method \in {"name", "size"}, ascending \in BOOLEAN : pack' \in Sorted(pack, method, ascending)
\* The file is written, and loaded by a program that puts more behind it.
ReloadPack == pack' = LoadPack(Bytes(DumpPack(pack))).value

PackNext == AddFile \/ SortFiles \/ ReloadPack

-----------------------------------------------------------------------------
\* A pack is loaded as it was dumped, several files of one name too, and the
\* cursor is left where the pack ends, so that another can follow.
PacksComeBack ==
    LET dumped == DumpPack(pack)
    IN \A loaded \in {LoadPack(Bytes(dumped \o dumped))} :
       loaded.value = pack /\ loaded.next.r = Len(dumped) /\ LoadPack(loaded.next).value = pack

\* A pack of which the end is missing is never loaded in part.
CutOffPackIsRefused ==
    \A n \in 0..(Len(DumpPack(pack)) - 1) : LoadPack(Cut(Bytes(DumpPack(pack)), n)).value = NoPack

\* What is written as text is read back: in hexadecimal, percent-encoded with
\* its media type, and in base64 without "=", which is when three bytes make up
\* every group.
TextsComeBack ==
    \A media \in MediaTypes, i \in DOMAIN pack :
        LET data == pack[i].data
            texts == {FALSE} \cup (IF Len(data) % 3 = 0 THEN {TRUE} ELSE {})
        IN /\ FromHex(ToHex(data)) = data
           /\ \A base64 \in texts :
                 ParseDataUri(EncodeText(media, base64, data)) = [media |-> media, base64 |-> base64, data |-> data]

\* json.md: a bytearray is "serialized as "base64:..." strings; strings starting
\* with base64: are auto-decoded on parse".  The text that stands for bytes is
\* decoded as those bytes, with one "=" or two at its end as well.
Base64ComesBack == \A i \in DOMAIN pack : FromBase64(ToBase64(pack[i].data)) = pack[i].data

\* However bytes are laid out anew, none is lost or changed: a pack, and a text in
\* hexadecimal, percent signs or unpadded base64, gives back its bytes or nothing,
\* and bits that are shifted, rotated to the right or taken stay in their order.
PackingIsLossless == PacksComeBack /\ CutOffPackIsRefused /\ TextsComeBack /\ BitsMoveAsOne
=============================================================================
