------------------------------- MODULE QrCode -------------------------------
(***************************************************************************)
(* scl2::qrcode (src/src/qrcode.cpp, src/include/qrcode.hpp): a text       *)
(* becomes the dark modules of a square.                                   *)
(*                                                                         *)
(* A text is a sequence of character codes, a module is a pair <<x, y>>    *)
(* from the top left, and a picture is the set of its dark modules.  The   *)
(* decoder is a stub in the code; the reader below follows the standard    *)
(* and belongs to the properties.                                          *)
(***************************************************************************)
EXTENDS Integers, Sequences, SequencesExt, FiniteSets, FiniteSetsExt

CONSTANT Requests   \* what is asked for: text, level, version, mode, mask and quiet zone

VARIABLE symbol     \* what generate() or capacityForVersion() has answered

-----------------------------------------------------------------------------
(* scl2::xmath::reedsolomon (src/include/xmath-reedsolomon.hpp): the check   *)
(* codewords, over the field of 256 elements.                                *)

\* The same sequence, computed once.
Computed(seq) == seq \o <<>>

XorOfBits(a, b) == LET BitOf(n, i) == (n \div 2^i) % 2
                       At(i) == IF BitOf(a, i) = BitOf(b, i) THEN 0 ELSE 2^i
                   IN At(0) + At(1) + At(2) + At(3)
XorTable == Computed([k \in 1..256 |-> XorOfBits((k - 1) \div 16, (k - 1) % 16)])
ByteXor(a, b) == 16 * XorTable[16 * (a \div 16) + (b \div 16) + 1] + XorTable[16 * (a % 16) + (b % 16) + 1]

\* 285 is the primitive polynomial 0x11D.
ExpTable == FoldLeft(LAMBDA table, i : Append(table, IF 2 * table[i] < 256 THEN 2 * table[i]
                                                     ELSE ByteXor(2 * table[i] - 256, 285 - 256)),
                     <<1>>, [i \in 1..254 |-> i])
LogTable == LET exp == ExpTable
            IN FoldLeft(LAMBDA table, i : [table EXCEPT ![exp[i]] = i - 1],
                        [value \in 1..255 |-> 0], [i \in 1..255 |-> i])

PowAlpha(k) == ExpTable[(k % 255) + 1]
Mul(a, b) == IF a = 0 \/ b = 0 THEN 0 ELSE PowAlpha(LogTable[a] + LogTable[b])

\* (x + alpha^(d - 1)) * prev: the leading 1 is left out of both.
NextGenerator(prev, d) ==
    Computed([j \in 1..d |-> ByteXor(IF j = 1 THEN PowAlpha(d - 1) ELSE Mul(prev[j - 1], PowAlpha(d - 1)),
                                     IF j < d THEN prev[j] ELSE 0)])
GeneratorOf(degree) == FoldLeft(NextGenerator, <<>>, [d \in 1..degree |-> d])

RECURSIVE RemainderOf(_, _, _)
RemainderOf(data, generator, rem) ==
    IF data = <<>> THEN rem
    ELSE LET factor == ByteXor(Head(data), rem[1])
         IN RemainderOf(Tail(data), generator,
                        Computed([j \in DOMAIN rem |-> ByteXor(IF j < Len(rem) THEN rem[j + 1] ELSE 0,
                                                               Mul(generator[j], factor))]))
CheckCodewords(data, count) == RemainderOf(data, GeneratorOf(count), [j \in 1..count |-> 0])

-----------------------------------------------------------------------------
(* Capacities and tables. *)

Levels == {"L", "M", "Q", "H"}
LevelNumber == [L |-> 1, M |-> 2, Q |-> 3, H |-> 4]
SizeForVersion(v) == 17 + 4 * v

CapacityTable ==
    << <<19, 16, 13, 9>>, <<34, 28, 22, 16>>, <<55, 44, 34, 26>>, <<80, 64, 48, 36>>,
       <<108, 86, 62, 46>>, <<136, 108, 76, 60>>, <<156, 124, 88, 66>>, <<194, 154, 110, 86>>,
       <<232, 182, 132, 100>>, <<274, 216, 154, 122>>, <<324, 254, 180, 140>>, <<370, 290, 206, 158>>,
       <<428, 334, 244, 180>>, <<461, 365, 261, 197>>, <<523, 415, 295, 223>>, <<589, 453, 325, 253>>,
       <<647, 507, 367, 283>>, <<721, 563, 397, 313>>, <<795, 627, 445, 341>>, <<861, 669, 485, 385>>,
       <<932, 714, 512, 406>>, <<1006, 782, 568, 442>>, <<1094, 860, 614, 464>>, <<1174, 914, 664, 514>>,
       <<1276, 1000, 718, 538>>, <<1370, 1062, 754, 596>>, <<1468, 1128, 808, 628>>, <<1531, 1193, 871, 661>>,
       <<1631, 1267, 911, 701>>, <<1735, 1373, 985, 745>>, <<1843, 1455, 1033, 793>>, <<1955, 1541, 1115, 845>>,
       <<2071, 1631, 1171, 901>>, <<2191, 1725, 1231, 961>>, <<2306, 1812, 1286, 986>>, <<2434, 1914, 1354, 1054>>,
       <<2566, 1992, 1426, 1096>>, <<2702, 2102, 1502, 1142>>, <<2812, 2216, 1582, 1222>>, <<2956, 2334, 1666, 1276>> >>
CapacityForVersion(v, level) == CapacityTable[v][LevelNumber[level]]

\* ALIGN_POSITIONS
AlignPositions ==
    << <<>>, <<6, 18>>, <<6, 22>>, <<6, 26>>, <<6, 30>>, <<6, 34>>,
       <<6, 22, 38>>, <<6, 24, 42>>, <<6, 26, 46>>, <<6, 28, 50>>, <<6, 30, 54>>, <<6, 32, 58>>, <<6, 34, 62>>,
       <<6, 26, 46, 66>>, <<6, 26, 48, 70>>, <<6, 26, 50, 74>>, <<6, 30, 54, 78>>, <<6, 30, 56, 82>>,
       <<6, 30, 58, 86>>, <<6, 34, 62, 90>>,
       <<6, 28, 50, 72, 94>>, <<6, 26, 50, 74, 98>>, <<6, 30, 54, 78, 102>>, <<6, 28, 54, 80, 106>>,
       <<6, 32, 58, 84, 110>>, <<6, 30, 58, 86, 114>>, <<6, 34, 62, 90, 118>>,
       <<6, 26, 50, 74, 98, 122>>, <<6, 30, 54, 78, 102, 126>>, <<6, 26, 52, 78, 104, 130>>,
       <<6, 30, 56, 82, 108, 134>>, <<6, 34, 60, 86, 112, 138>>, <<6, 30, 58, 86, 114, 142>>,
       <<6, 34, 62, 90, 118, 146>>,
       <<6, 30, 54, 78, 102, 126, 150>>, <<6, 24, 50, 76, 102, 128, 154>>, <<6, 28, 54, 80, 106, 132, 158>>,
       <<6, 32, 58, 84, 110, 136, 162>>, <<6, 26, 54, 82, 110, 138, 166>>, <<6, 30, 58, 86, 114, 142, 170>> >>

EccPerBlock ==
    << <<7, 10, 15, 20, 26, 18, 20, 24, 30, 18, 20, 24, 26, 30, 22, 24, 28, 30, 28, 28,
         28, 28, 30, 30, 26, 28, 30, 30, 30, 30, 30, 30, 30, 30, 30, 30, 30, 30, 30, 30>>,
       <<10, 16, 26, 18, 24, 16, 18, 22, 22, 26, 30, 22, 22, 24, 24, 28, 28, 26, 26, 26,
         26, 28, 28, 28, 28, 28, 28, 28, 28, 28, 28, 28, 28, 28, 28, 28, 28, 28, 28, 28>>,
       <<13, 22, 18, 26, 18, 24, 18, 22, 20, 24, 28, 26, 24, 20, 30, 24, 28, 28, 26, 30,
         28, 30, 30, 30, 30, 28, 30, 30, 30, 30, 30, 30, 30, 30, 30, 30, 30, 30, 30, 30>>,
       <<17, 28, 22, 16, 22, 28, 26, 26, 24, 28, 24, 28, 22, 24, 24, 30, 28, 28, 26, 28,
         30, 24, 30, 30, 30, 30, 30, 30, 30, 30, 30, 30, 30, 30, 30, 30, 30, 30, 30, 30>> >>
NumBlocks ==
    << <<1, 1, 1, 1, 1, 2, 2, 2, 2, 4, 4, 4, 4, 4, 6, 6, 6, 6, 7, 8,
         8, 9, 9, 10, 12, 12, 12, 13, 14, 15, 16, 17, 18, 19, 19, 20, 21, 22, 24, 25>>,
       <<1, 1, 1, 2, 2, 4, 4, 4, 5, 5, 5, 8, 9, 9, 10, 10, 11, 13, 14, 16,
         17, 17, 18, 20, 21, 23, 25, 26, 28, 29, 31, 33, 35, 37, 38, 40, 43, 45, 47, 49>>,
       <<1, 1, 2, 2, 4, 4, 6, 6, 8, 8, 8, 10, 12, 16, 12, 17, 16, 18, 21, 20,
         23, 23, 25, 27, 29, 34, 34, 35, 38, 40, 43, 45, 48, 51, 53, 56, 59, 62, 65, 68>>,
       <<1, 1, 2, 4, 4, 4, 5, 6, 8, 8, 11, 11, 16, 16, 18, 16, 19, 21, 25, 25,
         25, 34, 30, 32, 35, 37, 40, 42, 45, 48, 51, 54, 57, 60, 63, 66, 70, 74, 77, 81>> >>

-----------------------------------------------------------------------------
(* Texts become bits. *)

Specials == <<32, 36, 37, 42, 43, 45, 46, 47, 58>>   \* space $ % * + - . / :
AlnumValue(c) ==
    CASE c \in 48..57 -> c - 48
      [] c \in 65..90 -> c - 55
      [] \E i \in DOMAIN Specials : Specials[i] = c -> 35 + CHOOSE i \in DOMAIN Specials : Specials[i] = c
      [] OTHER -> -1
DetectMode(text) ==
    CASE text # <<>> /\ (\A i \in DOMAIN text : text[i] \in 48..57) -> "numeric"
      [] text # <<>> /\ (\A i \in DOMAIN text : AlnumValue(text[i]) >= 0) -> "alphanumeric"
      [] OTHER -> "byte"
ModeIndicator == [numeric |-> 1, alphanumeric |-> 2, byte |-> 4, kanji |-> 8]
CharCountBits(mode, v) ==
    LET range == IF v <= 9 THEN 1 ELSE IF v <= 26 THEN 2 ELSE 3
    IN CASE mode = "numeric" -> <<10, 12, 14>>[range]
         [] mode = "alphanumeric" -> <<9, 11, 13>>[range]
         [] mode = "byte" -> <<8, 16, 16>>[range]
         [] mode = "kanji" -> <<8, 10, 12>>[range]

\* bit_writer::write_bits()
Binary(value, n) == [i \in 1..n |-> (value \div 2^(n - i)) % 2]
Piece(text, k, g) == SubSeq(text, k * (g - 1) + 1, IF k * g < Len(text) THEN k * g ELSE Len(text))
PieceCount(text, k) == (Len(text) + k - 1) \div k
\* The digits of a piece as one number.
Joint(piece, base, Value(_)) == FoldLeft(LAMBDA sum, c : sum * base + Value(c), 0, piece)
Numeric(text) ==
    FlattenSeq([g \in 1..PieceCount(text, 3) |->
        LET piece == Piece(text, 3, g) IN Binary(Joint(piece, 10, LAMBDA c : c - 48), 3 * Len(piece) + 1)])
Alphanumeric(text) ==
    FlattenSeq([g \in 1..PieceCount(text, 2) |->
        LET piece == Piece(text, 2, g) IN Binary(Joint(piece, 45, AlnumValue), IF Len(piece) = 2 THEN 11 ELSE 6)])
Payload(text, mode) ==
    CASE mode = "numeric" -> Numeric(text)
      [] mode = "alphanumeric" -> Alphanumeric(text)
      [] mode = "byte" -> FlattenSeq([i \in DOMAIN text |-> Binary(text[i], 8)])

RawDataBits(text, mode) ==
    LET n == Len(text)
    IN CASE mode = "numeric" -> (n \div 3) * 10 + <<0, 4, 7>>[(n % 3) + 1]
         [] mode = "alphanumeric" -> (n \div 2) * 11 + (n % 2) * 6
         [] OTHER -> n * 8
Suffices(v, text, mode, level) ==
    4 + CharCountBits(mode, v) + RawDataBits(text, mode) <= CapacityForVersion(v, level) * 8
\* select_version(): 0 stands for the exception.
SelectVersion(text, mode, level) ==
    LET enough == {v \in 1..40 : Suffices(v, text, mode, level)}
    IN IF enough = {} THEN 0 ELSE Min(enough)

\* A text that is too long for the version is cut off: what remains underflows.
EncodeData(text, mode, level, v) ==
    LET capacity == CapacityForVersion(v, level)
        bits == Binary(ModeIndicator[mode], 4) \o Binary(Len(text), CharCountBits(mode, v)) \o Payload(text, mode)
        remaining == capacity * 8 - Len(bits)
        zeros == IF remaining \in 0..3 THEN remaining ELSE 4
        count == (Len(bits) + zeros + 7) \div 8
        BitAt(i) == IF i <= Len(bits) THEN bits[i] ELSE 0
        ByteAt(k) == MapThenSumSet(LAMBDA i : BitAt(8 * (k - 1) + i) * 2^(8 - i), 1..8)
    IN Computed([k \in 1..capacity |-> IF k <= count THEN ByteAt(k) ELSE IF k % 2 = 1 THEN 236 ELSE 17])

\* One after the other from each; the shorter ones end first.
Interleaved(blocks) ==
    LET longest == Len(Last(blocks))
    IN FlattenSeq([k \in 1..longest |-> LET rest == SelectSeq(blocks, LAMBDA block : Len(block) >= k)
                                        IN [b \in DOMAIN rest |-> rest[b][k]]])
\* Mutant: the check codewords of each block stay together.
BuildCodewords_BlockByBlock(data, v, level) ==
    LET blocks == NumBlocks[LevelNumber[level]][v]
        size == Len(data) \div blocks
        short == blocks - (Len(data) % blocks)
        Before(b) == (b - 1) * size + (IF b - 1 > short THEN b - 1 - short ELSE 0)
        parts == Computed([b \in 1..blocks |-> SubSeq(data, Before(b) + 1, Before(b + 1))])
    IN Interleaved(parts) \o
       FlattenSeq(Computed([b \in 1..blocks |-> CheckCodewords(parts[b], EccPerBlock[LevelNumber[level]][v])]))
\* The shorter blocks come first.
BuildCodewords(data, v, level) ==
    LET blocks == NumBlocks[LevelNumber[level]][v]
        size == Len(data) \div blocks
        short == blocks - (Len(data) % blocks)
        Before(b) == (b - 1) * size + (IF b - 1 > short THEN b - 1 - short ELSE 0)
        parts == Computed([b \in 1..blocks |-> SubSeq(data, Before(b) + 1, Before(b + 1))])
    IN Interleaved(parts) \o
       Interleaved(Computed([b \in 1..blocks |-> CheckCodewords(parts[b], EccPerBlock[LevelNumber[level]][v])]))

-----------------------------------------------------------------------------
(* The patterns.  Each has the modules that it writes and the dark ones    *)
(* of them.                                                                *)

DrawnOver(dark, pattern) == (dark \ pattern.on) \cup pattern.dark
Far(a, b) == IF a < b THEN b - a ELSE a - b
Farther(m, centre) == Max({Far(m[1], centre[1]), Far(m[2], centre[2])})
SquareAround(c, radius) == ((c[1] - radius)..(c[1] + radius)) \X ((c[2] - radius)..(c[2] + radius))
\* finder_pattern_7 and alignment_pattern_5: one ring is light.
Rings(centres, radius, light) ==
    LET on == UNION {SquareAround(c, radius) : c \in centres}
    IN [on |-> on, dark |-> {m \in on : \A c \in centres : Farther(m, c) <= radius => Farther(m, c) # light}]

Finders(n) == Rings({<<3, 3>>, <<n - 4, 3>>, <<3, n - 4>>}, 3, 2)
Timing(n) == LET on == UNION {{<<i, 6>>, <<6, i>>} : i \in 8..(n - 9)}
             IN [on |-> on, dark |-> {m \in on : (m[1] + m[2]) % 2 = 0}]
DarkModule(n) == LET m == <<8, n - 8>> IN [on |-> {m}, dark |-> {m}]
AlignmentCentres(v) ==
    LET at == Range(AlignPositions[v])
    IN (at \X at) \ {<<6, 6>>, <<6, SizeForVersion(v) - 7>>, <<SizeForVersion(v) - 7, 6>>}
Alignments(v) == Rings(AlignmentCentres(v), 2, 1)
FunctionPatterns(v) ==
    LET n == SizeForVersion(v) IN <<Finders(n), Timing(n), DarkModule(n), Alignments(v)>>

\* A word is the set of its one bits.
BitSet(value, n) == {i \in 0..(n - 1) : (value \div 2^i) % 2 = 1}
WordXor(a, b) == (a \ b) \cup (b \ a)
\* The data and the remainder of its division by the generator, of n bits.
WithRemainder(data, n, generator) ==
    LET Divided(rem, i) == WordXor({b + 1 : b \in rem}, IF n - 1 \in rem THEN generator ELSE {})
    IN {b + n : b \in data} \cup FoldLeft(Divided, data, [i \in 1..n |-> i])
EcBits == [L |-> 1, M |-> 0, Q |-> 3, H |-> 2]
\* 0x537 and 0x5412
FormatWord(level, mask) ==
    WordXor(WithRemainder(BitSet(8 * EcBits[level] + (mask % 8), 5), 10, {10, 8, 5, 4, 2, 1, 0}), {14, 12, 10, 4, 1})
\* 0x1F25
VersionWord(v) == WithRemainder(BitSet(v, 6), 12, {12, 11, 10, 9, 8, 5, 2, 0})

\* Where bit i of the word is written: two places.
FormatModules(n, i) ==
    {CASE i <= 5 -> <<8, i>> [] i \in 6..7 -> <<8, i + 1>> [] i = 8 -> <<7, 8>> [] i >= 9 -> <<14 - i, 8>>,
     IF i < 8 THEN <<n - 1 - i, 8>> ELSE <<8, n - 15 + i>>}
FormatInfo(n, level, mask) ==
    [on |-> UNION {FormatModules(n, i) : i \in 0..14},
     dark |-> UNION {FormatModules(n, i) : i \in FormatWord(level, mask)}]
VersionModules(n, i) == LET a == n - 11 + (i % 3)
                            b == i \div 3
                        IN {<<a, b>>, <<b, a>>}
\* Only from version 7 on.
VersionInfo(n, v) ==
    [on |-> UNION {VersionModules(n, i) : i \in {j \in 0..17 : v >= 7}},
     dark |-> UNION {VersionModules(n, i) : i \in {j \in VersionWord(v) : v >= 7}}]

\* is_function_module() and is_alignment_module()
IsFunctionModule(x, y, n, centres) ==
    \/ x = 6 \/ y = 6
    \/ (x < 8 /\ y < 8) \/ (x >= n - 8 /\ y < 8) \/ (x < 8 /\ y >= n - 8)
    \/ (x = 8 /\ y \in (0..5) \cup {7, 8}) \/ (y = 8 /\ x <= 7)
    \/ (y = 8 /\ x >= n - 8) \/ (x = 8 /\ y >= n - 8)
    \/ \E c \in centres : Far(x, c[1]) <= 2 /\ Far(y, c[2]) <= 2
    \/ n >= 45 /\ ((x < 6 /\ y >= n - 11) \/ (y < 6 /\ x >= n - 11))

-----------------------------------------------------------------------------
(* The data and the mask. *)

\* Two columns at a time from the right, upwards, then downwards; column 6 is
\* left out.
Zigzag(n) ==
    [k \in 1..(n * (n - 1)) |->
        LET pair == (k - 1) \div (2 * n)
            i == (k - 1) % (2 * n)
            right == IF n - 1 - 2 * pair > 6 THEN n - 1 - 2 * pair ELSE n - 2 - 2 * pair
        IN <<right - (i % 2), IF pair % 2 = 0 THEN n - 1 - i \div 2 ELSE i \div 2>>]
DataModules(n) ==
    LET centres == AlignmentCentres((n - 17) \div 4)
    IN SelectSeq(Zigzag(n), LAMBDA m : ~IsFunctionModule(m[1], m[2], n, centres))
\* What is left over stays light.
PlaceData(modules, codewords) ==
    {modules[i] : i \in {j \in DOMAIN modules :
        (j - 1) \div 8 < Len(codewords) /\ (codewords[(j - 1) \div 8 + 1] \div 2^(7 - ((j - 1) % 8))) % 2 = 1}}

MaskCondition(mask, x, y) ==
    CASE mask = 0 -> (x + y) % 2 = 0
      [] mask = 1 -> y % 2 = 0
      [] mask = 2 -> x % 3 = 0
      [] mask = 3 -> (x + y) % 3 = 0
      [] mask = 4 -> (x \div 3 + y \div 2) % 2 = 0
      [] mask = 5 -> ((x * y) % 2) + ((x * y) % 3) = 0
      [] mask = 6 -> (((x * y) % 2) + ((x * y) % 3)) % 2 = 0
      [] mask = 7 -> (((x + y) % 2) + ((x * y) % 3)) % 2 = 0
      [] OTHER -> FALSE
Masked(dark, modules, mask) ==
    WordXor(dark, {m \in Range(modules) : MaskCondition(mask, m[1], m[2])})

\* The penalty of the lines in one direction: At(i, j) is place j of line i.
LinePenalty(n, dark, At(_, _)) ==
    LET Dark(i, j) == At(i, j) \in dark
        Starts == {<<i, j>> \in (0..(n - 1)) \X (0..(n - 5)) : \A k \in 1..4 : Dark(i, j) = Dark(i, j + k)}
        Runs == {ij \in Starts : ij[2] = 0 \/ Dark(ij[1], ij[2] - 1) # Dark(ij[1], ij[2])}
        LightAt(i, places) == \A j \in places : ~Dark(i, j)
        FinderLike(i, j) ==
            /\ \A k \in {0, 2, 3, 4, 6} : Dark(i, j + k)
            /\ LightAt(i, {j + 1, j + 5})
            /\ \/ j >= 4 /\ LightAt(i, (j - 4)..(j - 1))
               \/ j + 10 < n /\ LightAt(i, (j + 7)..(j + 10))
    IN Cardinality(Starts) + 2 * Cardinality(Runs)
       + 40 * Cardinality({<<i, j>> \in (0..(n - 1)) \X (0..(n - 8)) : FinderLike(i, j)})
\* N4 is computed exactly: see the README.
MaskPenalty(n, dark) ==
    LET SameFour(x, y) == {<<x, y>>, <<x + 1, y>>, <<x, y + 1>>, <<x + 1, y + 1>>} \cap dark \in
                             {{}, {<<x, y>>, <<x + 1, y>>, <<x, y + 1>>, <<x + 1, y + 1>>}}
    IN LinePenalty(n, dark, LAMBDA i, j : <<j, i>>) + LinePenalty(n, dark, LAMBDA i, j : <<i, j>>)
       + 3 * Cardinality({m \in (0..(n - 2)) \X (0..(n - 2)) : SameFour(m[1], m[2])})
       + 10 * (Far(20 * Cardinality(dark), 10 * n * n) \div (n * n))
\* The first of the least, before the format is written.
SelectMask(n, dark, modules) ==
    LET penalty == [mask \in 0..7 |-> MaskPenalty(n, Masked(dark, modules, mask))]
        score == Computed([k \in 1..8 |-> penalty[k - 1]])
    IN CHOOSE mask \in 0..7 : \A other \in 0..7 :
           score[mask + 1] < score[other + 1] \/ (score[mask + 1] = score[other + 1] /\ mask <= other)

-----------------------------------------------------------------------------
NoSymbol == [kind |-> "none"]
Refused(request) == [kind |-> "refused", request |-> request]

\* make_matrix(): version 0 and mask -1 are chosen here.
DarkModules(plain, modules, level, v, mask) ==
    LET n == SizeForVersion(v)
    IN DrawnOver(DrawnOver(Masked(plain, modules, mask), FormatInfo(n, level, mask)), VersionInfo(n, v))
MaskedMatrix(plain, modules, mask, request, mode, v) ==
    [kind |-> "made", request |-> request, mode |-> mode, version |-> v, mask |-> mask, size |-> SizeForVersion(v),
     dark |-> DarkModules(plain, modules, request.level, v, mask)]
WithMask(plain, modules, request, mode, v) ==
    MaskedMatrix(plain, modules,
                 IF request.mask >= 0 THEN request.mask ELSE SelectMask(SizeForVersion(v), plain, modules),
                 request, mode, v)
MakeMatrix(request, mode, v) ==
    LET modules == DataModules(SizeForVersion(v))
        codewords == BuildCodewords(EncodeData(request.text, mode, request.level, v), v, request.level)
    IN WithMask((FoldLeft(DrawnOver, {}, FunctionPatterns(v)) \ Range(modules)) \cup PlaceData(modules, codewords),
                modules, request, mode, v)

\* With the quiet zone around the matrix.
Bordered(made, zone) ==
    IF zone <= 0 THEN made
    ELSE [made EXCEPT !.size = @ + 2 * zone, !.dark = {<<m[1] + zone, m[2] + zone>> : m \in @}]

Generate(request) ==
    LET mode == IF request.mode = "automatic" THEN DetectMode(request.text) ELSE request.mode
        v == IF request.version = 0 THEN SelectVersion(request.text, mode, request.level) ELSE request.version
    IN /\ symbol = NoSymbol
       /\ symbol' = IF v = 0 \/ mode = "kanji" THEN Refused(request)
                    ELSE Bordered(MakeMatrix(request, mode, v), request.zone)

AskCapacity(v, level) ==
    /\ symbol = NoSymbol
    /\ symbol' = [kind |-> "asked", version |-> v, level |-> level, capacity |-> CapacityForVersion(v, level)]

QrInit == symbol = NoSymbol
QrNext == \/ \E request \in Requests : Generate(request)
          \/ \E v \in 1..40, level \in Levels : AskCapacity(v, level)
QrSpec == QrInit /\ [][QrNext]_symbol

-----------------------------------------------------------------------------
(* A reader that follows the standard, knows the symbol alone, and takes   *)
(* the modules that no pattern has drawn for data.                         *)

Made == symbol.kind = "made"
Zone == IF symbol.request.zone > 0 THEN symbol.request.zone ELSE 0
Bare == {<<m[1] - Zone, m[2] - Zone>> : m \in symbol.dark}
BareSize == symbol.size - 2 * Zone
SymbolVersion == (BareSize - 17) \div 4

Separators(n) == ((0..7) \X (0..7)) \cup (((n - 8)..(n - 1)) \X (0..7)) \cup ((0..7) \X ((n - 8)..(n - 1)))
PatternModules(v) ==
    LET n == SizeForVersion(v)
        patterns == FunctionPatterns(v) \o <<FormatInfo(n, "L", 0), VersionInfo(n, v)>>
    IN Separators(n) \cup {<<i, 6>> : i \in 0..(n - 1)} \cup {<<6, i>> : i \in 0..(n - 1)}
       \cup UNION {patterns[k].on : k \in DOMAIN patterns}

ReadCodewords(v, mask) ==
    LET owned == PatternModules(v)
        modules == SelectSeq(Zigzag(SizeForVersion(v)), LAMBDA m : m \notin owned)
        dark == Bare
        BitAt(i) == IF (modules[i] \in dark) # MaskCondition(mask, modules[i][1], modules[i][2]) THEN 1 ELSE 0
    IN Computed([k \in 1..(Len(modules) \div 8) |->
                    MapThenSumSet(LAMBDA i : BitAt(8 * (k - 1) + i) * 2^(8 - i), 1..8)])

\* The data and the check codewords of block b, back in their places.
ReadBlock(codewords, b, blocks, check) ==
    LET data == Len(codewords) - blocks * check
        size == data \div blocks
        short == blocks - (data % blocks)
        Column(k) == codewords[(k - 1) * blocks + b]
    IN [data |-> [k \in 1..(size + (IF b > short THEN 1 ELSE 0)) |->
                     IF k <= size THEN Column(k) ELSE codewords[size * blocks + b - short]],
        check |-> [k \in 1..check |-> codewords[data + (k - 1) * blocks + b]]]
\* Every root of the generator is one of the block.
IsCodeword(block) ==
    LET all == Computed(block.data \o block.check)
    IN \A i \in 0..(Len(block.check) - 1) :
          FoldFunction(ByteXor, 0, [k \in DOMAIN all |-> Mul(all[k], PowAlpha(i * (Len(all) - k)))]) = 0

ReadText(data, v) ==
    LET BitAt(i) == (data[(i - 1) \div 8 + 1] \div 2^(7 - ((i - 1) % 8))) % 2
        Number(from, n) == MapThenSumSet(LAMBDA i : BitAt(from + i) * 2^(n - 1 - i), 0..(n - 1))
        mode == CHOOSE m \in DOMAIN ModeIndicator : ModeIndicator[m] = Number(1, 4)
        first == 5 + CharCountBits(mode, v)
        count == Number(5, CharCountBits(mode, v))
        Digit(i) == LET size == Min({3, count - 3 * (i \div 3)})
                    IN (Number(first + 10 * (i \div 3), 3 * size + 1) \div 10^(size - 1 - (i % 3))) % 10
        AlnumAt(i) == LET size == Min({2, count - 2 * (i \div 2)})
                    IN (Number(first + 11 * (i \div 2), IF size = 2 THEN 11 ELSE 6) \div 45^(size - 1 - (i % 2))) % 45
    IN [i \in 1..count |-> CASE mode = "numeric" -> Digit(i - 1) + 48
                             [] mode = "alphanumeric" -> CHOOSE c \in 32..90 : AlnumValue(c) = AlnumAt(i - 1)
                             [] mode = "byte" -> Number(first + 8 * (i - 1), 8)]

\* What the caller is left to see to: that a given version is large enough, that
\* a given mode has the letters of the text, and that a given mask is one of the
\* eight.  Nothing in the code does.
FitsVersion ==
    4 + CharCountBits(symbol.mode, symbol.version) + Len(Payload(symbol.request.text, symbol.mode))
        <= 8 * CapacityForVersion(symbol.version, symbol.request.level)
HasLetters ==
    CASE symbol.mode = "numeric" -> \A i \in DOMAIN symbol.request.text : symbol.request.text[i] \in 48..57
      [] symbol.mode = "alphanumeric" -> \A i \in DOMAIN symbol.request.text : AlnumValue(symbol.request.text[i]) >= 0
      [] OTHER -> TRUE
SoundRequest == FitsVersion /\ HasLetters /\ symbol.mask \in 0..7

\* The blocks of the symbol, read with this mask and this level.
BlocksOf(level, mask) ==
    LET v == SymbolVersion
        blocks == NumBlocks[LevelNumber[level]][v]
        codewords == ReadCodewords(v, mask)
    IN [b \in 1..blocks |-> ReadBlock(codewords, b, blocks, EccPerBlock[LevelNumber[level]][v])]
DataOf(blocks) == FlattenSeq([b \in DOMAIN blocks |-> blocks[b].data])

\* Whoever follows the standard reads the text back from the dark modules alone,
\* for every level, every quiet zone, the eight masks, and every version and mode
\* that generate() chooses or that is given and fits the text: the format names
\* the mask, and each block is a codeword of its code, so that as many errors as
\* the level promises can be repaired.  The padding is not looked at: it begins
\* with 0x11 and not with 0xEC after an odd number of codewords.
SymbolReadsBack ==
    Made /\ SoundRequest => \E level \in Levels, mask \in 0..7 :
        /\ \A i \in 0..14 : FormatModules(BareSize, i) \subseteq Bare
                             \/ FormatModules(BareSize, i) \cap Bare = {}
        /\ FormatWord(level, mask) = {i \in 0..14 : FormatModules(BareSize, i) \subseteq Bare}
        /\ level = symbol.request.level
        /\ LET blocks == BlocksOf(level, mask)
           IN /\ \A b \in DOMAIN blocks : IsCodeword(blocks[b])
              /\ ReadText(DataOf(blocks), SymbolVersion) = symbol.request.text

\* qrcode.hpp:112: the data codewords hold the mode indicator, the count and the
\* payload bits.  Violated: encode_data() copies only what the capacity of a given
\* version has room for, and says nothing.
TextsAreHeldWhole ==
    Made /\ HasLetters =>
        LET data == DataOf(BlocksOf(symbol.request.level, symbol.mask))
            bits == FlattenSeq([k \in DOMAIN data |-> Binary(data[k], 8)])
        IN IsPrefix(Binary(ModeIndicator[symbol.mode], 4)
                      \o Binary(Len(symbol.request.text), CharCountBits(symbol.mode, symbol.version))
                      \o Payload(symbol.request.text, symbol.mode), bits)

\* What a scanner looks for is still there when the data and the mask are in
\* place: every pattern that was drawn, the light separators and the quiet zone.
PatternsSurvive ==
    Made =>
        LET v == SymbolVersion
            n == BareSize
            patterns == FunctionPatterns(v) \o <<FormatInfo(n, symbol.request.level, symbol.mask), VersionInfo(n, v)>>
            separators == Separators(n) \ UNION {patterns[k].on : k \in DOMAIN patterns}
        IN /\ v = symbol.version
           /\ \A k \in DOMAIN patterns : Bare \cap patterns[k].on = patterns[k].dark
           /\ Bare \cap separators = {}
           /\ Bare \subseteq (0..(n - 1)) \X (0..(n - 1))

\* The words that say the format and the version are far from each other, so
\* that three damaged modules do not turn one into another, and no format is all
\* light.
WordsAreFarApart ==
    Made => LET word == FormatWord(symbol.request.level, symbol.mask)
            IN /\ word # {}
               /\ \A level \in Levels, mask \in 0..7 :
                     \/ <<level, mask>> = <<symbol.request.level, symbol.mask % 8>>
                     \/ Cardinality(WordXor(word, FormatWord(level, mask))) >= 7
               /\ symbol.version >= 7 =>
                     \A v \in (7..40) \ {symbol.version} :
                        Cardinality(WordXor(VersionWord(symbol.version), VersionWord(v))) >= 8

\* An automatic version is the smallest that holds the bits that are written, and
\* only what fits no version is refused.
VersionIsSmallest ==
    LET Bits(v, mode) == 4 + CharCountBits(mode, v) + Len(Payload(symbol.request.text, mode))
        Room(v) == 8 * CapacityForVersion(v, symbol.request.level)
    IN CASE Made /\ symbol.request.version = 0 ->
              /\ Bits(symbol.version, symbol.mode) <= Room(symbol.version)
              /\ \A v \in 1..(symbol.version - 1) : Bits(v, symbol.mode) > Room(v)
         [] symbol.kind = "refused" /\ symbol.request.mode # "kanji" ->
              8 * Len(symbol.request.text) + 20 > Room(40)
         [] OTHER -> TRUE

\* The tables of 18004 that are copied into the code agree with each other and
\* with the geometry, for all forty versions and four levels: the modules that
\* no pattern needs hold the data and the check codewords, and the alignment
\* patterns begin at 6, end at the size less 7 and lie at even distances, all but
\* the first the same.
TablesAgree ==
    symbol.kind = "asked" =>
        LET v == symbol.version
            n == SizeForVersion(v)
            at == AlignPositions[v]
            count == Len(at)
            centres == IF count = 0 THEN 0 ELSE count * count - 3
            onTiming == IF count = 0 THEN 0 ELSE 2 * (count - 2)
            free == n * n - 3 * 64 - 2 * (n - 16) - 31 - (25 * centres - 5 * onTiming) - (IF v >= 7 THEN 36 ELSE 0)
            check == NumBlocks[LevelNumber[symbol.level]][v] * EccPerBlock[LevelNumber[symbol.level]][v]
        IN /\ symbol.capacity = free \div 8 - check
           /\ count = IF v = 1 THEN 0 ELSE v \div 7 + 2
           /\ v > 1 => at[1] = 6 /\ at[count] = n - 7
           /\ \A i \in 2..(count - 1) : at[i + 1] - at[i] = at[count] - at[count - 1]
           /\ count > 2 => (at[2] - at[1]) % 2 = 0 /\ (at[3] - at[2]) % 2 = 0

\* A symbol has the patterns, the words and the tables of the standard whatever
\* was asked for, and says its text when the request was sound.
SymbolsAreStandard ==
    SymbolReadsBack /\ PatternsSurvive /\ WordsAreFarApart /\ VersionIsSmallest /\ TablesAgree
=============================================================================
