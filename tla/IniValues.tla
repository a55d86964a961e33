----------------------------- MODULE IniValues ------------------------------
(***************************************************************************)
(* The typed settings of ini (src/src/ini.cpp, src/include/ini.hpp): every *)
(* setValue() writes a text, every getValueAs...() reads one, and between  *)
(* them the text goes through a file.                                      *)
(*                                                                         *)
(* One section.  Characters are those of Ini and of Words; integers have   *)
(* IntRange values, the long long of std::stoll() has LongRange.           *)
(***************************************************************************)
EXTENDS Words, Packing

CONSTANTS TypedKeys, TypedValues,    \* what the program passes to setValue()
          IntRange, LongRange        \* powers of two, as integers are wide

VARIABLES settings,      \* section -> key -> text
          settingsFile,
          given,         \* history: key -> the value the text was made from
          givenToFile    \* history: the same for the file

settingVars == <<settings, settingsFile, given, givenToFile>>

NoValues == {}
Store == INSTANCE Ini WITH data <- settings, file <- settingsFile, saved <- NoValues,
                           Sections <- {}, Keys <- {}, Values <- {}, IniTexts <- {}, MaxKeys <- 0

Section == <<"s">>
HasKey(key) == Section \in DOMAIN settings /\ key \in DOMAIN settings[Section]

\* A typed value is a record of one field, named for the type.
Is(v, type) == type \in DOMAIN v
NullOpt == [nothing |-> 0]           \* std::nullopt

TrueText == <<"t", "r", "u", "e">>
FalseText == <<"f", "a", "l", "s", "e">>
TrueTexts == {<<"1">>, TrueText, <<"y", "e", "s">>, <<"o", "n">>}
FalseTexts == {<<"0">>, FalseText, <<"n", "o">>, <<"o", "f", "f">>}

-----------------------------------------------------------------------------
(* Values and their texts. *)

HexChars == <<"0", "1", "2", "3", "4", "5", "6", "7", "8", "9", "a", "b", "c", "d", "e", "f">>
CharValue(c) == SelectInSeq(HexChars, LAMBDA d : d = c) - 1
HexText(bytes) == LET hex == ToHex(bytes) IN [i \in DOMAIN hex |-> HexChars[HexValue(hex[i]) + 1]]
\* A character that is no digit is some byte that is none.
BytesOfText(text) ==
    FromHex([i \in DOMAIN text |-> IF Contains(HexChars, text[i]) THEN HexDigit(CharValue(text[i])) ELSE 0])

\* std::to_string() of a number below 100
IntText(n) ==
    LET m == IF n < 0 THEN -n ELSE n
    IN (IF n < 0 THEN <<"-">> ELSE <<>>) \o (IF m > 9 THEN <<HexChars[(m \div 10) + 1]>> ELSE <<>>)
         \o <<HexChars[(m % 10) + 1]>>

\* std::stoll(): the digits at the beginning; none, or too many, throw.
LeadingDigits(text) ==
    LET n == SelectInSeq(text, LAMBDA c : CharValue(c) \notin 0..9)
    IN IF n = 0 THEN text ELSE SubSeq(text, 1, n - 1)
StoLL(text) ==
    LET unsigned == IF text /= <<>> /\ Head(text) \in {"-", "+"} THEN Tail(text) ELSE text
        digits == LeadingDigits(unsigned)
        size == FoldLeft(LAMBDA n, c : 10 * n + CharValue(c), 0, digits)
        n == IF text /= <<>> /\ Head(text) = "-" THEN -size ELSE size
    IN IF digits = <<>> \/ n >= LongRange \div 2 \/ -n > LongRange \div 2 THEN NullOpt ELSE [int |-> n]
\* static_cast<T>()
Narrow(n) == ((n + (IntRange \div 2)) % IntRange) - (IntRange \div 2)

\* setValue().  A string literal is a const char*, and that becomes a bool
\* sooner than a std::string.
Stored(v) ==
    CASE Is(v, "text") -> v.text
      [] Is(v, "bool") -> IF v.bool THEN TrueText ELSE FalseText
      [] Is(v, "literal") -> TrueText
      [] Is(v, "int") -> IntText(v.int)
      [] Is(v, "list") -> Pack(v.list)
      [] Is(v, "bytes") -> HexText(v.bytes)

-----------------------------------------------------------------------------
(* getValue(), getValueAs...(), getValueAs...Optional().                      *)

Text(key) == settings[Section][key]

GetText(key, default) == IF HasKey(key) THEN Text(key) ELSE default
GetTextOptional(key) == IF HasKey(key) THEN [text |-> Text(key)] ELSE NullOpt

GetInt(key, default) ==
    IF HasKey(key) /\ StoLL(Text(key)) /= NullOpt THEN Narrow(StoLL(Text(key)).int) ELSE default
GetIntOptional(key) ==
    IF HasKey(key) /\ StoLL(Text(key)) /= NullOpt THEN [int |-> Narrow(StoLL(Text(key)).int)] ELSE NullOpt

\* Mutant: "off" is forgotten.
GetBool_WithoutOff(key, default) ==
    IF HasKey(key) /\ Text(key) \in TrueTexts \cup (FalseTexts \ {<<"o", "f", "f">>})
    THEN Text(key) \in TrueTexts ELSE default
GetBool(key, default) ==
    IF HasKey(key) /\ Text(key) \in TrueTexts \cup FalseTexts THEN Text(key) \in TrueTexts ELSE default
GetBoolOptional(key) ==
    IF ~HasKey(key) THEN NullOpt
    ELSE IF Text(key) \in TrueTexts THEN [bool |-> TRUE]
    ELSE IF Text(key) \in FalseTexts THEN [bool |-> FALSE] ELSE NullOpt

\* Without a default the empty text is unpacked: a list of one empty word.
GetListPlain(key, junk) == Unpack(GetText(key, <<>>), junk)
GetList(key, default, junk) == IF HasKey(key) THEN Unpack(Text(key), junk) ELSE default
GetListOptional(key, junk) == IF HasKey(key) THEN [list |-> Unpack(Text(key), junk)] ELSE NullOpt

GetBytesPlain(key) == IF HasKey(key) THEN BytesOfText(Text(key)) ELSE <<>>
GetBytes(key, default) == IF HasKey(key) THEN BytesOfText(Text(key)) ELSE default
GetBytesOptional(key) == IF HasKey(key) THEN [bytes |-> BytesOfText(Text(key))] ELSE NullOpt

-----------------------------------------------------------------------------
(* The calls. *)

SettingsInit ==
    /\ settings = Store!Empty /\ settingsFile = Store!NoFile
    /\ given = Store!Empty /\ givenToFile = Store!Empty

SetTyped(key, v) ==
    /\ settings' = Store!Entry(Section, key, Stored(v), settings)
    /\ given' = Store!Put(given, key, v)
    /\ UNCHANGED <<settingsFile, givenToFile>>

RemoveTyped(key) ==
    /\ HasKey(key)
    /\ settings' = [settings EXCEPT ![Section] = Store!Erased(@, key)]
    /\ given' = Store!Erased(given, key)
    /\ UNCHANGED <<settingsFile, givenToFile>>

SaveTyped ==
    /\ settings /= Store!Empty
    /\ settingsFile' = Store!WriteIni(settings) /\ givenToFile' = given
    /\ UNCHANGED <<settings, given>>

\* loadFromFile(), by this program or by the next one
LoadTyped ==
    /\ settingsFile /= Store!NoFile
    /\ settings' = Store!ReadIni(settingsFile) /\ given' = givenToFile
    /\ UNCHANGED <<settingsFile, givenToFile>>

SettingsNext ==
    \/ \E key \in TypedKeys : RemoveTyped(key) \/ \E v \in TypedValues : SetTyped(key, v)
    \/ SaveTyped \/ LoadTyped

-----------------------------------------------------------------------------
(* Properties. *)

\* What a file can hold of one setting: the lists that unpack() reads as they
\* were packed.
Holds(key, v) ==
    /\ Store!Holds(Section, key, Stored(v))
    /\ Is(v, "list") => Packable(v.list) /\ \A i \in DOMAIN v.list : ~Gaps(v.list[i])

\* The value a key was given last, in this program or in one that saved it, is
\* what the getter of its type returns.  String literals are another matter:
\* LiteralsAreStrings.
TypedValuesComeBack ==
    (\A key \in DOMAIN given : Holds(key, given[key])) =>
        \A key \in DOMAIN given :
            LET v == given[key]
            IN CASE Is(v, "text") -> GetText(key, <<"?">>) = v.text
                 [] Is(v, "bool") -> GetBool(key, ~v.bool) = v.bool
                 [] Is(v, "literal") -> TRUE
                 [] Is(v, "int") -> GetInt(key, v.int + 1) = v.int
                 [] Is(v, "list") -> \A junk \in BOOLEAN : GetList(key, <<>>, junk) = v.list
                 [] Is(v, "bytes") -> GetBytes(key, <<0>>) = v.bytes

\* The three variants of a getter agree on what can be read, whatever type the
\* text was written as.
ReadersAgree ==
    settings /= Store!Empty => \A key \in TypedKeys, junk \in BOOLEAN :
        LET Or(optional, type, default) == IF Is(optional, type) THEN optional[type] ELSE default
            other == <<<<"x">>, <<"y">>>>
        IN /\ \A d \in BOOLEAN : GetBool(key, d) = Or(GetBoolOptional(key), "bool", d)
           /\ \A d \in {0, 1} : GetInt(key, d) = Or(GetIntOptional(key), "int", d)
           /\ GetText(key, <<"?">>) = Or(GetTextOptional(key), "text", <<"?">>)
           /\ GetList(key, other, junk) = Or(GetListOptional(key, junk), "list", other)
           /\ GetBytes(key, <<7>>) = Or(GetBytesOptional(key), "bytes", <<7>>)
           /\ HasKey(key) => GetListPlain(key, junk) = GetList(key, other, junk)
           /\ GetBytesPlain(key) = GetBytes(key, <<>>)

\* ini.hpp:16: const char* is one of the supported types, a std::string.  Violated:
\* no overload of setValue() takes it as one, and a pointer is sooner a bool.
LiteralsAreStrings ==
    \A key \in DOMAIN given : Is(given[key], "literal") => GetText(key, <<"?">>) = given[key].literal

\* A setting has one value, whoever asks and however.
SettingsKeepTheirTypes == TypedValuesComeBack /\ ReadersAgree
=============================================================================
