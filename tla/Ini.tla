-------------------------------- MODULE Ini --------------------------------
(***************************************************************************)
(* ini (src/src/ini.cpp, src/include/ini.hpp): settings in sections, a     *)
(* file that the program saves and loads, and that others edit.  A text is *)
(* a sequence of characters; names and values are such sequences too.      *)
(***************************************************************************)
EXTENDS Integers, Sequences, SequencesExt

CONSTANTS Sections, Keys, Values,  \* what the program passes to setValue()
          IniTexts,                \* what others write
          MaxKeys                  \* bound: sections and their keys

VARIABLES data,        \* section -> key -> value
          file,        \* the file, or NoFile
          saved        \* history: {data} as the last saveToFile() had it, or {}
                       \* when others wrote the file

iniVars == <<data, file, saved>>

NoFile == <<"missing">>

Put(f, x, v) == [y \in DOMAIN f \cup {x} |-> IF y = x THEN v ELSE f[y]]
Erased(f, x) == [y \in DOMAIN f \ {x} |-> f[y]]
Empty == <<>>

-----------------------------------------------------------------------------
(* operator>>: text to data. *)

\* std::getline()
Lines(text) ==
    FoldLeft(LAMBDA lines, c : IF c = "newline" THEN Append(lines, <<>>)
                               ELSE [lines EXCEPT ![Len(lines)] = Append(@, c)],
             <<<<>>>>, text)

Blanks == {" ", "tab"}
Trim(chars) ==
    LET kept == {i \in DOMAIN chars : chars[i] \notin Blanks}
    IN  IF kept = {} THEN <<>>
        ELSE SubSeq(chars, CHOOSE i \in kept : \A j \in kept : i <= j,
                           CHOOSE i \in kept : \A j \in kept : j <= i)

IsComment(line) == line = <<>> \/ Head(line) \in {";", "#"}
IsHeader(line) == Head(line) = "[" /\ Last(line) = "]"

\* Mutant: substr() with the length of what follows the bracket.
SectionName_WithBracket(line) == SubSeq(line, 2, Len(line))
SectionName(line) == SubSeq(line, 2, Len(line) - 1)

\* Mutant: rfind().
EqualPos_Last(line) ==
    CHOOSE i \in DOMAIN line : line[i] = "=" /\ \A j \in (i + 1)..Len(line) : line[j] # "="
EqualPos(line) ==
    CHOOSE i \in DOMAIN line : line[i] = "=" /\ \A j \in 1..(i - 1) : line[j] # "="

Entry(section, key, value, into) ==
    Put(into, section, Put(IF section \in DOMAIN into THEN into[section] ELSE Empty,
                             key, value))

\* One turn of the loop; lines that are nothing of these are skipped.
ReadLine(read, l) ==
    LET line == Trim(l)
    IN  CASE IsComment(line) -> read
          [] ~IsComment(line) /\ IsHeader(line) -> [read EXCEPT !.section = SectionName(line)]
          [] ~IsComment(line) /\ ~IsHeader(line) /\ Contains(line, "=") ->
               [read EXCEPT !.data = Entry(read.section,
                    Trim(SubSeq(line, 1, EqualPos(line) - 1)),
                    Trim(SubSeq(line, EqualPos(line) + 1, Len(line))), @)]
          [] OTHER -> read

ReadIni(text) ==
    FoldLeft(ReadLine, [data |-> Empty, section |-> <<>>], Lines(text)).data

-----------------------------------------------------------------------------
(* operator<<: data to text, in some order of sections and keys. *)

WriteSection(section, keys) ==
    <<"[">> \o section \o <<"]", "newline">>
        \o FlattenSeq([i \in 1..Len(SetToSeq(DOMAIN keys)) |->
              LET key == SetToSeq(DOMAIN keys)[i] IN key \o <<"=">> \o keys[key] \o <<"newline">>])
        \o <<"newline">>

WriteIni(d) ==
    FlattenSeq([i \in 1..Len(SetToSeq(DOMAIN d)) |->
        LET section == SetToSeq(DOMAIN d)[i] IN WriteSection(section, d[section])])

-----------------------------------------------------------------------------
(* The calls. *)

CountKeys(d) ==
    FoldLeft(LAMBDA n, section : n + 1 + Len(SetToSeq(DOMAIN d[section])), 0, SetToSeq(DOMAIN d))

IniInit == data = Empty /\ file = NoFile /\ saved = {}

SetValue(section, key, value) ==
    /\ data' = Entry(section, key, value, data)
    /\ CountKeys(data') <= MaxKeys
    /\ UNCHANGED <<file, saved>>

\* operator[], which creates a section.
OpenSection(section) ==
    /\ section \notin DOMAIN data
    /\ data' = Put(data, section, Empty)
    /\ CountKeys(data') <= MaxKeys
    /\ UNCHANGED <<file, saved>>

\* removeKey(): the section stays, without keys.
RemoveKey(section, key) ==
    /\ section \in DOMAIN data /\ key \in DOMAIN data[section]
    /\ data' = [data EXCEPT ![section] = Erased(@, key)]
    /\ UNCHANGED <<file, saved>>

RemoveSection(section) ==
    /\ section \in DOMAIN data
    /\ data' = Erased(data, section)
    /\ UNCHANGED <<file, saved>>

\* saveToFile(): with no data it reports success and leaves the file alone.
SaveToFile ==
    /\ file' = IF data = Empty THEN file ELSE WriteIni(data)
    /\ saved' = {data}
    /\ UNCHANGED data

\* loadFromFile(), by this object or by another one after a restart.
LoadFromFile ==
    /\ data' = IF file = NoFile THEN data ELSE ReadIni(file)
    /\ CountKeys(data') <= MaxKeys
    /\ UNCHANGED <<file, saved>>

Restart == data' = Empty /\ UNCHANGED <<file, saved>>

\* Others write the file.  That the program has no data then leaves out steps
\* only: its own calls lead from here to the data it might have had.
EditFile == data = Empty /\ file' \in IniTexts /\ saved' = {} /\ UNCHANGED data

IniNext ==
    \/ \E section \in Sections :
         \/ \E key \in Keys : RemoveKey(section, key) \/ \E value \in Values : SetValue(section, key, value)
         \/ OpenSection(section) \/ RemoveSection(section)
    \/ SaveToFile \/ LoadFromFile \/ Restart \/ EditFile

-----------------------------------------------------------------------------
(* Properties. *)

\* What a line can hold: the code escapes nothing.
Holds(section, key, value) ==
    /\ ~Contains(section \o key \o value, "newline")
    /\ ~Contains(key, "=") /\ Trim(key) = key /\ Trim(value) = value
    /\ ~(IsComment(key) /\ key # <<>>)
    /\ ~(key # <<>> /\ value # <<>> /\ Head(key) = "[" /\ Last(value) = "]")
Writable(d) ==
    \A section \in DOMAIN d :
        /\ ~Contains(section, "newline")
        /\ \A key \in DOMAIN d[section] : Holds(section, key, d[section][key])

\* A section without keys is not read back.
Filled(d) == [section \in {s \in DOMAIN d : d[s] # Empty} |-> d[section]]

\* Settings that have been saved are what is loaded later, whatever calls came
\* between, if their lines can hold them.  saveToFile() without any settings
\* leaves an older file as it is.
SettingsComeBack ==
    [][\A d \in saved : LoadFromFile /\ d # Empty /\ Writable(d)
          => data' = Filled(d)]_iniVars

\* Whatever others wrote: what was read from it is saved and read again without
\* a change.  Restart leads every file to a state without data.
ReadingIsStable ==
    file # NoFile /\ data = Empty =>
        LET read == ReadIni(file) IN Writable(read) /\ ReadIni(WriteIni(read)) = read

\* A comment, an empty line, or blanks at the ends of a line or around the
\* first "=", change nothing.
LayoutIsIgnored ==
    file # NoFile /\ data = Empty =>
        \A i \in 1..(Len(file) + 1) :
            LET before == SubSeq(file, 1, i - 1)
                after == SubSeq(file, i, Len(file))
                atStart == before = <<>> \/ Last(before) = "newline"
                atEnd == after = <<>> \/ Head(after) = "newline"
                line == Last(Lines(before)) \o Lines(after)[1]
                atEqual == after # <<>> /\ Head(after) = "=" /\ ~Contains(Last(Lines(before)), "=")
            IN  /\ atStart => ReadIni(before \o <<"#", "=", "newline">> \o after) = ReadIni(file)
                /\ (atStart \/ atEnd \/ (atEqual /\ ~IsHeader(Trim(line))))
                     => ReadIni(before \o <<"tab">> \o after) = ReadIni(file)

\* A file means one thing, which reading and writing it does not change.
FilesHaveOneMeaning == ReadingIsStable /\ LayoutIsIgnored
=============================================================================
