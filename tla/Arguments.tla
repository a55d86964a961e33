------------------------------ MODULE Arguments -----------------------------
(***************************************************************************)
(* scl2::arguments (src/src/arguments.cpp, src/include/arguments.hpp):     *)
(* what a command line means.                                              *)
(***************************************************************************)
EXTENDS Words

CONSTANTS ArgWords,      \* the words of command lines
          MaxArgs        \* bound: words after the name of the program

VARIABLES args,          \* the words, the name of the program first
          policy,        \* parse_policy: the flags that are set
          style          \* Style_GNU or Style_POSIX

argumentVars == <<args, policy, style>>

Flags == {"AllowCombinedOptions", "FailIfEmptyValue", "AllowEqualSign", "EnablePrimaryCommand"}
ProgramName == <<"p">>
Dash == "-"
IsOption(word) == Len(word) >= 2 /\ word[1] = Dash
IsPlain(word) == word /= <<>> /\ word[1] /= Dash

\* Positions count from 0, as the list of words does.
Word0(words, i) == words[i + 1]
None == [found |-> FALSE, word |-> <<>>]

-----------------------------------------------------------------------------
(* parse() *)

PrimaryCommand(words, flags) ==
    IF "EnablePrimaryCommand" \in flags /\ Len(words) > 1 /\ IsPlain(words[2]) THEN words[2] ELSE <<>>
SecondaryCommand(words, flags) ==
    IF PrimaryCommand(words, flags) /= <<>> /\ Len(words) > 2 /\ IsPlain(words[3]) THEN words[3] ELSE <<>>

Set(params, name, position, value) ==
    [n \in DOMAIN params \cup {name} |->
        IF n = name THEN [position |-> position, value |-> value] ELSE params[n]]

\* Mutant: the last word is never taken.
TakesNext_NotLast(words, i) == i + 2 < Len(words) /\ (Word0(words, i + 1) = <<>> \/ Word0(words, i + 1)[1] /= Dash)
\* The next word, unless it begins with a dash; an empty word does not.
TakesNext(words, i) == i + 1 < Len(words) /\ (Word0(words, i + 1) = <<>> \/ Word0(words, i + 1)[1] /= Dash)

\* One round of the loop: the parameters, and the word to go on with.
LongOption(words, flags, params, i) ==
    LET name == SubSeq(Word0(words, i), 3, Len(Word0(words, i)))
        equals == SelectInSeq(name, LAMBDA c : c = "=")
    IN IF "AllowEqualSign" \in flags /\ equals /= 0
       THEN [params |-> Set(params, SubSeq(name, 1, equals - 1), i, SubSeq(name, equals + 1, Len(name))),
             next |-> i + 1]
       ELSE IF TakesNext(words, i)
       THEN [params |-> Set(params, name, i, Word0(words, i + 1)), next |-> i + 2]
       ELSE [params |-> Set(params, name, i, <<>>), next |-> i + 1]
CombinedOptions(words, params, i) ==
    [params |-> FoldLeft(LAMBDA p, c : Set(p, <<c>>, i, <<>>), params, Tail(Word0(words, i))), next |-> i + 1]
ShortOption(words, params, i) ==
    LET word == Word0(words, i)
        name == <<word[2]>>
    IN IF Len(word) > 2 THEN [params |-> Set(params, name, i, SubSeq(word, 3, Len(word))), next |-> i + 1]
       ELSE IF TakesNext(words, i)
       THEN [params |-> Set(params, name, i, Word0(words, i + 1)), next |-> i + 2]
       ELSE [params |-> Set(params, name, i, <<>>), next |-> i + 1]

RECURSIVE ParseFrom(_, _, _, _)
ParseFrom(words, flags, params, i) ==
    IF i >= Len(words) THEN params
    ELSE LET word == Word0(words, i)
             read == IF ~IsOption(word) THEN [params |-> params, next |-> i + 1]
                     ELSE IF word[2] = Dash THEN LongOption(words, flags, params, i)
                     ELSE IF "AllowCombinedOptions" \in flags /\ Len(word) > 2 THEN CombinedOptions(words, params, i)
                     ELSE ShortOption(words, params, i)
         IN ParseFrom(words, flags, read.params, read.next)

ParseGNU(words, flags) ==
    ParseFrom(words, flags, <<>>, IF PrimaryCommand(words, flags) /= <<>> THEN 2 ELSE 1)
\* The same loop, without combined options.
ParsePOSIX(words, flags) == ParseGNU(words, flags \ {"AllowCombinedOptions"})
ParseArgs(words, flags, how) == IF how = "GNU" THEN ParseGNU(words, flags) ELSE ParsePOSIX(words, flags)

params0 == ParseArgs(args, policy, style)

-----------------------------------------------------------------------------
(* What a program asks for; params are the ones of the command line. *)

Failure == [found |-> FALSE, error |-> TRUE]    \* parameter_error
Answer(found, value) == [found |-> found, error |-> FALSE, value |-> value]

\* addParameter() for texts, and with a conversion for all the other types;
\* addEnum() with its options.
Parameter(params, flags, name, convertible, default) ==
    IF name \notin DOMAIN params THEN Answer(FALSE, default)
    ELSE IF params[name].value = <<>>
    THEN IF "FailIfEmptyValue" \in flags THEN Failure ELSE Answer(FALSE, default)
    ELSE IF params[name].value \in convertible THEN Answer(TRUE, params[name].value) ELSE Failure
\* addParameter() for bool: an option without a value is true.
BoolParameter(params, flags, name, yes, no, default) ==
    IF name \in DOMAIN params /\ params[name].value = <<>> /\ "FailIfEmptyValue" \notin flags
    THEN Answer(TRUE, TRUE)
    ELSE LET read == Parameter(params, flags, name, yes \cup no, default)
         IN IF read.found THEN Answer(TRUE, read.value \in yes) ELSE read
\* addFlag(), addHelp(), addVersion()
Flag(params, name) == name \in DOMAIN params

AnyAfter(words, index) == IF index + 1 < Len(words) THEN XJoinFrom(words, index + 1, Len(words)) ELSE <<>>
AnyBefore(words, index) == IF index > 0 THEN XJoinFrom(words, 1, index) ELSE <<>>
AnyBetween(words, first, last) == IF first < last THEN XJoinFrom(words, first + 1, last) ELSE <<>>

-----------------------------------------------------------------------------
ArgumentsInit == args = <<ProgramName>> /\ policy \in SUBSET Flags /\ style \in {"GNU", "POSIX"}

\* Another command line: one more word.
AddWord(word) ==
    /\ Len(args) <= MaxArgs
    /\ args' = Append(args, word)
    /\ UNCHANGED <<policy, style>>

ArgumentsNext == \E word \in ArgWords : AddWord(word)

-----------------------------------------------------------------------------
\* What comes behind does not change what an option was: one more word gives its
\* value to an option right before it that had none, or is an option itself, which
\* is then read anew, here or where it was, and all the others keep their values
\* and their places.
WordsAreReadOnce ==
    Len(args) > 1 => \A params \in {ParseArgs(Front(args), policy, style)}, now \in {params0} :
        LET word == Last(args)
            was == {n \in DOMAIN params : n \in DOMAIN now /\ now[n] = params[n]}
            changed == (DOMAIN params \cup DOMAIN now) \ was
        IN /\ DOMAIN params \subseteq DOMAIN now
           /\ IsOption(word) => \A n \in changed :
                 now[n].position = Len(args) - 1 \/ (n \in DOMAIN params /\ now[n].position = params[n].position)
           /\ ~IsOption(word) => \A n \in changed :
                 now[n] = [position |-> Len(args) - 2, value |-> word] /\ params[n].value = <<>>

\* A command line can be written in its plainest form: every parameter once,
\* with its value behind "=", or as words of their own.  It means the same.
ValuesOf(params) == [n \in DOMAIN params |-> params[n].value]
LongForm(params, names) ==
    FlattenSeq([i \in DOMAIN names |-> <<<<Dash, Dash>> \o names[i] \o <<"=">> \o params[names[i]].value>>])
Spaced(params, names) ==
    FlattenSeq([i \in DOMAIN names |-> <<<<Dash, Dash>> \o names[i], params[names[i]].value>>])
PlainFormMeansTheSame ==
    \A params \in {params0} :
    LET names == SetToSeq(DOMAIN params)
        sign == "AllowEqualSign" \in policy
        plain == IF sign THEN LongForm(params, names) ELSE Spaced(params, names)
        Writable(n) == IF sign THEN "=" \notin ToSet(n) ELSE params[n].value = <<>> \/ IsPlain(params[n].value)
    IN (\A n \in DOMAIN params : Writable(n)) =>
          ValuesOf(ParseArgs(<<ProgramName>> \o plain, policy, style)) = ValuesOf(params)

\* What comes between two options and after them, with the options themselves, is
\* the command line from the first one on.
Joined(text, rest) == IF text = <<>> THEN rest ELSE IF rest = <<>> THEN text ELSE text \o <<Space>> \o rest
OptionsHaveTheirPlaces ==
    (\A i \in DOMAIN args : args[i] /= <<>>) =>
        \A params \in {params0} : \A m, n \in DOMAIN params :
            LET first == params[m].position
                second == params[n].position
                At(i) == XJoinFrom(args, i, i + 1)
            IN /\ IsOption(Word0(args, first))
               /\ first < second =>
                    /\ Joined(At(first), AnyAfter(args, first)) = XJoinFrom(args, first, Len(args))
                    /\ Joined(AnyBetween(args, first, second), Joined(At(second), AnyAfter(args, second)))
                           = AnyAfter(args, first)

\* arguments.hpp, anyBefore(): "Does include the executable name."
ProgramComesFirst ==
    \A params \in {params0} : \A n \in DOMAIN params :
        AnyBefore(args, params[n].position) = XJoinFrom(args, 0, params[n].position)

\* arguments.hpp: anyAfter(), anyBefore() and anyBetween() go by "the first
\* occurrence of the specified name": one that comes later does not move it.
FirstOccurrenceCounts ==
    Len(args) > 1 => \A params \in {ParseArgs(Front(args), policy, style)}, now \in {params0} :
        \A n \in DOMAIN params : now[n].position = params[n].position

\* Every way to ask for an option tells the same: a flag is there when a bool is
\* found or refused; where a text is refused for want of a value, so is a bool;
\* and a bool and an enum of the same words differ only in an option without a
\* value.
QuestionsAgree ==
    \A params \in {params0} :
    LET given == {params[n].value : n \in DOMAIN params} \ {<<>>}
        Absent == <<"z">>
    IN \A n \in DOMAIN params \cup {Absent}, yes \in SUBSET given :
          LET text == Parameter(params, policy, n, given, "default")
              bool == BoolParameter(params, policy, n, yes, {}, FALSE)
              enum == Parameter(params, policy, n, yes, "default")
          IN /\ Flag(params, n) = (bool.found \/ bool.error)
             /\ text.error => bool.error
             /\ enum.error = bool.error
             /\ enum.found => bool.found /\ bool.value
             /\ bool.found /\ ~enum.found => ~text.found

\* A list of words that is packed into one text is unpacked as the same list, and
\* so is what unique() leaves of it (pack(), unpack(), exsplit(): see Words).
ArgumentsComeBack == ListComesBack(args) /\ ListComesBack(Uniqued(args))

\* A command line that grows word by word is read to one consistent result:
\* every word once, what follows every option from its place on, the same for every
\* question, and the same when it is written or packed in another way.
CommandLinesAreRead ==
    WordsAreReadOnce /\ PlainFormMeansTheSame /\ OptionsHaveTheirPlaces /\ QuestionsAgree /\ ArgumentsComeBack
=============================================================================
