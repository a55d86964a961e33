--------------------------------- MODULE Uri --------------------------------
(***************************************************************************)
(* uri and url (src/src/uri.cpp): one object that is parsed into, changed, *)
(* and written.                                                            *)
(*                                                                         *)
(* A text is a sequence of characters, and an opt_string has no or one     *)
(* element.  The regular expression reads from left to right, and goes     *)
(* back only to do without an user.                                        *)
(***************************************************************************)
EXTENDS Integers, Sequences, SequencesExt

CONSTANTS UriTexts,      \* texts that are parsed
          Schemes, Users, Hosts, Ports, Paths, Queries,   \* what the setters are given
          UriLetters,    \* the letters that occur, as pairs of lower and upper case
          PortLimit,     \* values of an uint16_t
          IntLimit,      \* what std::stoi() still reads
          MaxUriEdits    \* bound: calls

ASSUME UriAssumption == PortLimit \in Nat \ {0} /\ IntLimit \in Nat /\ MaxUriEdits \in Nat

VARIABLES uri, uriEdits
uriVars == <<uri, uriEdits>>

NoUri == [scheme |-> <<>>, userinfo |-> <<>>, host |-> <<>>, port |-> <<>>,
          path |-> <<>>, query |-> <<>>, fragment |-> <<>>]

Letters == UNION {{l[1], l[2]} : l \in UriLetters}
Lower(text) == [i \in DOMAIN text |->
    IF \E l \in UriLetters : l[2] = text[i] THEN (CHOOSE l \in UriLetters : l[2] = text[i])[1] ELSE text[i]]
Digits == {"0", "1", "2", "3", "4", "5", "6", "7", "8", "9"}
DigitValue == [d \in Digits |-> SelectInSeq(<<"1", "2", "3", "4", "5", "6", "7", "8", "9">>, LAMBDA x : x = d)]
Decimal(digits) == FoldLeft(LAMBDA n, d : 10 * n + DigitValue[d], 0, digits)
RECURSIVE DigitsOf(_)
DigitsOf(n) == LET d == CHOOSE d \in Digits : DigitValue[d] = n % 10
               IN IF n < 10 THEN <<d>> ELSE Append(DigitsOf(n \div 10), d)

\* The characters from position i on, up to one of the given ones or the end.
EndOf(text, i, set) ==
    LET ends == {k \in i..Len(text) : text[k] \in set}
    IN IF ends = {} THEN Len(text) + 1 ELSE CHOOSE k \in ends : \A m \in ends : k <= m
Run(text, i, set) == SubSeq(text, i, EndOf(text, i, set) - 1)
Behind(text, i) == SubSeq(text, i, Len(text))
Mark(text, i, c) == i <= Len(text) /\ text[i] = c

IsValidScheme(s) == s /= <<>> /\ s[1] \in Letters /\ ToSet(s) \subseteq Letters \cup Digits \cup {"+", "-", "."}
SchemeEnd == <<":", "/", "/">>

-----------------------------------------------------------------------------
(* parse() *)

NoMatch == [matched |-> FALSE]
\* host [":" port] [path] ["?" query] ["#" fragment]; the marks stay in what
\* is read.  m is what has been read so far, rest the text behind it.
Optional(s) == IF s = <<>> THEN <<>> ELSE <<s>>
FromPath(m, rest) ==
    LET path == IF Mark(rest, 1, "/") THEN Run(rest, 1, {"?", "#"}) ELSE <<>>
        afterPath == Behind(rest, Len(path) + 1)
        query == IF Mark(afterPath, 1, "?") THEN Run(afterPath, 1, {"#"}) ELSE <<>>
    IN [m EXCEPT !.path = Optional(path), !.query = Optional(query),
                 !.fragment = Optional(Behind(afterPath, Len(query) + 1))]
FromPort(m, rest) ==
    LET port == Run(rest, 2, {"/", "?", "#"})
    IN IF ~Mark(rest, 1, ":") THEN FromPath(m, rest)
       ELSE IF port = <<>> \/ ~(ToSet(port) \subseteq Digits) THEN NoMatch
       ELSE FromPath([m EXCEPT !.digits = port], Behind(rest, Len(port) + 2))
FromHost(text, scheme, userinfo) ==
    LET host == Run(text, 1, {":", "/", "?", "#"})
    IN IF host = <<>> THEN NoMatch
       ELSE FromPort([matched |-> TRUE, scheme |-> scheme, userinfo |-> userinfo, host |-> host, digits |-> <<>>,
                      path |-> <<>>, query |-> <<>>, fragment |-> <<>>], Behind(text, Len(host) + 1))

\* A name, and a password that is not kept, in front of "@".
FirstMatch(m, n) == IF m.matched THEN m ELSE n
Match(text) ==
    LET scheme == Run(text, 1, {":"})
        rest == Behind(text, Len(scheme) + 4)
        name == Run(rest, 1, {":", "@", "/", "?", "#"})
        password == IF Mark(rest, Len(name) + 1, ":")
                    THEN Run(rest, Len(name) + 2, {":", "@", "/", "?", "#"}) ELSE <<>>
        at == IF Mark(rest, Len(name) + 1, ":") THEN Len(name) + 2 + Len(password) ELSE Len(name) + 1
    IN IF ~IsValidScheme(scheme) \/ ~IsPrefix(SchemeEnd, Behind(text, Len(scheme) + 1)) THEN NoMatch
       ELSE FirstMatch(IF name = <<>> \/ ~Mark(rest, at, "@") THEN NoMatch
                       ELSE FromHost(Behind(rest, at + 1), scheme, <<name>>),
                       FromHost(rest, scheme, <<>>))

\* Mutant: a path that is missing leaves the one before.
Assigned_KeepsPath(u, m) ==
    LET begun == [u EXCEPT !.scheme = m.scheme, !.userinfo = m.userinfo, !.host = m.host]
        rest == [begun EXCEPT !.path = IF m.path = <<>> THEN @ ELSE m.path,
                              !.query = m.query, !.fragment = m.fragment]
    IN IF m.digits = <<>> THEN rest
       ELSE IF Decimal(m.digits) > IntLimit THEN begun
       ELSE [rest EXCEPT !.port = <<Decimal(m.digits) % PortLimit>>]
\* A port that is too large for an int ends it halfway; one that is missing
\* leaves the one before.
Assigned(u, m) ==
    LET begun == [u EXCEPT !.scheme = m.scheme, !.userinfo = m.userinfo, !.host = m.host]
        rest == [begun EXCEPT !.path = m.path, !.query = m.query, !.fragment = m.fragment]
    IN IF m.digits = <<>> THEN rest
       ELSE IF Decimal(m.digits) > IntLimit THEN begun
       ELSE [rest EXCEPT !.port = <<Decimal(m.digits) % PortLimit>>]
AssignedIf(u, m) == IF m.matched THEN Assigned(u, m) ELSE u
Parsed(u, text) == AssignedIf(u, Match(text))

\* toString(); the marks of query and fragment are written once more.
Optionally(opt, before, after) == IF opt = <<>> THEN <<>> ELSE before \o opt[1] \o after
UriText(u) ==
    (IF u.scheme = <<>> THEN <<>> ELSE u.scheme \o SchemeEnd)
        \o (IF u.userinfo = <<>> \/ u.userinfo = <<<<>>>> THEN <<>> ELSE Append(u.userinfo[1], "@"))
        \o u.host
        \o (IF u.port = <<>> THEN <<>> ELSE <<":">> \o DigitsOf(u.port[1]))
        \o Optionally(u.path, <<>>, <<>>) \o Optionally(u.query, <<"?">>, <<>>)
        \o Optionally(u.fragment, <<"#">>, <<>>)

\* url::normalize(): up to a port, a path, a query or a fragment.
Normalized(u) ==
    LET text == UriText(u)
        scheme == {i \in DOMAIN text : IsPrefix(SchemeEnd, Behind(text, i))}
        first == CHOOSE i \in scheme : \A k \in scheme : i <= k
        end == EndOf(text, first + 3, {"/", "?", ":", "#"})
    IN IF scheme = {} THEN text
       ELSE Lower(SubSeq(text, 1, end - 1)) \o Behind(text, end)

\* url::isValid(), of which a host is at most 255 characters long.
HostNeeded == {<<"h", "t", "t", "p">>, <<"h", "t", "t", "p", "s">>, <<"f", "t", "p">>, <<"f", "t", "p", "s">>}
UrlIsValid(u) == IsValidScheme(u.scheme) /\ (Lower(u.scheme) \in HostNeeded => u.host /= <<>>)

\* The characters of the model in the order of their codes.
CharOrder == <<"#", "+", "-", ".", "/", "0", "1", "2", "3", "4", "5", "6", "7", "8", "9", ":", "?", "@",
               "F", "H", "P", "Q", "T", "U", "f", "h", "p", "q", "t", "u">>
CharCode == [c \in ToSet(CharOrder) |-> SelectInSeq(CharOrder, LAMBDA x : x = c)]
TextLess(s, t) ==
    \/ Len(s) < Len(t) /\ IsPrefix(s, t)
    \/ \E i \in DOMAIN s \cap DOMAIN t :
          SubSeq(s, 1, i - 1) = SubSeq(t, 1, i - 1) /\ CharCode[s[i]] < CharCode[t[i]]
\* What is missing comes first.
OptLess(o, p, Less(_, _)) == p /= <<>> /\ (o = <<>> \/ Less(o[1], p[1]))
PortLess(m, n) == m < n
FieldLess(u, v) ==
    [scheme |-> TextLess(u.scheme, v.scheme), userinfo |-> OptLess(u.userinfo, v.userinfo, TextLess),
     host |-> TextLess(u.host, v.host), port |-> OptLess(u.port, v.port, PortLess),
     path |-> OptLess(u.path, v.path, TextLess), query |-> OptLess(u.query, v.query, TextLess),
     fragment |-> OptLess(u.fragment, v.fragment, TextLess)]
FieldOrder == <<"scheme", "userinfo", "host", "port", "path", "query", "fragment">>

\* operator<: the first field that differs.
UriLess(u, v) ==
    LET n == SelectInSeq(FieldOrder, LAMBDA f : u[f] /= v[f]) IN n /= 0 /\ FieldLess(u, v)[FieldOrder[n]]

\* url::getEffectivePort(); an exception is no port.
DefaultPorts ==
    {<<<<"h", "t", "t", "p">>, 80>>, <<<<"h", "t", "t", "p", "s">>, 443>>, <<<<"f", "t", "p">>, 21>>,
     <<<<"f", "t", "p", "s">>, 990>>, <<<<"s", "s", "h">>, 22>>, <<<<"t", "e", "l", "n", "e", "t">>, 23>>,
     <<<<"s", "m", "t", "p">>, 25>>, <<<<"p", "o", "p", "3">>, 110>>, <<<<"i", "m", "a", "p">>, 143>>,
     <<<<"l", "d", "a", "p">>, 389>>}
EffectivePort(u) ==
    IF u.port /= <<>> THEN {u.port[1]} ELSE {d[2] : d \in {e \in DefaultPorts : e[1] = Lower(u.scheme)}}

-----------------------------------------------------------------------------
UriInit == uri = NoUri /\ uriEdits = 0

ParseUri(text) == uri' = Parsed(uri, text)
\* The setters: a scheme that is none is refused, and so is a host that is too long.
SetScheme(s) == IsValidScheme(s) /\ uri' = [uri EXCEPT !.scheme = s]
SetUserInfo(opt) == uri' = [uri EXCEPT !.userinfo = opt]
SetHost(s) == uri' = [uri EXCEPT !.host = s]
SetPort(opt) == uri' = [uri EXCEPT !.port = opt]
SetPath(opt) == uri' = [uri EXCEPT !.path = opt]
SetQuery(opt) == uri' = [uri EXCEPT !.query = opt]
SetFragment(opt) == uri' = [uri EXCEPT !.fragment = opt]
OrNone(set) == {<<>>} \cup {<<x>> : x \in set}

UriNext ==
    /\ uriEdits < MaxUriEdits
    /\ uriEdits' = uriEdits + 1
    /\ \/ \E text \in UriTexts : ParseUri(text)
       \/ \E s \in Schemes : SetScheme(s)
       \/ \E s \in Hosts : SetHost(s)
       \/ \E opt \in OrNone(Users) : SetUserInfo(opt)
       \/ \E opt \in OrNone(Ports) : SetPort(opt)
       \/ \E opt \in OrNone(Paths) : SetPath(opt)
       \/ \E opt \in OrNone(Queries) : SetQuery(opt) \/ SetFragment(opt)

-----------------------------------------------------------------------------
\* What toString() writes of a valid object with a host is read by another
\* object as the same, but for an user or a path that is empty, and for a query
\* and a fragment, of which the marks have become one more.
Marked(opt, c) == IF opt = <<>> THEN <<>> ELSE <<<<c>> \o opt[1]>>
NotEmpty(opt) == IF opt = <<<<>>>> THEN <<>> ELSE opt
UriComesBack ==
    uri.scheme /= <<>> /\ uri.host /= <<>> /\ "@" \notin ToSet(uri.host) =>
        Parsed(NoUri, UriText(uri)) =
            [uri EXCEPT !.userinfo = NotEmpty(@), !.path = NotEmpty(@),
                        !.query = Marked(@, "?"), !.fragment = Marked(@, "#")]

\* Normalizing twice is normalizing once, and the normalized text leads
\* to the same port of the same place: only the letters of scheme and host, and of
\* the name of a user, are other ones.
NormalizedIsSame ==
    LET Small(u) == [u EXCEPT !.scheme = Lower(@), !.host = Lower(@),
                              !.userinfo = IF @ = <<>> THEN @ ELSE <<Lower(@[1])>>]
    IN uri.scheme /= <<>> /\ uri.host /= <<>> /\ uri.query = <<>> /\ uri.fragment = <<>> =>
        \A again \in {Parsed(NoUri, Normalized(uri))} :
          /\ again = Small(Parsed(NoUri, UriText(uri)))
          /\ Normalized(again) = Normalized(uri)
          /\ EffectivePort(again) = EffectivePort(uri)

\* operator< orders the objects that can be parsed: of two different ones one
\* is the smaller one, and smaller is passed on.
UrisAreOrdered ==
    uri # NoUri => \A others \in {{Parsed(NoUri, text) : text \in UriTexts}} : \A u \in others :
          /\ (u = uri) = (~UriLess(u, uri) /\ ~UriLess(uri, u))
          /\ ~(UriLess(u, uri) /\ UriLess(uri, u))
          /\ \A v \in others : UriLess(u, uri) /\ UriLess(uri, v) => UriLess(u, v)

\* A text that is no URI leaves the object as it is, and one that is leaves
\* nothing of the former one but a port, or all behind the host when its own
\* port is too large.
ParsingForgets ==
    uri # NoUri =>
      \A text \in UriTexts : \A m \in {Match(text)}, fresh \in {Parsed(NoUri, text)} :
             Parsed(uri, text) =
                IF ~m.matched THEN uri
                ELSE IF Decimal(m.digits) > IntLimit
                THEN [uri EXCEPT !.scheme = fresh.scheme, !.userinfo = fresh.userinfo, !.host = fresh.host]
                ELSE [fresh EXCEPT !.port = IF m.digits = <<>> THEN uri.port ELSE @]

\* An object that was parsed again and again, changed and normalized holds what
\* its text says and has its place among the others.
UrisAreConsistent == UriComesBack /\ NormalizedIsSame /\ UrisAreOrdered /\ ParsingForgets
=============================================================================
