-------------------------------- MODULE Words -------------------------------
(***************************************************************************)
(* scl2::stringlist (src/src/stringlist.cpp): lists of words, the texts    *)
(* they are joined to, and the ways back.                                  *)
(*                                                                         *)
(* A word is a sequence of characters; a delimiter is one, and a character *)
(* that binds words together is one, too.                                  *)
(***************************************************************************)
EXTENDS Integers, Sequences, SequencesExt

Space == " "
Quote == "\""

\* join() and xjoin(): a delimiter follows what is not empty so far.
Join(list, delim) == FoldLeft(LAMBDA text, s : (IF text = <<>> THEN <<>> ELSE Append(text, delim)) \o s, <<>>, list)
Bound(word, delim, binding) == IF delim \in ToSet(word) THEN <<binding>> \o word \o <<binding>> ELSE word
XJoin(list, delim, binding) == Join([i \in DOMAIN list |-> Bound(list[i], delim, binding)], delim)
\* With a place to begin at, counted from 0, and one to end before.
XJoinFrom(list, begin, end) == XJoin(SubSeq(list, begin + 1, end), Space, Quote)

-----------------------------------------------------------------------------
(* split(), xsplit(), exsplit(); none of them looks at a text that is short. *)

Unsplit(text) == Len(text) < 3

\* The end of the text ends a piece only when there is something left.
SplitAt(text, delims) ==
    LET Step(list, c) == IF c \in delims THEN Append(list, <<>>)
                         ELSE ReplaceAt(list, Len(list), Append(Last(list), c))
        pieces == FoldLeft(Step, <<<<>>>>, text)
    IN IF Last(pieces) = <<>> THEN Front(pieces) ELSE pieces
Split(text, delims) == IF Unsplit(text) THEN <<text>> ELSE SplitAt(text, delims)

\* What a piece ends with; in an empty one a byte in front of it is read, and
\* junk says whether it ends the binding.
EndsWith(piece, c, junk) == IF piece = <<>> THEN junk ELSE Last(piece) = c

\* A piece that begins with a binding character takes the next ones, up to one
\* that ends with its counterpart: the piece itself is not asked.
XSplit(text, delim, begin_bind, end_bind, junk) ==
    LET Step(s, piece) ==
            IF s.bind = 0
            THEN [list |-> Append(s.list, piece),
                  bind |-> IF piece = <<>> THEN 0 ELSE SelectInSeq(begin_bind, LAMBDA b : b = Head(piece))]
            ELSE LET whole == Append(Last(s.list), delim) \o piece
                     closed == EndsWith(piece, end_bind[s.bind], junk)
                 IN [list |-> ReplaceAt(s.list, Len(s.list), IF closed THEN Front(Tail(whole)) ELSE whole),
                     bind |-> IF closed THEN 0 ELSE s.bind]
    IN IF Unsplit(text) THEN <<text>>
       ELSE FoldLeft(Step, [list |-> <<>>, bind |-> 0], SplitAt(text, {delim})).list

\* Bindings may be nested, and begin and end inside a word.
ExSplit(text, delim, begin_bind, end_bind, remove) ==
    LET Kept(c) == IF remove THEN <<>> ELSE <<c>>
        Step(s, c) ==
            LET b == SelectInSeq(begin_bind, LAMBDA x : x = c)
            IN IF s.open /= <<>> /\ c = end_bind[Last(s.open)]
               THEN [s EXCEPT !.buffer = @ \o Kept(c), !.open = Front(@)]
               ELSE IF b /= 0 THEN [s EXCEPT !.buffer = @ \o Kept(c), !.open = Append(@, b)]
               ELSE IF s.open = <<>> /\ c = delim THEN [s EXCEPT !.list = Append(@, s.buffer), !.buffer = <<>>]
               ELSE [s EXCEPT !.buffer = Append(@, c)]
        all == FoldLeft(Step, [list |-> <<>>, buffer |-> <<>>, open |-> <<>>], text)
    IN IF Unsplit(text) THEN <<text>>
       ELSE IF all.buffer = <<>> THEN all.list ELSE Append(all.list, all.buffer)

Pack(list) == XJoin(list, Space, Quote)
Unpack(text, junk) == XSplit(text, Space, <<Quote>>, <<Quote>>, junk)

-----------------------------------------------------------------------------
(* Changes in place. *)

Uniqued(list) == FoldLeft(LAMBDA seen, s : IF Contains(seen, s) THEN seen ELSE Append(seen, s), <<>>, list)
NonEmpty(list) == SelectSeq(list, LAMBDA s : s /= <<>>)
\* A length of 0 is no limit.
SubArr(list, pos, len) ==
    SubSeq(list, pos + 1, IF len = 0 \/ pos + len > Len(list) THEN Len(list) ELSE pos + len)

-----------------------------------------------------------------------------
\* A list in which no word has a quote or two spaces, and which neither begins
\* nor ends with an empty one, is unpacked as it was packed.  exsplit() reads
\* words with two spaces, too.
Packable(list) ==
    /\ list /= <<>> /\ Head(list) /= <<>> /\ Last(list) /= <<>>
    /\ \A i \in DOMAIN list : Quote \notin ToSet(list[i])
Gaps(word) == \E i \in 2..Len(word) : word[i] = Space /\ word[i - 1] = Space
ListComesBack(list) ==
    Packable(list) =>
        /\ ExSplit(Pack(list), Space, <<Quote>>, <<Quote>>, TRUE) = list
        /\ (\A i \in DOMAIN list : ~Gaps(list[i])) => \A junk \in BOOLEAN : Unpack(Pack(list), junk) = list
=============================================================================
