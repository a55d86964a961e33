--------------------------- MODULE ConditionText ---------------------------
(***************************************************************************)
(* condition_node::to_string() (src/src/condition.cpp) and                 *)
(* ConditionParser<DefaultTokenizer> (src/src/condition_parser.cpp).  A    *)
(* text is the sequence of its tokens, an identifier being the id itself.  *)
(***************************************************************************)
EXTENDS Condition

Constants == {"{true}", "{false}", "{1}", "{0}"}
Symbol == [And |-> "&", Or |-> "|", Xor |-> "^", Nand |-> "!&", Nor |-> "!|",
           Xnor |-> "!^", ImplyLeft |-> "<-", ImplyRight |-> "->"]

\* to_string(): everything is parenthesized.
RECURSIVE ToText(_)
ToText(n) ==
    CASE n.type = "Null" -> <<"{null}">>
      [] n.type = "Bool" -> <<IF n.value THEN "{true}" ELSE "{false}">>
      [] n.type = "Function" -> <<n.id>>
      [] n.type = "Logical" /\ n.op = "Not" -> <<"!", "(">> \o ToText(n.left) \o <<")">>
      [] OTHER -> <<"(">> \o ToText(n.left) \o <<Symbol[n.op]>> \o ToText(n.right) \o <<")">>

-----------------------------------------------------------------------------
(* The parser: parseAnd() is level 1, parseOrXor() 2 and parseImply() 3.   *)
(* A result has the node and the position of the current token, or         *)
(* Failed when the parser throws.                                          *)

Failed == [node |-> Null, next |-> 0]
TokenAt(text, i) == IF i \in DOMAIN text THEN text[i] ELSE "end"

\* maptoLogicalOp().
OperatorTokens == {"&", "!&", "|", "!|", "^", "!^", "->", "<-"}
LogicalOp == [token \in OperatorTokens |->
    CASE token = "&" -> "And" [] token = "!&" -> "Nand"
      [] token = "|" -> "Or"  [] token = "!|" -> "Nor"
      [] token = "^" -> "Xor" [] token = "!^" -> "Xnor"
      [] token = "->" -> "ImplyLeft" [] token = "<-" -> "ImplyRight"]

Level(token) == IF token \in {"&", "!&"} THEN 1
                ELSE IF token \in {"->", "<-"} THEN 3 ELSE 2

RECURSIVE ParsePrimary(_, _), ParseLevel(_, _, _), ParseRest(_, _, _)

\* The loop of a level, with what it has parsed so far in left: operators of
\* a level associate to the left.
ParseRest(level, text, left) ==
    LET token == TokenAt(text, left.next)
    IN  IF left = Failed \/ token \notin OperatorTokens \/ Level(token) # level THEN left
        ELSE LET right == ParseLevel(level - 1, text, left.next + 1)
             IN  IF right = Failed THEN Failed
                 ELSE ParseRest(level, text,
                                [node |-> Logical(left.node, right.node, LogicalOp[token]),
                                 next |-> right.next])

ParseLevel(level, text, i) ==
    IF level = 0 THEN ParsePrimary(text, i)
    ELSE ParseRest(level, text, ParseLevel(level - 1, text, i))

IsIdentifier(token) ==
    token \notin OperatorTokens \cup Constants \cup {"!", "(", ")", "end", "{null}"}

ParsePrimary(text, i) ==
    LET token == TokenAt(text, i)
    IN  CASE token = "!" ->
               LET child == ParsePrimary(text, i + 1)
               IN  IF child = Failed THEN Failed
                   ELSE [node |-> Unary(child.node), next |-> child.next]
          [] token = "(" ->
               LET inner == ParseLevel(3, text, i + 1)
               IN  IF inner = Failed \/ TokenAt(text, inner.next) # ")" THEN Failed
                   ELSE [node |-> inner.node, next |-> inner.next + 1]
          [] IsIdentifier(token) ->
               IF TokenAt(text, i + 1) = "!"        \* the postfix NOT
               THEN [node |-> Unary(Function(token)), next |-> i + 2]
               ELSE [node |-> Function(token), next |-> i + 1]
          [] token \in Constants ->
               [node |-> Bool(token \in {"{true}", "{1}"}), next |-> i + 1]
          [] OTHER -> Failed

\* parse(): what follows the expression is not looked at.
Parse(text) == ParseLevel(3, text, 1)

\* The caller prints the tree and parses the text.
Reparse == Usable(expr) /\ expr' = Parse(ToText(expr)).node

TextNext == Next \/ Reparse
TextSpec == Init /\ [][TextNext]_expr

-----------------------------------------------------------------------------
(* Properties. *)

\* How a person writes a tree: parentheses only where precedence and
\* association from the left call for them.
OpLevel(n) == IF n.type # "Logical" \/ n.op = "Not" THEN 0
              ELSE CASE n.op \in {"And", "Nand"} -> 1
                     [] n.op \in {"ImplyLeft", "ImplyRight"} -> 3
                     [] OTHER -> 2
TokenOf(op) == CHOOSE token \in OperatorTokens : LogicalOp[token] = op

RECURSIVE Written(_)
Written(n) ==
    LET within(child, level) ==
          IF OpLevel(child) <= level THEN Written(child)
          ELSE <<"(">> \o Written(child) \o <<")">>
    IN  CASE n.type = "Bool" -> <<IF n.value THEN "{1}" ELSE "{0}">>
          [] n.type = "Function" -> <<n.id>>
          [] n.type = "Logical" /\ n.op = "Not" -> <<"!">> \o within(n.left, 0)
          [] OTHER -> within(n.left, OpLevel(n)) \o <<TokenOf(n.op)>>
                      \o within(n.right, OpLevel(n) - 1)

\* condition_parser.hpp: "NOT -> AND/NAND -> /OR/XOR/NOR/NXOR -> IMPLY".  A
\* tree written with no more parentheses than that order needs is read back
\* as it is, to the last token.
PrecedenceIsKept ==
    Usable(expr) => Parse(Written(expr)) = [node |-> expr, next |-> Len(Written(expr)) + 1]

PrintedBack == Parse(ToText(expr)).node = expr

\* A printed tree without implications is read back as it is.
PrintedIsRead ==
    LET plain == \A n \in Nodes(expr) : n.type = "Logical" => n.op \notin {"ImplyLeft", "ImplyRight"}
    IN  Usable(expr) /\ plain => PrintedBack

\* condition_parser.cpp, maptoLogicalOp(): "<- means right implies left", "-> means
\* left implies right".  A tree that is printed in these symbols is the tree
\* that they are read as.
ImplicationsAreRead == Usable(expr) => PrintedBack

\* No use of a tree costs it anything: simplify() leaves its source, and load()
\* and parse() return the tree that was dumped, written or - but for the two
\* implications - printed.
TreesSurvive == SourceSurvives /\ ReloadRestores /\ PrecedenceIsKept /\ PrintedIsRead
=============================================================================
