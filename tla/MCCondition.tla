---------------------------- MODULE MCCondition ----------------------------
(* Instances of ConditionText for TLC. *)
EXTENDS ConditionText

ThreeIds == <<"A", "B", "C">>

FunctionsOf(ids) == {Function(f) : f \in ids}
Negations(trees) == {Unary(t) : t \in trees}
Pairs(lefts, rights, ops) == {Logical(l, r, op) : l \in lefts, r \in rights, op \in ops}

\* {true}, {false}, A, B, !A, !B, and one operator over two of them.
Atoms == FunctionsOf({"A", "B"}) \cup {Bool(TRUE), Bool(FALSE)}
Leaves == Atoms \cup Negations(FunctionsOf({"A", "B"}))
Small == Leaves \cup Pairs(Leaves, Leaves, BinaryOps)
\* Three operands, combined from the left and from the right.
Third == {Function("A"), Bool(FALSE)}
Inner == Pairs(FunctionsOf({"A", "B"}), Leaves, BinaryOps)
Nested == {Logical(p[1], p[2], op) : p \in (Inner \X Third) \cup (Third \X Inner), op \in BinaryOps}
\* Four operands: the identities that compare the operands of two operators,
\* and sums of products over three functions.
Double == LET literals == FunctionsOf({"A", "B", "C"})
                          \cup Negations(FunctionsOf({"A", "B"}))
              Products(ops) == Pairs(literals, literals, ops)
          IN  Pairs(Products({"And", "Xor"}), Products({"And"}), {"Or"})
\* !x !& !A, and such a tree within the left operand of another one.
Shortcuts == Pairs(Negations(Small), {Unary(Function("A"))}, {"Nand", "Nor"})
Chained == Pairs(Negations(Shortcuts), {Unary(Function("B"))}, {"Nand", "Nor"})

ShortcutExprs == Shortcuts \cup Chained
Others == Negations(Small) \cup (Double \cup ShortcutExprs)
AllExprs == Others \cup Nested
=============================================================================
