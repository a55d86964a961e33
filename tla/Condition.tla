----------------------------- MODULE Condition -----------------------------
(***************************************************************************)
(* scl2::condition_node and condition_simplifier (src/src/condition.cpp,   *)
(* src/include/condition.hpp, src/include/logical.hpp): trees of logical   *)
(* operators over named functions, and what the library rewrites them to.  *)
(*                                                                         *)
(* A node is a record.  A node whose contents were moved out of it is      *)
(* still there: a logical one has lost its operator and its children, a    *)
(* function has lost its id and what it was bound to, a value is as before.*)
(***************************************************************************)
EXTENDS Integers, Sequences, FiniteSets

CONSTANTS Exprs,       \* the expressions that callers parse
          FuncOrder    \* the function ids, in the order of std::string

VARIABLE expr          \* the caller's tree

-----------------------------------------------------------------------------
(* Operators: logical.hpp. *)

AddNot == [And |-> "Nand", Or |-> "Nor", Xor |-> "Xnor"]
BaseOp == [Nand |-> "And", Nor |-> "Or", Xnor |-> "Xor"]
IsNot(op) == op \in DOMAIN BaseOp
BinaryOps == DOMAIN AddNot \cup DOMAIN BaseOp \cup {"ImplyLeft", "ImplyRight"}

EvalBase(op, l, r) ==
    CASE op = "And" -> l /\ r
      [] op = "Or" -> l \/ r
      [] op = "Xor" -> l # r
      [] op = "ImplyLeft" -> ~l \/ r
      [] op = "ImplyRight" -> ~r \/ l
EvalOp(op, l, r) == IF IsNot(op) THEN ~EvalBase(BaseOp[op], l, r) ELSE EvalBase(op, l, r)

-----------------------------------------------------------------------------
(* Nodes. *)

Null == [type |-> "Null"]
Bool(b) == [type |-> "Bool", value |-> b]
Function(f) == [type |-> "Function", id |-> f]
Unary(c) == [type |-> "Logical", op |-> "Not", left |-> c]
Logical(l, r, op) == [type |-> "Logical", op |-> op, left |-> l, right |-> r]

NoId == ""
Emptied == [type |-> "Emptied"]
MovedFrom(n) == CASE n.type = "Logical" -> Emptied
                  [] n.type = "Function" -> Function(NoId)
                  [] OTHER -> n

IsEndpoint(n) == n.type \in {"Bool", "Function"}
IsOp(n, op) == n.type = "Logical" /\ n.op = op
IsTrue(n) == n.type = "Bool" /\ n.value
IsFalse(n) == n.type = "Bool" /\ ~n.value

\* All nodes of a tree.
RECURSIVE Nodes(_)
Nodes(n) == {n} \cup (CASE n.type # "Logical" -> {}
                        [] n.type = "Logical" /\ n.op = "Not" -> Nodes(n.left)
                        [] OTHER -> Nodes(n.left) \cup Nodes(n.right))

\* valid() refuses a logical node that has been emptied.
Valid(n) == Emptied \notin Nodes(n)

GetFunctions(n) == {m.id : m \in {x \in Nodes(n) : x.type = "Function"}}

\* strong_valid(), and so evaluate() does not throw, once setFunction() has
\* been called for every id in fs.
Evaluable(n, fs) ==
    \A m \in Nodes(n) : m.type \in {"Bool", "Logical"} \/ (m.type = "Function" /\ m.id \in fs)

\* evaluate(), when exactly the functions in s return true.
RECURSIVE Evaluate(_, _)
Evaluate(n, s) ==
    CASE n.type = "Bool" -> n.value
      [] n.type = "Function" -> n.id \in s
      [] n.type = "Logical" /\ n.op = "Not" -> ~Evaluate(n.left, s)
      [] OTHER -> EvalOp(n.op, Evaluate(n.left, s), Evaluate(n.right, s))

\* The comparison is up to the order of operands, except under an
\* implication.  The code dereferences null where an emptied node meets
\* another one: such trees are not Valid and are not simplified again.
RECURSIVE IsSameTree(_, _)
IsSameTree(l, r) ==
    \/ l = r
    \/ /\ l.type = "Logical" /\ r.type = "Logical" /\ l.op = r.op
       /\ \/ l.op = "Not" /\ IsSameTree(l.left, r.left)
          \/ l.op # "Not" /\ IsSameTree(l.left, r.left) /\ IsSameTree(l.right, r.right)
          \/ /\ l.op \notin {"Not", "ImplyLeft", "ImplyRight"}
             /\ IsSameTree(l.left, r.right) /\ IsSameTree(l.right, r.left)

IsNegationOf(a, b) ==
    IF IsOp(a, "Not") THEN IsSameTree(a.left, b)
    ELSE IsOp(b, "Not") /\ IsSameTree(a, b.left)

SameFunction(l, r) == l.type = "Function" /\ r.type = "Function" /\ l.id = r.id

-----------------------------------------------------------------------------
(* condition_node::simplify(). *)

AndIdentities(l, r) ==
    IF IsFalse(l) \/ IsFalse(r) THEN Bool(FALSE)
    ELSE IF IsTrue(l) THEN r
    ELSE IF IsTrue(r) THEN l
    ELSE IF IsNegationOf(l, r) THEN Bool(FALSE)
    ELSE IF IsSameTree(l, r) THEN l
    ELSE Logical(l, r, "And")

\* Mutant: (A & B) | (B & C) is combined to A, without comparing all of it.
Combines_Loosely(l, r) ==
    /\ IsOp(l, "And") /\ IsOp(r, "And")
    /\ \/ IsSameTree(l.left, r.left)
       \/ IsSameTree(l.left, r.right) /\ IsNegationOf(l.right, r.left)
\* (A & B) | (A & !B), in two of the four orders.
Combines(l, r) ==
    /\ IsOp(l, "And") /\ IsOp(r, "And")
    /\ IF IsSameTree(l.left, r.left) THEN IsNegationOf(l.right, r.right)
       ELSE IsSameTree(l.left, r.right) /\ IsNegationOf(l.right, r.left)

\* A | (A & B) for an endpoint A.
Absorbs(l, r) == /\ IsEndpoint(l) /\ IsOp(r, "And")
                 /\ IsSameTree(l, r.left) \/ IsSameTree(l, r.right)

OrIdentities(l, r) ==
    IF IsTrue(l) \/ IsTrue(r) THEN Bool(TRUE)
    ELSE IF IsFalse(l) THEN r
    ELSE IF IsFalse(r) THEN l
    ELSE IF IsNegationOf(l, r) THEN Bool(TRUE)
    ELSE IF IsSameTree(l, r) THEN l
    ELSE IF Combines(l, r) THEN l.left
    ELSE IF IsEndpoint(l) /\ IsOp(r, "And") /\ IsNegationOf(l, r.left)
         THEN Logical(l, r.right, "Or")
    ELSE IF IsEndpoint(l) /\ IsOp(r, "And") /\ IsNegationOf(l, r.right)
         THEN Logical(l, r.left, "Or")
    ELSE IF Absorbs(l, r) THEN l
    ELSE IF Absorbs(r, l) THEN r
    ELSE Logical(l, r, "Or")

XorIdentities(l, r) ==
    IF IsFalse(l) THEN r
    ELSE IF IsFalse(r) THEN l
    ELSE IF IsTrue(l) THEN Unary(r)
    ELSE IF IsTrue(r) THEN Unary(l)
    ELSE Logical(l, r, "Xor")

ImplyLeftIdentities(l, r) ==
    IF SameFunction(l, r) \/ IsFalse(l) THEN Bool(TRUE)
    ELSE IF IsTrue(l) THEN r
    ELSE Logical(l, r, "ImplyLeft")

ImplyRightIdentities(l, r) ==
    IF SameFunction(l, r) \/ IsTrue(r) THEN Bool(TRUE)
    ELSE IF IsFalse(r) THEN l
    ELSE Logical(l, r, "ImplyRight")

ApplyIdentities(l, r, op) ==
    CASE op = "And" -> AndIdentities(l, r)
      [] op = "Or" -> OrIdentities(l, r)
      [] op = "Xor" -> XorIdentities(l, r)
      [] op = "ImplyLeft" -> ImplyLeftIdentities(l, r)
      [] op = "ImplyRight" -> ImplyRightIdentities(l, r)
      [] OTHER -> Logical(l, r, op)

\* De Morgan's laws, for !(!A op !B) and for !A !op !B.
DeMorgan == [And |-> "Or", Or |-> "And", Nand |-> "Or", Nor |-> "And"]
OfNegations(n, ops) ==
    n.type = "Logical" /\ n.op \in ops /\ IsOp(n.left, "Not") /\ IsOp(n.right, "Not")

SimplifyNot(child) ==
    IF child.type = "Bool" THEN Bool(~child.value)
    ELSE IF child.type # "Logical" THEN Unary(child)
    ELSE IF child.op = "Not" THEN child.left
    ELSE IF OfNegations(child, {"And", "Or"})
         THEN Logical(child.left.left, child.right.left, DeMorgan[child.op])
    ELSE IF IsNot(child.op) THEN Logical(child.left, child.right, BaseOp[child.op])
    ELSE IF child.op \in DOMAIN AddNot
         THEN Logical(child.left, child.right, AddNot[child.op])
    ELSE Unary(child)

Shortcut(n) == OfNegations(n, {"Nand", "Nor"})

\* simplify(): the tree it returns, and what it leaves of the tree it is
\* called on.  It is const and yet, at a Shortcut, moves the operands out of
\* the source, whose left half the recursive call has already been through.
RECURSIVE Simplified(_)
Simplified(n) ==
    IF n.type # "Logical" THEN [tree |-> n, source |-> n]
    ELSE LET l == Simplified(n.left)
         IN  IF n.op = "Not"
             THEN [tree |-> SimplifyNot(l.tree), source |-> Unary(l.source)]
             ELSE IF Shortcut(n)
             THEN [tree |-> Logical(l.source.left, n.right.left, DeMorgan[n.op]),
                   source |-> Logical(Unary(MovedFrom(l.source.left)),
                                      Unary(MovedFrom(n.right.left)), n.op)]
             ELSE LET r == Simplified(n.right)
                  IN  [tree |-> IF l.tree.type = "Bool" /\ r.tree.type = "Bool"
                                THEN Bool(EvalOp(n.op, l.tree.value, r.tree.value))
                                ELSE ApplyIdentities(l.tree, r.tree, n.op),
                       source |-> Logical(l.source, r.source, n.op)]

-----------------------------------------------------------------------------
(* condition_simplifier::simplify(): Quine and McCluskey.  A term is the   *)
(* set `mask` of functions it depends on and the set `value` of those that *)
(* it wants true.                                                          *)

Term(mask, value) == [mask |-> mask, value |-> value]
Covers(t, minterm) == minterm \cap t.mask = t.value

Adjacent(t, u) ==
    t.mask = u.mask /\ Cardinality((t.value \ u.value) \cup (u.value \ t.value)) = 1
Merge(t, u) == LET mask == t.mask \ ((t.value \ u.value) \cup (u.value \ t.value))
               IN  Term(mask, t.value \cap mask)

\* Mutant: of two merged terms only the first, with fewer functions true, is
\* marked.
Used_FirstOnly(t, table) ==
    \E u \in table : Adjacent(t, u) /\ Cardinality(t.value) < Cardinality(u.value)
Used(t, table) == \E u \in table : Adjacent(t, u)

RECURSIVE PrimeImplicants(_)
PrimeImplicants(table) ==
    IF table = {} THEN {}
    ELSE {t \in table : ~Used(t, table)}
         \cup PrimeImplicants({Merge(p[1], p[2]) :
                                  p \in {q \in table \X table : Adjacent(q[1], q[2])}})

Minterms(n) == {s \in SUBSET GetFunctions(n) : Evaluate(n, s)}

Essential(primes, minterms) ==
    {p \in primes : \E m \in minterms : {q \in primes : Covers(q, m)} = {p}}

\* The greedy choice: any prime that covers most of what remains (the code
\* takes the first of them, and throws when none covers anything).
CoverCount(p, remaining) == Cardinality({m \in remaining : Covers(p, m)})
RECURSIVE GreedyCovers(_, _, _)
GreedyCovers(chosen, primes, remaining) ==
    IF remaining = {} THEN {chosen}
    ELSE UNION {GreedyCovers(chosen \cup {p}, primes, {m \in remaining : ~Covers(p, m)}) :
                   p \in {q \in primes :
                             /\ CoverCount(q, remaining) > 0
                             /\ \A o \in primes :
                                   CoverCount(o, remaining) <= CoverCount(q, remaining)}}

ChosenCovers(n) ==
    LET minterms == Minterms(n)
        primes == PrimeImplicants({Term(GetFunctions(n), m) : m \in minterms})
        essential == Essential(primes, minterms)
    IN  GreedyCovers(essential, primes,
                     {m \in minterms : \A p \in essential : ~Covers(p, m)})

\* reconstruct_tree(): a left-combined chain of trees.
Chain(trees, op) ==
    LET tree[k \in 1..Len(trees)] ==
          IF k = 1 THEN trees[1] ELSE Logical(tree[k - 1], trees[k], op)
    IN  tree[Len(trees)]
Literals(t) ==
    LET order == SelectSeq(<<NoId>> \o FuncOrder, LAMBDA f : f \in t.mask)
    IN  [i \in DOMAIN order |-> IF order[i] \in t.value THEN Function(order[i])
                                ELSE Unary(Function(order[i]))]
TermTree(t) == IF t.mask = {} THEN Bool(TRUE) ELSE Chain(Literals(t), "And")
ReconstructTree(chosen) ==
    IF chosen = {} THEN Bool(FALSE)
    ELSE LET terms == CHOOSE s \in [1..Cardinality(chosen) -> chosen] :
                          \A i, j \in DOMAIN s : s[i] = s[j] => i = j
         IN  Chain([i \in DOMAIN terms |-> TermTree(terms[i])], "Or")

-----------------------------------------------------------------------------
(* dump() and load(): a tree in prefix form. *)

\* Mutant: every operator with the Not bit is taken for a unary one.
HasRight_NotBit(op) == op # "Not" /\ ~IsNot(op)
HasRight(op) == op # "Not"

RECURSIVE Dump(_)
Dump(n) ==
    CASE n.type = "Null" -> <<"Null">>
      [] n.type = "Bool" -> <<"Bool", n.value>>
      [] n.type = "Function" -> <<"Function", n.id>>
      [] OTHER -> <<"Logical", n.op>> \o Dump(n.left)
                  \o (IF n.op # "Not" THEN Dump(n.right) ELSE <<>>)

\* load() from position i: the node, and the position after it.
RECURSIVE Load(_, _)
Load(data, i) ==
    CASE data[i] = "Null" -> [node |-> Null, next |-> i + 1]
      [] data[i] = "Bool" -> [node |-> Bool(data[i + 1]), next |-> i + 2]
      [] data[i] = "Function" -> [node |-> Function(data[i + 1]), next |-> i + 2]
      [] OTHER ->
           LET l == Load(data, i + 2)
           IN  IF ~HasRight(data[i + 1])
               THEN [node |-> [type |-> "Logical", op |-> data[i + 1], left |-> l.node],
                     next |-> l.next]
               ELSE LET r == Load(data, l.next)
                    IN  [node |-> Logical(l.node, r.node, data[i + 1]), next |-> r.next]

-----------------------------------------------------------------------------
(* The caller keeps one tree and replaces it by what a call returns. *)

Init == expr \in Exprs

Simplify == Valid(expr) /\ expr' = Simplified(expr).tree

\* It throws when the tree has more functions than a term has bits.
MaxFunctions == 8
Minimize ==
    /\ Evaluable(expr, GetFunctions(expr))
    /\ Cardinality(GetFunctions(expr)) <= MaxFunctions
    /\ \E chosen \in ChosenCovers(expr) : expr' = ReconstructTree(chosen)

Reload == Valid(expr) /\ expr' = Load(Dump(expr), 1).node

Next == Simplify \/ Minimize \/ Reload

Spec == Init /\ [][Next]_expr

-----------------------------------------------------------------------------
(* Properties. *)

SameMeaning(n, m) ==
    /\ Evaluable(m, GetFunctions(n))
    /\ \A s \in SUBSET GetFunctions(n) : Evaluate(n, s) = Evaluate(m, s)

\* A shortcut has another one in its left operand.
NestedShortcuts(n) ==
    \E m \in Nodes(n) : Shortcut(m) /\ \E k \in Nodes(m.left) : Shortcut(k)

\* A tree whose functions the caller can bind and evaluate.
Usable(n) == Evaluable(n, {FuncOrder[i] : i \in DOMAIN FuncOrder})

HasOp(n, op) == \E m \in Nodes(n) : IsOp(m, op)

\* simplify(): whatever identities apply, at whatever depth, the result is a
\* tree over the same functions with the same truth table.  Two things are
\* left out, because the code breaks them: a shortcut within a shortcut and
\* the constants on the right of a right implication.
SimplifyKeepsMeaning ==
    Simplify /\ Usable(expr) /\ ~NestedShortcuts(expr) /\ ~HasOp(expr, "ImplyRight")
       => SameMeaning(expr, expr')

\* condition.cpp, simplify(): "we will return a clean new tree instead".
\* Trees without a right implication keep their meaning.
SimplifyReturnsCleanTree ==
    [][Simplify /\ Usable(expr) /\ ~HasOp(expr, "ImplyRight")
          => SameMeaning(expr, expr')]_expr

\* A pass either changes nothing or makes the tree smaller, so that repeating
\* simplify() until nothing changes ends.
RECURSIVE Size(_)
Size(n) == CASE n.type # "Logical" -> 1
             [] n.type = "Logical" /\ n.op = "Not" -> 1 + Size(n.left)
             [] OTHER -> 1 + Size(n.left) + Size(n.right)
SimplifyShrinks == Simplify => expr' = expr \/ Size(expr') < Size(expr)

\* simplify() is const: the tree it is called on survives, unless it holds a
\* NAND or a NOR.
SourceSurvives ==
    Valid(expr) /\ ~HasOp(expr, "Nand") /\ ~HasOp(expr, "Nor")
        => Simplified(expr).source = expr

\* The sum of products of Quine and McCluskey has the truth table of the
\* tree, and no literal can be dropped from any of its terms: each is a prime
\* implicant.
MinimizeKeepsMeaning ==
    Minimize => SameMeaning(expr, expr')
MinimizesToPrimes ==
    Minimize =>
       \E chosen \in ChosenCovers(expr) :
         /\ expr' = ReconstructTree(chosen)
         /\ \A t \in chosen, f \in GetFunctions(expr) : f \in t.mask =>
              \E s \in SUBSET GetFunctions(expr) :
                 /\ Covers(Term(t.mask \ {f}, t.value \ {f}), s)
                 /\ ~Evaluate(expr, s)

\* load() restores every tree that dump() has written, and reads exactly as
\* far as dump() wrote.
ReloadRestores ==
    Valid(expr) => Load(Dump(expr), 1) = [node |-> expr, next |-> Len(Dump(expr)) + 1]

\* Simplifying and minimizing, in any order and repeated, never change what a
\* tree says.
RewritingKeepsMeaning == [][SimplifyKeepsMeaning /\ MinimizeKeepsMeaning]_expr

\* Neither makes a tree worse: a pass of simplify() shrinks it or changes
\* nothing, and what minimize leaves has no literal too many.
RewritingReduces == [][SimplifyShrinks /\ MinimizesToPrimes]_expr
=============================================================================
