------------------------------- MODULE Aliases ------------------------------
(***************************************************************************)
(* What a table with several indices for one value promises: every index   *)
(* leads to a value, and the indices that were bound to each other share   *)
(* it until they are erased.  multindex (Multindex.tla) implements this.   *)
(***************************************************************************)
CONSTANTS Indices, Values

VARIABLES value,      \* what an index leads to
          groups      \* the sets of indices that share a value

aliasVars == <<value, groups>>

GroupOf(i) == {j \in Indices : \E g \in groups : i \in g /\ j \in g}
Only(f, set) == [i \in DOMAIN f \cap set |-> f[i]]
With(f, set, v) == [i \in DOMAIN f \cup set |-> IF i \in set THEN v ELSE f[i]]

AliasesInit == value \in [{} -> Values] /\ groups = {}

\* A new index with a value of its own.
New(i, v) ==
    /\ i \notin DOMAIN value
    /\ value' = With(value, {i}, v)
    /\ groups' = groups \cup {{i}}

\* A new index for the value of another one.
Share(i, j) ==
    /\ i \in DOMAIN value /\ j \notin DOMAIN value
    /\ value' = With(value, {j}, value[i])
    /\ groups' = (groups \ {GroupOf(i)}) \cup {GroupOf(i) \cup {j}}

\* An index goes; a value goes with its last index.
Forget(i) ==
    /\ i \in DOMAIN value
    /\ value' = Only(value, Indices \ {i})
    /\ groups' = (groups \ {GroupOf(i)}) \cup ({GroupOf(i) \ {i}} \ {{}})

\* A value goes, with all of its indices.
Drop(g) ==
    /\ g \in groups
    /\ value' = Only(value, Indices \ g)
    /\ groups' = groups \ {g}

\* The other indices of a value go.
KeepOnly(i) ==
    /\ i \in DOMAIN value
    /\ value' = Only(value, (Indices \ GroupOf(i)) \cup {i})
    /\ groups' = (groups \ {GroupOf(i)}) \cup {{i}}

\* Whoever writes through one index writes for all that share the value.
Assign(i, v) ==
    /\ i \in DOMAIN value
    /\ value' = With(value, GroupOf(i), v)
    /\ UNCHANGED groups

Forgotten == value' \in [{} -> Values] /\ groups' = {}

AliasesNext ==
    \/ \E i \in Indices : Forget(i) \/ KeepOnly(i)
    \/ \E i \in Indices, v \in Values : New(i, v) \/ Assign(i, v)
    \/ \E i, j \in Indices : Share(i, j)
    \/ \E g \in groups : Drop(g)
    \/ Forgotten

AliasesSpec == AliasesInit /\ [][AliasesNext]_aliasVars
=============================================================================
