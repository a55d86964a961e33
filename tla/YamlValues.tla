----------------------------- MODULE YamlValues -----------------------------
(***************************************************************************)
(* A YAML document in the hands of a program (value in src/src/yaml.cpp):  *)
(* it is reached through operator[], which makes what is missing, and an   *)
(* alias leads on to the value it was resolved to, as if it were that.     *)
(*                                                                         *)
(* A value is one of Yaml, at its path from the root; an alias holds the   *)
(* path of its target.  A target that has been destroyed, or that may have *)
(* been moved with the vector it is in, is Lost: using it is undefined, and *)
(* no call that would use it is modelled.                                  *)
(***************************************************************************)
EXTENDS Integers, Sequences, FiniteSets, SequencesExt

CONSTANTS YamlTrees,     \* documents as the parser leaves them
          YamlPaths,     \* what the program writes between brackets
          YamlScalars,   \* what it assigns and appends
          MaxYamlEdits   \* bound: calls

VARIABLES yamlTree,          \* document::root()
          yamlEdits,
          lastCall           \* history: the last call, and whether it threw

yamlValueVars == <<yamlTree, yamlEdits, lastCall>>

Y == INSTANCE Yaml WITH YamlLines <- {}, MaxLines <- 0, YamlDocs <- {},
                        parser <- lastCall, yamlText <- <<>>, written <- yamlTree

Lost == {<<"lost">>}
Pointing(path) == {<<"at", path>>}
AliasTo(name, path) == [Y!YAlias(name) EXCEPT !.target = Pointing(path)]

IsKey(step) == "key" \in DOMAIN step
Kind(step) == IF IsKey(step) THEN "object" ELSE "array"
Exists(v, step) ==
    /\ v.type = Kind(step)
    /\ IF IsKey(step) THEN step.key \in DOMAIN v.members ELSE step.index \in DOMAIN v.items

\* resolve(): where an access goes on, or Nowhere.  An anchor is no alias.
Nowhere == <<Y!Element(0)>>
Resolved(t, place) ==
    LET v == Y!At(t, place)
    IN IF v.type /= "alias" THEN place
       ELSE IF v.target = {} \/ v.target = Lost THEN Nowhere ELSE (CHOOSE p \in v.target : TRUE)[2]

-----------------------------------------------------------------------------
(* Pointers to values. *)

\* What was in the value at a path is gone, or that value, too.
Gone(target, place, whole) == IF whole THEN IsPrefix(place, target) ELSE IsStrictPrefix(place, target)
RECURSIVE Unpointed(_, _, _)
Unpointed(v, place, whole) ==
    CASE v.type = "alias" ->
            IF v.target \notin {{}, Lost} /\ Gone((CHOOSE p \in v.target : TRUE)[2], place, whole)
            THEN [v EXCEPT !.target = Lost] ELSE v
      [] v.type = "object" -> [v EXCEPT !.members = [k \in DOMAIN @ |-> Unpointed(@[k], place, whole)]]
      [] v.type = "array" -> [v EXCEPT !.items = [i \in DOMAIN @ |-> Unpointed(@[i], place, whole)]]
      [] OTHER -> v
\* A value is overwritten: it stays where it is, what was in it does not.
Overwrite(t, place, v) == Unpointed(Y!Replaced(t, place, v), place, FALSE)
\* The vector at a place grows, and may move with all that is in it.
Grown(t, place, items) ==
    LET grown == Y!Replaced(t, place, Y!YArray(items)) IN {grown, Unpointed(grown, place, FALSE)}

-----------------------------------------------------------------------------
(* Reading: the const operator[], at(), as_...() and sizes. *)

\* The place a path leads to, if all of it is there.
Follow(t, place, step) ==
    LET p == IF place = Nowhere THEN Nowhere ELSE Resolved(t, place)
    IN IF p = Nowhere THEN Nowhere ELSE IF Exists(Y!At(t, p), step) THEN Append(p, step) ELSE Nowhere
PlaceOf(t, path) == FoldLeft(LAMBDA place, step : Follow(t, place, step), <<>>, path)
\* With the alias at its end followed, as as_...() does.
TargetOf(t, path) == IF PlaceOf(t, path) = Nowhere THEN Nowhere ELSE Resolved(t, PlaceOf(t, path))
ValueAt(t, path) == Y!At(t, TargetOf(t, path))

CanBe(v, type) == v.type \in {"null", type}
\* array_size(), which resolves, and size(), which does not.
ArraySize(t, path) == Len(ValueAt(t, path).items)
SizeOfValue(v) ==
    CASE v.type = "array" -> Len(v.items)
      [] v.type = "object" -> Cardinality(DOMAIN v.members)
      [] v.type = "string" -> Len(v.chars)
      [] OTHER -> 0

-----------------------------------------------------------------------------
(* Writing. *)

EmptyOf(kind) == IF kind = "object" THEN Y!YObject(<<>>) ELSE Y!YArray(<<>>)
Resize(items, n) == [i \in 1..n |-> IF i <= Len(items) THEN items[i] ELSE Y!YNull]

\* A path on its way: the trees it may have made, where it is, and whether it
\* has thrown.
Way(t, place, threw) == [yamlTree |-> t, place |-> place, threw |-> threw]

\* Mutant: an alias is replaced instead of followed.
Enter_BreaksAlias(w, step) ==
    LET v == Y!At(w.yamlTree, w.place)
        t == IF v.type \in {"null", "alias"} THEN Overwrite(w.yamlTree, w.place, EmptyOf(Kind(step))) ELSE w.yamlTree
    IN IF w.threw THEN w ELSE Way(t, w.place, Y!At(t, w.place).type /= Kind(step))
\* The beginning of operator[]: an alias is followed, null becomes a container.
Enter(w, step) ==
    LET p == IF w.threw THEN Nowhere ELSE Resolved(w.yamlTree, w.place)
        v == Y!At(w.yamlTree, p)
    IN IF p = Nowhere THEN [w EXCEPT !.threw = TRUE]
       ELSE Way(IF v.type = "null" THEN Overwrite(w.yamlTree, p, EmptyOf(Kind(step))) ELSE w.yamlTree,
                p, v.type \notin {"null", Kind(step)})

\* The rest of it: a member, or elements up to the index, are made.
Take(w, step) ==
    LET v == Y!At(w.yamlTree, w.place)
        place == Append(w.place, step)
    IN IF w.threw \/ Exists(v, step) THEN {[w EXCEPT !.place = IF w.threw THEN @ ELSE place]}
       ELSE IF IsKey(step)
       THEN {Way(Y!Replaced(w.yamlTree, w.place, Y!YObject(Y!Holding(v.members, step.key, Y!YNull))), place, FALSE)}
       ELSE {Way(t, place, FALSE) : t \in Grown(w.yamlTree, w.place, Resize(v.items, step.index))}
\* No way goes on at a pointer that is lost.
AtLost(w) == LET v == Y!At(w.yamlTree, w.place) IN ~w.threw /\ v.type = "alias" /\ v.target = Lost
GoingOn(ways) == {w \in ways : ~AtLost(w)}
Ways(t, path) ==
    FoldLeft(LAMBDA ways, step : UNION {Take(Enter(w, step), step) : w \in GoingOn(ways)},
             {Way(t, <<>>, FALSE)}, path)

Called(name, path, v, threw) == [name |-> name, path |-> path, value |-> v, threw |-> threw]
Does(name, path, v, t, threw) == yamlTree' = t /\ lastCall' = Called(name, path, v, threw)

\* root()[..] = v.  The alias itself is overwritten, not its target.
Assign(path, v) ==
    \E w \in Ways(yamlTree, path) :
        Does("assign", path, v, IF w.threw THEN w.yamlTree ELSE Overwrite(w.yamlTree, w.place, v), w.threw)

\* root()[..].push_back(v)
PushBack(path, v) ==
    \E w \in GoingOn(Ways(yamlTree, path)) :
        LET a == Enter(w, Y!Element(1))
        IN IF a.threw THEN Does("push_back", path, v, a.yamlTree, TRUE)
           ELSE \E t \in Grown(a.yamlTree, a.place, Append(Y!At(a.yamlTree, a.place).items, v)) :
                    Does("push_back", path, v, t, FALSE)

\* as_int() and its like, which give null the value 0 of their type.
AsScalar(path, zero) ==
    \E w \in GoingOn(Ways(yamlTree, path)) :
        LET p == IF w.threw THEN Nowhere ELSE Resolved(w.yamlTree, w.place)
            v == Y!At(w.yamlTree, p)
        IN IF p = Nowhere THEN Does("as", path, zero, w.yamlTree, TRUE)
           ELSE Does("as", path, zero, IF v.type = "null" THEN Y!Replaced(w.yamlTree, p, zero) ELSE w.yamlTree,
                     ~CanBe(v, zero.type))

\* clear()
ClearAt(path) ==
    \E w \in Ways(yamlTree, path) :
        Does("clear", path, Y!YNull, IF w.threw THEN w.yamlTree ELSE Overwrite(w.yamlTree, w.place, Y!YNull), w.threw)

\* remove_member(), which does not follow an alias.
RemoveMember(path, key) ==
    \E w \in Ways(yamlTree, path) :
        LET v == Y!At(w.yamlTree, w.place)
            member == Append(w.place, Y!YMember(key))
        IN Does("remove", Append(path, Y!YMember(key)), Y!YNull,
                IF w.threw \/ v.type /= "object" THEN w.yamlTree
                ELSE Unpointed(Y!Replaced(w.yamlTree, w.place,
                         Y!YObject([k \in DOMAIN v.members \ {key} |-> v.members[k]])), member, TRUE),
                w.threw)

YamlValuesInit ==
    /\ yamlTree \in YamlTrees
    /\ yamlEdits = 0
    /\ lastCall = Called("none", <<>>, Y!YNull, FALSE)

YamlValuesNext ==
    /\ yamlEdits < MaxYamlEdits
    /\ yamlEdits' = yamlEdits + 1
    /\ \E path \in YamlPaths :
         \/ \E v \in YamlScalars : Assign(path, v) \/ PushBack(path, v)
         \/ AsScalar(path, Y!YInt(<<"0">>))
         \/ ClearAt(path)
         \/ \E key \in {Last(p).key : p \in {q \in YamlPaths : q /= <<>> /\ IsKey(Last(q))}} : RemoveMember(path, key)

-----------------------------------------------------------------------------
(* Properties. *)

\* Paths that the pointers lead along surely, and what can be read there.
Sound(t, path) == \A n \in 0..Len(path) :
    LET place == PlaceOf(t, SubSeq(path, 1, n))
    IN place /= Nowhere => ~(Y!At(t, place).type = "alias" /\ Y!At(t, place).target = Lost)
CanBeRead(t, path) == TargetOf(t, path) /= Nowhere

\* What has been written through one path is read through every path that led
\* to the same place, by its keys or through aliases, as long as no pointer on
\* the way has been lost.
WrittenIsRead ==
    lastCall'.name \in {"assign", "push_back"} /\ ~lastCall'.threw =>
    \A path \in YamlPaths :
       LET Same(WhereTo(_, _)) == WhereTo(yamlTree, path) = WhereTo(yamlTree, lastCall'.path)
       IN /\ CanBeRead(yamlTree, lastCall'.path) /\ CanBeRead(yamlTree, path) /\ Sound(yamlTree', path)
          /\ IF lastCall'.name = "assign" THEN Same(PlaceOf) ELSE Same(TargetOf)
          => /\ CanBeRead(yamlTree', path)
             /\ IF lastCall'.name = "assign" THEN ValueAt(yamlTree', path) = lastCall'.value
                ELSE ValueAt(yamlTree', path).type = "array"
                     /\ ArraySize(yamlTree', path) = SizeOfValue(ValueAt(yamlTree, path)) + 1
                     /\ Last(ValueAt(yamlTree', path).items) = lastCall'.value

\* And nothing else is changed by a call, nor by one that throws on its way,
\* which leaves nothing but containers where null has been: a scalar is read as
\* before through every path that does not lead to or through what was written.
Scalar(t, path) == CanBeRead(t, path) /\ Y!IsScalar(ValueAt(t, path)) /\ ValueAt(t, path).type /= "null"
OthersAreKept ==
    lastCall'.name /= "none" =>
    \A path \in YamlPaths :
       LET written == PlaceOf(yamlTree, lastCall'.path)
           led == \/ IsPrefix(written, TargetOf(yamlTree, path))
                  \/ \E n \in 0..Len(path) : IsPrefix(written, PlaceOf(yamlTree, SubSeq(path, 1, n)))
       IN Scalar(yamlTree, path) /\ Sound(yamlTree', path) =>
             \/ CanBeRead(yamlTree', path) /\ ValueAt(yamlTree', path) = ValueAt(yamlTree, path)
             \/ /\ ~lastCall'.threw /\ lastCall'.name \in {"assign", "clear", "remove"}
                /\ written /= Nowhere /\ led

\* A write through any path, alias or not, is seen on the paths to the same
\* place and on no others.
YamlWritesAreLocal == [][WrittenIsRead /\ OthersAreKept]_yamlValueVars
=============================================================================
