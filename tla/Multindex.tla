------------------------------ MODULE Multindex -----------------------------
(***************************************************************************)
(* multindex (src/include/multindex.hpp): values with several indices, in  *)
(* three maps that every call has to keep in step.                         *)
(*                                                                         *)
(* The constructor from a list inserts and binds, and throws when a call   *)
(* returns false.  Indices are passed as values: a reference to a key of   *)
(* the table itself dies inside erase() and uniquefy().                    *)
(***************************************************************************)
EXTENDS Naturals

CONSTANTS Indices, Values,
          MaxUid         \* bound: values made since the table was empty

ASSUME MultindexAssumption == MaxUid \in Nat

VARIABLES index_to_uid, uid_to_value, uid_to_indices, next_uid

maps == <<index_to_uid, uid_to_value, uid_to_indices>>
multindexVars == <<index_to_uid, uid_to_value, uid_to_indices, next_uid>>

\* std::map: operator[] with an assignment, and erase().
Empty == [k \in {} |-> {}]
Put(map, k, v) == [x \in DOMAIN map \cup {k} |-> IF x = k THEN v ELSE map[x]]
Without(map, keys) == [x \in DOMAIN map \ keys |-> map[x]]

MultindexInit == index_to_uid = Empty /\ uid_to_value = Empty /\ uid_to_indices = Empty /\ next_uid = 0

-----------------------------------------------------------------------------
\* insert(), and operator[] of an index that is not there; it does nothing for
\* one that is.
Insert(index, v) ==
    /\ index \notin DOMAIN index_to_uid
    /\ next_uid < MaxUid
    /\ uid_to_value' = Put(uid_to_value, next_uid, v)
    /\ index_to_uid' = Put(index_to_uid, index, next_uid)
    /\ uid_to_indices' = Put(uid_to_indices, next_uid, {index})
    /\ next_uid' = next_uid + 1

Bind(existing_index, new_index) ==
    /\ new_index \notin DOMAIN index_to_uid
    /\ existing_index \in DOMAIN index_to_uid
    /\ LET uid == index_to_uid[existing_index] IN
       /\ index_to_uid' = Put(index_to_uid, new_index, uid)
       /\ uid_to_indices' = Put(uid_to_indices, uid, uid_to_indices[uid] \cup {new_index})
    /\ UNCHANGED <<uid_to_value, next_uid>>

\* Through what find(), at() and operator[] return.
Write(index, v) ==
    /\ index \in DOMAIN index_to_uid
    /\ uid_to_value' = Put(uid_to_value, index_to_uid[index], v)
    /\ UNCHANGED <<index_to_uid, uid_to_indices, next_uid>>

\* Mutant: a value stays without an index.
Erase_LeavesValue(index) ==
    /\ index \in DOMAIN index_to_uid
    /\ LET uid == index_to_uid[index]
       IN /\ index_to_uid' = Without(index_to_uid, {index})
          /\ uid_to_indices' = Put(uid_to_indices, uid, uid_to_indices[uid] \ {index})
    /\ UNCHANGED <<uid_to_value, next_uid>>
Erase(index) ==
    /\ index \in DOMAIN index_to_uid
    /\ LET uid == index_to_uid[index]
           left == uid_to_indices[uid] \ {index}
           gone == IF left = {} THEN {uid} ELSE {}
       IN /\ index_to_uid' = Without(index_to_uid, {index})
          /\ uid_to_indices' = Without(Put(uid_to_indices, uid, left), gone)
          /\ uid_to_value' = Without(uid_to_value, gone)
    /\ UNCHANGED next_uid

\* erase_value(): of several equal values the first one, with its indices.
EraseValue(v) ==
    LET equal == {uid \in DOMAIN uid_to_value : uid_to_value[uid] = v} IN
    \E target_uid \in equal :
        /\ \A uid \in equal : target_uid <= uid
        /\ index_to_uid' = Without(index_to_uid, uid_to_indices[target_uid])
        /\ uid_to_indices' = Without(uid_to_indices, {target_uid})
        /\ uid_to_value' = Without(uid_to_value, {target_uid})
        /\ UNCHANGED next_uid

\* erase_value_by_index(): a value equal to the one of the index, which need not
\* be that one.
EraseValueByIndex(index) ==
    /\ index \in DOMAIN index_to_uid
    /\ EraseValue(uid_to_value[index_to_uid[index]])

\* Mutant: the other indices still lead to the value.
Uniquefy_KeepsIndices(index) ==
    /\ index \in DOMAIN index_to_uid
    /\ uid_to_indices' = Put(uid_to_indices, index_to_uid[index], {index})
    /\ UNCHANGED <<index_to_uid, uid_to_value, next_uid>>
Uniquefy(index) ==
    /\ index \in DOMAIN index_to_uid
    /\ LET uid == index_to_uid[index] IN
       /\ index_to_uid' = Without(index_to_uid, uid_to_indices[uid] \ {index})
       /\ uid_to_indices' = Put(uid_to_indices, uid, {index})
    /\ UNCHANGED <<uid_to_value, next_uid>>

Clear ==
    /\ index_to_uid' = Empty /\ uid_to_value' = Empty /\ uid_to_indices' = Empty
    /\ next_uid' = 0

MultindexNext ==
    \/ \E index \in Indices : Erase(index) \/ EraseValueByIndex(index) \/ Uniquefy(index)
    \/ \E index \in Indices, v \in Values : Insert(index, v) \/ Write(index, v)
    \/ \E i, j \in Indices : Bind(i, j)
    \/ \E v \in Values : EraseValue(v)
    \/ Clear

MultindexSpec == MultindexInit /\ [][MultindexNext]_multindexVars

\* unfold(), and what find(), at() and get_all_indices() answer.
Unfold == [index \in DOMAIN index_to_uid |-> uid_to_value[index_to_uid[index]]]
AllIndices(index) == uid_to_indices[index_to_uid[index]]
\* items(): what shares a value.
ItemIndices == {uid_to_indices[uid] : uid \in DOMAIN uid_to_value}

-----------------------------------------------------------------------------
MultindexTypeOK ==
    /\ DOMAIN index_to_uid \subseteq Indices
    /\ index_to_uid \in [DOMAIN index_to_uid -> 0..(next_uid - 1)]
    /\ DOMAIN uid_to_value \subseteq 0..(next_uid - 1)
    /\ uid_to_value \in [DOMAIN uid_to_value -> Values]
    /\ uid_to_indices \in [DOMAIN uid_to_indices -> (SUBSET Indices) \ {{}}]
    /\ next_uid \in 0..MaxUid

\* The three maps say the same after every sequence of calls: an index belongs to
\* a value that is there, and a value to the indices that lead to it, of which it
\* has at least one.
MapsAgree ==
    /\ MultindexTypeOK
    /\ DOMAIN uid_to_indices = DOMAIN uid_to_value
    /\ \A index \in DOMAIN index_to_uid : index_to_uid[index] \in DOMAIN uid_to_value
    /\ \A uid \in DOMAIN uid_to_indices :
          uid_to_indices[uid] = {index \in DOMAIN index_to_uid : index_to_uid[index] = uid}

\* To its users the table is one of aliases: values are shared by exactly the
\* indices that were bound to each other, whatever the other values are.
Promised == INSTANCE Aliases WITH value <- Unfold, groups <- ItemIndices
KeepsAliases == Promised!AliasesInit /\ [][Promised!AliasesNext]_<<Unfold, ItemIndices>>
=============================================================================
