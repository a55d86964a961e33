-------------------------- MODULE Multindex_proofs --------------------------
(***************************************************************************)
(* For any indices and values and any number of calls: the three maps of   *)
(* multindex say the same, and the table is one of aliases.                *)
(***************************************************************************)
EXTENDS Multindex, TLAPS

-----------------------------------------------------------------------------
(* Maps. *)

LEMMA PutIs ==
    ASSUME NEW map, NEW k, NEW v
    PROVE  /\ DOMAIN Put(map, k, v) = DOMAIN map \cup {k}
           /\ Put(map, k, v)[k] = v
           /\ \A x \in DOMAIN map \ {k} : Put(map, k, v)[x] = map[x]
  BY DEF Put

LEMMA PutType ==
    ASSUME NEW S, NEW T, NEW map \in [S -> T], NEW k, NEW v \in T
    PROVE  Put(map, k, v) \in [S \cup {k} -> T]
  BY DEF Put

LEMMA WithoutIs ==
    ASSUME NEW map, NEW keys
    PROVE  /\ DOMAIN Without(map, keys) = DOMAIN map \ keys
           /\ \A x \in DOMAIN map \ keys : Without(map, keys)[x] = map[x]
  BY DEF Without

LEMMA WithoutType ==
    ASSUME NEW S, NEW T, NEW map \in [S -> T], NEW keys
    PROVE  Without(map, keys) \in [S \ keys -> T]
  BY DEF Without

-----------------------------------------------------------------------------
(* The maps agree: MapsAgree is inductive. *)

LEMMA AgreeInit == MultindexInit => MapsAgree
  BY MultindexAssumption DEF MultindexInit, MapsAgree, MultindexTypeOK, Empty

\* A number that was given is below the next one.
LEMMA Given ==
    ASSUME MapsAgree
    PROVE  /\ next_uid \in Nat /\ next_uid \notin DOMAIN uid_to_value
           /\ \A uid \in 0..(next_uid - 1) : uid \in 0..next_uid
  BY MultindexAssumption DEF MapsAgree, MultindexTypeOK

LEMMA InsertKeeps ==
    ASSUME MapsAgree, NEW index \in Indices, NEW v \in Values, Insert(index, v)
    PROVE  MapsAgree'
<1>1. next_uid \in Nat /\ next_uid < MaxUid /\ next_uid' = next_uid + 1 /\ next_uid' \in 0..MaxUid
  BY MultindexAssumption DEF Insert, MapsAgree, MultindexTypeOK
<1>2. 0..(next_uid' - 1) = 0..(next_uid - 1) \cup {next_uid} /\ next_uid \notin 0..(next_uid - 1)
  BY <1>1
<1>3. index_to_uid' \in [DOMAIN index_to_uid \cup {index} -> 0..(next_uid' - 1)]
  <2>1. index_to_uid \in [DOMAIN index_to_uid -> 0..(next_uid' - 1)]
    BY <1>2 DEF MapsAgree, MultindexTypeOK
  <2>. QED  BY <2>1, <1>2, PutType DEF Insert
<1>4. uid_to_value' \in [DOMAIN uid_to_value \cup {next_uid} -> Values]
  BY PutType DEF Insert, MapsAgree, MultindexTypeOK
<1>5. uid_to_indices' \in [DOMAIN uid_to_indices \cup {next_uid} -> (SUBSET Indices) \ {{}}]
  <2>1. {index} \in (SUBSET Indices) \ {{}}
    OBVIOUS
  <2>. QED  BY <2>1, PutType DEF Insert, MapsAgree, MultindexTypeOK
<1>6. MultindexTypeOK'
  BY <1>1, <1>2, <1>3, <1>4, <1>5 DEF MapsAgree, MultindexTypeOK
<1>7. \A uid \in DOMAIN uid_to_indices' :
         uid_to_indices'[uid] = {i \in DOMAIN index_to_uid' : index_to_uid'[i] = uid}
  <2>1. index \notin DOMAIN index_to_uid /\ next_uid \notin DOMAIN uid_to_indices
        /\ \A i \in DOMAIN index_to_uid : index_to_uid[i] # next_uid
    BY <1>2 DEF Insert, MapsAgree, MultindexTypeOK
  <2>2. index_to_uid'[index] = next_uid /\ \A i \in DOMAIN index_to_uid : index_to_uid'[i] = index_to_uid[i]
    BY <2>1 DEF Insert, Put
  <2>3. uid_to_indices'[next_uid] = {index}
        /\ \A uid \in DOMAIN uid_to_indices : uid_to_indices'[uid] = uid_to_indices[uid]
    BY <2>1 DEF Insert, Put
  <2>. QED  BY <1>3, <1>5, <2>1, <2>2, <2>3 DEF MapsAgree
<1>8. \A i \in DOMAIN index_to_uid' : index_to_uid'[i] \in DOMAIN uid_to_value'
  BY <1>3, <1>4 DEF Insert, MapsAgree, Put
<1>. QED  BY <1>4, <1>5, <1>6, <1>7, <1>8 DEF MapsAgree

LEMMA BindKeeps ==
    ASSUME MapsAgree, NEW i \in Indices, NEW j \in Indices, Bind(i, j)
    PROVE  MapsAgree'
<1>. DEFINE uid == index_to_uid[i]
<1>1. uid \in DOMAIN uid_to_value /\ uid \in DOMAIN uid_to_indices /\ uid \in 0..(next_uid - 1)
  BY DEF Bind, MapsAgree, MultindexTypeOK
<1>2. index_to_uid' \in [DOMAIN index_to_uid \cup {j} -> 0..(next_uid' - 1)]
  BY <1>1, PutType DEF Bind, MapsAgree, MultindexTypeOK
<1>3. uid_to_indices' \in [DOMAIN uid_to_indices -> (SUBSET Indices) \ {{}}]
  <2>1. uid_to_indices[uid] \cup {j} \in (SUBSET Indices) \ {{}}
    BY <1>1 DEF MapsAgree, MultindexTypeOK
  <2>2. uid_to_indices' \in [DOMAIN uid_to_indices \cup {uid} -> (SUBSET Indices) \ {{}}]
    BY <2>1, PutType DEF Bind, MapsAgree, MultindexTypeOK
  <2>. QED  BY <1>1, <2>2
<1>4. MultindexTypeOK'
  BY <1>2, <1>3 DEF Bind, MapsAgree, MultindexTypeOK
<1>5. j \notin DOMAIN index_to_uid /\ index_to_uid'[j] = uid
      /\ \A k \in DOMAIN index_to_uid : index_to_uid'[k] = index_to_uid[k]
  BY DEF Bind, Put
<1>6. uid_to_indices'[uid] = uid_to_indices[uid] \cup {j}
      /\ \A u \in DOMAIN uid_to_indices \ {uid} : uid_to_indices'[u] = uid_to_indices[u]
  BY DEF Bind, Put
<1>7. \A u \in DOMAIN uid_to_indices' :
         uid_to_indices'[u] = {k \in DOMAIN index_to_uid' : index_to_uid'[k] = u}
  BY <1>1, <1>2, <1>3, <1>5, <1>6 DEF MapsAgree
<1>8. \A k \in DOMAIN index_to_uid' : index_to_uid'[k] \in DOMAIN uid_to_value'
  BY <1>1, <1>2, <1>5 DEF Bind, MapsAgree
<1>. QED  BY <1>3, <1>4, <1>7, <1>8 DEF Bind, MapsAgree

LEMMA WriteKeeps ==
    ASSUME MapsAgree, NEW index \in Indices, NEW v \in Values, Write(index, v)
    PROVE  MapsAgree'
<1>1. index_to_uid[index] \in DOMAIN uid_to_value
  BY DEF Write, MapsAgree
<1>2. uid_to_value' \in [DOMAIN uid_to_value -> Values]
  <2>1. uid_to_value' \in [DOMAIN uid_to_value \cup {index_to_uid[index]} -> Values]
    BY PutType DEF Write, MapsAgree, MultindexTypeOK
  <2>. QED  BY <1>1, <2>1
<1>. QED  BY <1>2 DEF Write, MapsAgree, MultindexTypeOK

\* What has no index left, or was named, goes: some indices, and a value if all
\* of its indices go.
LEMMA RemovalKeeps ==
    ASSUME MapsAgree, NEW uid \in DOMAIN uid_to_value, NEW gone \in SUBSET uid_to_indices[uid],
           index_to_uid' = Without(index_to_uid, gone),
           IF gone = uid_to_indices[uid]
             THEN /\ uid_to_value' = Without(uid_to_value, {uid})
                  /\ DOMAIN uid_to_indices' = DOMAIN uid_to_indices \ {uid}
             ELSE /\ uid_to_value' = uid_to_value
                  /\ DOMAIN uid_to_indices' = DOMAIN uid_to_indices
                  /\ uid_to_indices'[uid] = uid_to_indices[uid] \ gone,
           uid_to_indices' = [u \in DOMAIN uid_to_indices' |-> uid_to_indices'[u]],
           \A u \in DOMAIN uid_to_indices \ {uid} : uid_to_indices'[u] = uid_to_indices[u],
           next_uid' = next_uid
    PROVE  MapsAgree'
<1>1. index_to_uid' \in [DOMAIN index_to_uid \ gone -> 0..(next_uid - 1)]
  BY WithoutType DEF MapsAgree, MultindexTypeOK
<1>2. \A i \in DOMAIN index_to_uid' : index_to_uid'[i] = index_to_uid[i] /\ i \notin gone
  BY <1>1 DEF Without
<1>3. uid \in DOMAIN uid_to_indices
      /\ uid_to_indices[uid] = {i \in DOMAIN index_to_uid : index_to_uid[i] = uid}
  BY DEF MapsAgree
<1>4. CASE gone = uid_to_indices[uid]
  <2>0. uid_to_value' = Without(uid_to_value, {uid}) /\ DOMAIN uid_to_indices' = DOMAIN uid_to_indices \ {uid}
    BY <1>4
  <2>1. uid_to_value' \in [DOMAIN uid_to_value \ {uid} -> Values]
    BY <2>0, WithoutType DEF MapsAgree, MultindexTypeOK
  <2>2. DOMAIN uid_to_indices' = DOMAIN uid_to_value'
    BY <1>4, <2>1 DEF MapsAgree
  <2>3. uid_to_indices' \in [DOMAIN uid_to_indices' -> (SUBSET Indices) \ {{}}]
    BY <1>4 DEF MapsAgree, MultindexTypeOK
  <2>4. MultindexTypeOK'
    BY <1>1, <2>1, <2>3 DEF MapsAgree, MultindexTypeOK
  <2>5. \A i \in DOMAIN index_to_uid' : index_to_uid'[i] \in DOMAIN uid_to_value'
    BY <1>1, <1>2, <1>3, <1>4, <2>1 DEF MapsAgree
  <2>6. \A u \in DOMAIN uid_to_indices' :
           uid_to_indices'[u] = {i \in DOMAIN index_to_uid' : index_to_uid'[i] = u}
    <3> SUFFICES ASSUME NEW u \in DOMAIN uid_to_indices \ {uid}
                 PROVE  uid_to_indices[u] = {i \in DOMAIN index_to_uid' : index_to_uid'[i] = u}
      BY <2>0
    <3>1. uid_to_indices[u] = {i \in DOMAIN index_to_uid : index_to_uid[i] = u}
      BY DEF MapsAgree
    <3>. QED  BY <1>1, <1>2, <1>3, <1>4, <3>1, ZenonT(30)
  <2>. QED  BY <2>2, <2>4, <2>5, <2>6 DEF MapsAgree
<1>5. CASE gone # uid_to_indices[uid]
  <2>1. uid_to_indices[uid] \ gone \in (SUBSET Indices) \ {{}}
    BY <1>3, <1>5 DEF MapsAgree, MultindexTypeOK
  <2>2. uid_to_indices' \in [DOMAIN uid_to_indices' -> (SUBSET Indices) \ {{}}]
    BY <1>5, <2>1 DEF MapsAgree, MultindexTypeOK
  <2>3. MultindexTypeOK'
    BY <1>1, <1>5, <2>2 DEF MapsAgree, MultindexTypeOK
  <2>4. \A i \in DOMAIN index_to_uid' : index_to_uid'[i] \in DOMAIN uid_to_value'
    BY <1>1, <1>2, <1>5 DEF MapsAgree
  <2>5. \A u \in DOMAIN uid_to_indices' :
           uid_to_indices'[u] = {i \in DOMAIN index_to_uid' : index_to_uid'[i] = u}
    BY <1>1, <1>2, <1>3, <1>5 DEF MapsAgree
  <2>. QED  BY <1>5, <2>3, <2>4, <2>5 DEF MapsAgree
<1>. QED  BY <1>4, <1>5

LEMMA EraseKeeps ==
    ASSUME MapsAgree, NEW index \in Indices, Erase(index)
    PROVE  MapsAgree'
<1>. DEFINE uid == index_to_uid[index]
            left == uid_to_indices[uid] \ {index}
<1>1. uid \in DOMAIN uid_to_value /\ uid \in DOMAIN uid_to_indices /\ {index} \in SUBSET uid_to_indices[uid]
  BY DEF Erase, MapsAgree
<1>2. CASE left = {}
  <2>1. /\ index_to_uid' = Without(index_to_uid, {index})
        /\ uid_to_indices' = Without(Put(uid_to_indices, uid, left), {uid})
        /\ uid_to_value' = Without(uid_to_value, {uid})
        /\ next_uid' = next_uid
    BY <1>2 DEF Erase
  <2>2. {index} = uid_to_indices[uid]
    BY <1>1, <1>2
  <2>3. /\ DOMAIN uid_to_indices' = DOMAIN uid_to_indices \ {uid}
        /\ uid_to_indices' = [u \in DOMAIN uid_to_indices' |-> uid_to_indices'[u]]
        /\ \A u \in DOMAIN uid_to_indices \ {uid} : uid_to_indices'[u] = uid_to_indices[u]
    BY <1>1, <2>1 DEF Without, Put
  <2>. QED  BY <1>1, <2>1, <2>2, <2>3, RemovalKeeps
<1>3. CASE left # {}
  <2>1. /\ index_to_uid' = Without(index_to_uid, {index})
        /\ uid_to_indices' = Without(Put(uid_to_indices, uid, left), {})
        /\ uid_to_value' = Without(uid_to_value, {})
        /\ next_uid' = next_uid
    BY <1>3 DEF Erase
  <2>2. {index} # uid_to_indices[uid]
    BY <1>1, <1>3
  <2>3. uid_to_value' = uid_to_value
    BY <2>1 DEF Without, MapsAgree, MultindexTypeOK
  <2>4. /\ DOMAIN uid_to_indices' = DOMAIN uid_to_indices
        /\ uid_to_indices' = [u \in DOMAIN uid_to_indices' |-> uid_to_indices'[u]]
        /\ uid_to_indices'[uid] = left
        /\ \A u \in DOMAIN uid_to_indices \ {uid} : uid_to_indices'[u] = uid_to_indices[u]
    BY <1>1, <2>1 DEF Without, Put
  <2>. QED  BY <1>1, <2>1, <2>2, <2>3, <2>4, RemovalKeeps
<1>. QED  BY <1>2, <1>3

LEMMA EraseValueKeeps ==
    ASSUME MapsAgree, NEW v, EraseValue(v)
    PROVE  MapsAgree'
<1>1. PICK uid \in DOMAIN uid_to_value :
         /\ index_to_uid' = Without(index_to_uid, uid_to_indices[uid])
         /\ uid_to_indices' = Without(uid_to_indices, {uid})
         /\ uid_to_value' = Without(uid_to_value, {uid})
         /\ next_uid' = next_uid
  BY DEF EraseValue
<1>2. /\ DOMAIN uid_to_indices' = DOMAIN uid_to_indices \ {uid}
      /\ uid_to_indices' = [u \in DOMAIN uid_to_indices' |-> uid_to_indices'[u]]
      /\ \A u \in DOMAIN uid_to_indices \ {uid} : uid_to_indices'[u] = uid_to_indices[u]
  BY <1>1 DEF Without
<1>. QED  BY <1>1, <1>2, RemovalKeeps

LEMMA UniquefyKeeps ==
    ASSUME MapsAgree, NEW index \in Indices, Uniquefy(index)
    PROVE  MapsAgree'
<1>. DEFINE uid == index_to_uid[index]
            gone == uid_to_indices[uid] \ {index}
<1>1. uid \in DOMAIN uid_to_value /\ uid \in DOMAIN uid_to_indices /\ index \in uid_to_indices[uid]
  BY DEF Uniquefy, MapsAgree
<1>2. /\ index_to_uid' = Without(index_to_uid, gone)
      /\ uid_to_indices' = Put(uid_to_indices, uid, {index})
      /\ uid_to_value' = uid_to_value /\ next_uid' = next_uid
  BY DEF Uniquefy
<1>3. gone \in SUBSET uid_to_indices[uid] /\ gone # uid_to_indices[uid] /\ {index} = uid_to_indices[uid] \ gone
  BY <1>1
<1>4. /\ DOMAIN uid_to_indices' = DOMAIN uid_to_indices
      /\ uid_to_indices' = [u \in DOMAIN uid_to_indices' |-> uid_to_indices'[u]]
      /\ uid_to_indices'[uid] = {index}
      /\ \A u \in DOMAIN uid_to_indices \ {uid} : uid_to_indices'[u] = uid_to_indices[u]
  BY <1>1, <1>2 DEF Put
<1>. QED  BY <1>1, <1>2, <1>3, <1>4, RemovalKeeps

LEMMA ClearKeeps == Clear => MapsAgree'
  BY MultindexAssumption DEF Clear, MapsAgree, MultindexTypeOK, Empty

LEMMA AgreeStep == MapsAgree /\ [MultindexNext]_multindexVars => MapsAgree'
<1> SUFFICES ASSUME MapsAgree, [MultindexNext]_multindexVars
             PROVE  MapsAgree'
  OBVIOUS
<1>1. CASE UNCHANGED multindexVars
  BY <1>1 DEF multindexVars, MapsAgree, MultindexTypeOK
<1>2. ASSUME NEW index \in Indices, Erase(index)
      PROVE  MapsAgree'
  BY <1>2, EraseKeeps
<1>3. ASSUME NEW index \in Indices, EraseValueByIndex(index)
      PROVE  MapsAgree'
  BY <1>3, EraseValueKeeps DEF EraseValueByIndex
<1>4. ASSUME NEW index \in Indices, Uniquefy(index)
      PROVE  MapsAgree'
  BY <1>4, UniquefyKeeps
<1>5. ASSUME NEW index \in Indices, NEW v \in Values, Insert(index, v)
      PROVE  MapsAgree'
  BY <1>5, InsertKeeps
<1>6. ASSUME NEW index \in Indices, NEW v \in Values, Write(index, v)
      PROVE  MapsAgree'
  BY <1>6, WriteKeeps
<1>7. ASSUME NEW i \in Indices, NEW j \in Indices, Bind(i, j)
      PROVE  MapsAgree'
  BY <1>7, BindKeeps
<1>8. ASSUME NEW v \in Values, EraseValue(v)
      PROVE  MapsAgree'
  BY <1>8, EraseValueKeeps
<1>9. CASE Clear
  BY <1>9, ClearKeeps
<1>. QED  BY <1>1, <1>2, <1>3, <1>4, <1>5, <1>6, <1>7, <1>8, <1>9 DEF MultindexNext

\* After any sequence of insert(), bind(), erase(), erase_value(), uniquefy() and
\* clear(), whatever is equal to what, the three maps say the same: none of the
\* lookups at() makes in one map with what it found in another can fail.
THEOREM MapsStayInStep == MultindexSpec => []MapsAgree
<1>1. MultindexInit => MapsAgree
  BY AgreeInit
<1>2. MapsAgree /\ [MultindexNext]_multindexVars => MapsAgree'
  BY AgreeStep
<1>. QED  BY <1>1, <1>2, PTL DEF MultindexSpec

-----------------------------------------------------------------------------
(* What users see is a table of aliases: each call is a step of Aliases. *)

LEMMA GroupIs ==
    ASSUME MapsAgree, NEW i \in DOMAIN index_to_uid
    PROVE  /\ index_to_uid[i] \in DOMAIN uid_to_value
           /\ Promised!GroupOf(i) = uid_to_indices[index_to_uid[i]]
           /\ Promised!GroupOf(i) = {j \in DOMAIN index_to_uid : index_to_uid[j] = index_to_uid[i]}
           /\ Promised!GroupOf(i) \in ItemIndices /\ i \in Promised!GroupOf(i)
<1>. DEFINE uid == index_to_uid[i]
<1>1. uid \in DOMAIN uid_to_value /\ uid \in DOMAIN uid_to_indices
  BY DEF MapsAgree
<1>2. uid_to_indices[uid] = {j \in DOMAIN index_to_uid : index_to_uid[j] = uid}
  BY <1>1 DEF MapsAgree
<1>3. uid_to_indices[uid] \in SUBSET Indices
  BY <1>1 DEF MapsAgree, MultindexTypeOK
<1>4. ASSUME NEW j \in Indices, NEW g \in ItemIndices, i \in g, j \in g
      PROVE  j \in uid_to_indices[uid]
  <2>1. PICK u \in DOMAIN uid_to_value : g = uid_to_indices[u]
    BY DEF ItemIndices
  <2>2. g = {k \in DOMAIN index_to_uid : index_to_uid[k] = u}
    BY <2>1 DEF MapsAgree
  <2>. QED  BY <1>2, <1>4, <2>2
<1>5. uid_to_indices[uid] \in ItemIndices /\ i \in uid_to_indices[uid]
  BY <1>1, <1>2 DEF ItemIndices
<1>6. Promised!GroupOf(i) = uid_to_indices[uid]
  BY <1>3, <1>4, <1>5 DEF Promised!GroupOf
<1>. QED  BY <1>1, <1>2, <1>5, <1>6

\* Different values have different groups, so a group stands for its value.
LEMMA OtherGroups ==
    ASSUME MapsAgree, NEW uid \in DOMAIN uid_to_value
    PROVE  ItemIndices \ {uid_to_indices[uid]} = {uid_to_indices[u] : u \in DOMAIN uid_to_value \ {uid}}
<1>1. ASSUME NEW u \in DOMAIN uid_to_value \ {uid}
      PROVE  uid_to_indices[u] # uid_to_indices[uid]
  <2>1. /\ uid_to_indices[u] = {k \in DOMAIN index_to_uid : index_to_uid[k] = u}
        /\ uid_to_indices[uid] = {k \in DOMAIN index_to_uid : index_to_uid[k] = uid}
    BY DEF MapsAgree
  <2>2. uid_to_indices[u] # {}
    BY DEF MapsAgree, MultindexTypeOK
  <2>. QED  BY <2>1, <2>2
<1>. QED  BY <1>1 DEF ItemIndices

LEMMA UnfoldIs ==
    /\ DOMAIN Unfold = DOMAIN index_to_uid
    /\ \A i \in DOMAIN Unfold : Unfold[i] = uid_to_value[index_to_uid[i]]
    /\ DOMAIN Unfold' = DOMAIN index_to_uid'
    /\ \A i \in DOMAIN Unfold' : Unfold'[i] = uid_to_value'[index_to_uid'[i]]
  BY DEF Unfold

LEMMA InsertIsNew ==
    ASSUME MapsAgree, NEW index \in Indices, NEW v \in Values, Insert(index, v)
    PROVE  Promised!New(index, v)
<1>1. next_uid \notin DOMAIN uid_to_value /\ next_uid \notin DOMAIN uid_to_indices
  BY Given DEF MapsAgree
<1>2. \A i \in DOMAIN index_to_uid : index_to_uid[i] \in DOMAIN uid_to_value
  BY DEF MapsAgree
<1>3. Unfold' = Promised!With(Unfold, {index}, v)
  BY <1>1, <1>2 DEF Insert, Put, Unfold, Promised!With
<1>4. ItemIndices' = ItemIndices \cup {{index}}
  BY <1>1 DEF Insert, Put, ItemIndices, MapsAgree
<1>. QED  BY <1>3, <1>4, UnfoldIs DEF Promised!New, Insert

LEMMA BindIsShare ==
    ASSUME MapsAgree, NEW i \in Indices, NEW j \in Indices, Bind(i, j)
    PROVE  Promised!Share(i, j)
<1>. DEFINE uid == index_to_uid[i]
<1>1. uid \in DOMAIN uid_to_value /\ Promised!GroupOf(i) = uid_to_indices[uid]
  BY GroupIs DEF Bind
<1>2. Unfold' = Promised!With(Unfold, {j}, Unfold[i])
  BY DEF Bind, Put, Unfold, Promised!With
<1>3. ItemIndices' = {uid_to_indices[u] : u \in DOMAIN uid_to_value \ {uid}} \cup {uid_to_indices[uid] \cup {j}}
  BY <1>1 DEF Bind, Put, ItemIndices, MapsAgree
<1>4. ItemIndices' = (ItemIndices \ {Promised!GroupOf(i)}) \cup {Promised!GroupOf(i) \cup {j}}
  BY <1>1, <1>3, OtherGroups
<1>. QED  BY <1>2, <1>4, UnfoldIs DEF Promised!Share, Bind

LEMMA WriteIsAssign ==
    ASSUME MapsAgree, NEW index \in Indices, NEW v \in Values, Write(index, v)
    PROVE  Promised!Assign(index, v)
<1>1. /\ index_to_uid[index] \in DOMAIN uid_to_value
      /\ Promised!GroupOf(index) = {j \in DOMAIN index_to_uid : index_to_uid[j] = index_to_uid[index]}
  BY GroupIs DEF Write
<1>2. \A i \in DOMAIN index_to_uid : index_to_uid[i] \in DOMAIN uid_to_value
  BY DEF MapsAgree
<1>3. Unfold' = Promised!With(Unfold, Promised!GroupOf(index), v)
  BY <1>1, <1>2 DEF Write, Put, Unfold, Promised!With
<1>4. ItemIndices' = ItemIndices
  BY <1>1 DEF Write, Put, ItemIndices
<1>. QED  BY <1>3, <1>4, UnfoldIs DEF Promised!Assign, Write

\* What is left of the table when some indices of one value go.
LEMMA RemovalIs ==
    ASSUME MapsAgree, NEW uid \in DOMAIN uid_to_value, NEW gone \in SUBSET uid_to_indices[uid],
           index_to_uid' = Without(index_to_uid, gone),
           gone = uid_to_indices[uid] => uid_to_value' = Without(uid_to_value, {uid}),
           gone # uid_to_indices[uid] => uid_to_value' = uid_to_value /\ uid_to_indices'[uid] = uid_to_indices[uid] \ gone,
           \A u \in DOMAIN uid_to_indices \ {uid} : uid_to_indices'[u] = uid_to_indices[u]
    PROVE  /\ Unfold' = [i \in DOMAIN Unfold \ gone |-> Unfold[i]]
           /\ ItemIndices' = (ItemIndices \ {uid_to_indices[uid]}) \cup ({uid_to_indices[uid] \ gone} \ {{}})
<1>1. uid_to_indices[uid] = {i \in DOMAIN index_to_uid : index_to_uid[i] = uid}
  BY DEF MapsAgree
<1>2. index_to_uid' = [i \in DOMAIN index_to_uid \ gone |-> index_to_uid[i]]
  BY DEF Without
<1>3. DOMAIN uid_to_indices = DOMAIN uid_to_value
  BY DEF MapsAgree
<1>4. CASE gone = uid_to_indices[uid]
  <2>1. uid_to_value' = [u \in DOMAIN uid_to_value \ {uid} |-> uid_to_value[u]]
    BY <1>4 DEF Without
  <2>2. \A i \in DOMAIN index_to_uid \ gone : index_to_uid[i] \in DOMAIN uid_to_value \ {uid}
    BY <1>1, <1>4 DEF MapsAgree
  <2>3. Unfold' = [i \in DOMAIN Unfold \ gone |-> Unfold[i]]
    BY <1>2, <2>1, <2>2 DEF Unfold
  <2>4. ItemIndices' = {uid_to_indices[u] : u \in DOMAIN uid_to_value \ {uid}}
    BY <1>3, <2>1 DEF ItemIndices
  <2>. QED  BY <1>4, <2>3, <2>4, OtherGroups
<1>5. CASE gone # uid_to_indices[uid]
  <2>1. Unfold' = [i \in DOMAIN Unfold \ gone |-> Unfold[i]]
    BY <1>2, <1>5 DEF Unfold
  <2>2. ItemIndices' = {uid_to_indices[u] : u \in DOMAIN uid_to_value \ {uid}} \cup {uid_to_indices[uid] \ gone}
    BY <1>3, <1>5 DEF ItemIndices
  <2>3. uid_to_indices[uid] \ gone # {}
    BY <1>5
  <2>. QED  BY <2>1, <2>2, <2>3, OtherGroups
<1>. QED  BY <1>4, <1>5

LEMMA EraseIsForget ==
    ASSUME MapsAgree, NEW index \in Indices, Erase(index)
    PROVE  Promised!Forget(index)
<1>. DEFINE uid == index_to_uid[index]
            left == uid_to_indices[uid] \ {index}
<1>1. /\ uid \in DOMAIN uid_to_value /\ uid \in DOMAIN uid_to_indices /\ DOMAIN Unfold \subseteq Indices
      /\ Promised!GroupOf(index) = uid_to_indices[uid] /\ index \in uid_to_indices[uid]
  BY GroupIs, UnfoldIs DEF Erase, MapsAgree, MultindexTypeOK
<1>2. index_to_uid' = Without(index_to_uid, {index})
  BY DEF Erase
<1>3. /\ {index} = uid_to_indices[uid] => uid_to_value' = Without(uid_to_value, {uid})
      /\ {index} # uid_to_indices[uid] =>
            uid_to_value' = uid_to_value /\ uid_to_indices'[uid] = uid_to_indices[uid] \ {index}
  <2>1. CASE left = {}
    BY <1>1, <2>1 DEF Erase
  <2>2. CASE left # {}
    <3>1. uid_to_value' = Without(uid_to_value, {}) /\ uid_to_indices' = Without(Put(uid_to_indices, uid, left), {})
      BY <2>2 DEF Erase
    <3>2. uid_to_value' = uid_to_value /\ uid_to_indices'[uid] = left
      BY <3>1 DEF Without, Put, MapsAgree, MultindexTypeOK
    <3>. QED  BY <1>1, <2>2, <3>2
  <2>. QED  BY <2>1, <2>2
<1>4. \A u \in DOMAIN uid_to_indices \ {uid} : uid_to_indices'[u] = uid_to_indices[u]
  BY <1>1 DEF Erase, Without, Put
<1>5. /\ Unfold' = [i \in DOMAIN Unfold \ {index} |-> Unfold[i]]
      /\ ItemIndices' = (ItemIndices \ {uid_to_indices[uid]}) \cup ({left} \ {{}})
  <2>1. {index} \in SUBSET uid_to_indices[uid]
    BY <1>1
  <2>. HIDE DEF uid
  <2>. QED  BY <1>1, <1>2, <1>3, <1>4, <2>1, RemovalIs
<1>6. DOMAIN Unfold \ {index} = DOMAIN Unfold \cap (Indices \ {index})
  BY <1>1
<1>7. Unfold' = Promised!Only(Unfold, Indices \ {index})
  BY <1>5, <1>6 DEF Promised!Only
<1>. QED  BY <1>1, <1>5, <1>7, UnfoldIs DEF Promised!Forget, Erase

LEMMA EraseValueIsDrop ==
    ASSUME MapsAgree, NEW v, EraseValue(v)
    PROVE  \E g \in ItemIndices : Promised!Drop(g)
<1>1. PICK uid \in DOMAIN uid_to_value :
         /\ index_to_uid' = Without(index_to_uid, uid_to_indices[uid])
         /\ uid_to_indices' = Without(uid_to_indices, {uid})
         /\ uid_to_value' = Without(uid_to_value, {uid})
  BY DEF EraseValue
<1>. DEFINE g == uid_to_indices[uid]
<1>2. \A u \in DOMAIN uid_to_indices \ {uid} : uid_to_indices'[u] = uid_to_indices[u]
  BY <1>1 DEF Without
<1>3. /\ Unfold' = [i \in DOMAIN Unfold \ g |-> Unfold[i]]
      /\ ItemIndices' = (ItemIndices \ {g}) \cup ({g \ g} \ {{}})
  BY <1>1, <1>2, RemovalIs
<1>4. g \in ItemIndices /\ DOMAIN Unfold \ g = DOMAIN Unfold \cap (Indices \ g)
  BY UnfoldIs DEF ItemIndices, MapsAgree, MultindexTypeOK
<1>5. Unfold' = Promised!Only(Unfold, Indices \ g)
  BY <1>3, <1>4 DEF Promised!Only
<1>6. ItemIndices' = ItemIndices \ {g}
  BY <1>3
<1>. QED  BY <1>4, <1>5, <1>6 DEF Promised!Drop

LEMMA UniquefyIsKeepOnly ==
    ASSUME MapsAgree, NEW index \in Indices, Uniquefy(index)
    PROVE  Promised!KeepOnly(index)
<1>. DEFINE uid == index_to_uid[index]
            gone == uid_to_indices[uid] \ {index}
<1>1. /\ uid \in DOMAIN uid_to_value /\ uid \in DOMAIN uid_to_indices /\ DOMAIN Unfold \subseteq Indices
      /\ Promised!GroupOf(index) = uid_to_indices[uid] /\ index \in uid_to_indices[uid]
  BY GroupIs, UnfoldIs DEF Uniquefy, MapsAgree, MultindexTypeOK
<1>2. /\ index_to_uid' = Without(index_to_uid, gone)
      /\ uid_to_value' = uid_to_value
      /\ uid_to_indices' = Put(uid_to_indices, uid, {index})
  BY DEF Uniquefy
<1>3. gone \in SUBSET uid_to_indices[uid] /\ gone # uid_to_indices[uid] /\ {index} = uid_to_indices[uid] \ gone
  BY <1>1
<1>4. uid_to_indices'[uid] = {index} /\ \A u \in DOMAIN uid_to_indices \ {uid} : uid_to_indices'[u] = uid_to_indices[u]
  BY <1>1, <1>2 DEF Put
<1>5. /\ Unfold' = [i \in DOMAIN Unfold \ gone |-> Unfold[i]]
      /\ ItemIndices' = (ItemIndices \ {uid_to_indices[uid]}) \cup ({uid_to_indices[uid] \ gone} \ {{}})
  <2>. HIDE DEF uid, gone
  <2>. QED  BY <1>1, <1>2, <1>3, <1>4, RemovalIs
<1>6. DOMAIN Unfold \ gone = DOMAIN Unfold \cap ((Indices \ uid_to_indices[uid]) \cup {index})
  BY <1>1
<1>7. Unfold' = Promised!Only(Unfold, (Indices \ Promised!GroupOf(index)) \cup {index})
  BY <1>1, <1>5, <1>6 DEF Promised!Only
<1>8. ItemIndices' = (ItemIndices \ {Promised!GroupOf(index)}) \cup {{index}}
  BY <1>1, <1>3, <1>5
<1>. QED  BY <1>7, <1>8, UnfoldIs DEF Promised!KeepOnly, Uniquefy

LEMMA ClearIsForgotten == Clear => Promised!Forgotten
  BY DEF Clear, Unfold, ItemIndices, Empty, Promised!Forgotten

LEMMA TableInit == MultindexInit => Promised!AliasesInit
  BY DEF MultindexInit, Unfold, ItemIndices, Empty, Promised!AliasesInit

LEMMA TableStep ==
    MapsAgree /\ [MultindexNext]_multindexVars => [Promised!AliasesNext]_<<Unfold, ItemIndices>>
<1> SUFFICES ASSUME MapsAgree, [MultindexNext]_multindexVars
             PROVE  [Promised!AliasesNext]_<<Unfold, ItemIndices>>
  OBVIOUS
<1>1. CASE UNCHANGED multindexVars
  BY <1>1 DEF multindexVars, Unfold, ItemIndices
<1>2. ASSUME NEW index \in Indices, Erase(index)
      PROVE  Promised!AliasesNext
  BY <1>2, EraseIsForget DEF Promised!AliasesNext
<1>3. ASSUME NEW v, EraseValue(v)
      PROVE  Promised!AliasesNext
  BY <1>3, EraseValueIsDrop DEF Promised!AliasesNext
<1>4. ASSUME NEW index \in Indices, Uniquefy(index)
      PROVE  Promised!AliasesNext
  BY <1>4, UniquefyIsKeepOnly DEF Promised!AliasesNext
<1>5. ASSUME NEW index \in Indices, NEW v \in Values, Insert(index, v)
      PROVE  Promised!AliasesNext
  BY <1>5, InsertIsNew DEF Promised!AliasesNext
<1>6. ASSUME NEW index \in Indices, NEW v \in Values, Write(index, v)
      PROVE  Promised!AliasesNext
  BY <1>6, WriteIsAssign DEF Promised!AliasesNext
<1>7. ASSUME NEW i \in Indices, NEW j \in Indices, Bind(i, j)
      PROVE  Promised!AliasesNext
  BY <1>7, BindIsShare DEF Promised!AliasesNext
<1>8. CASE Clear
  BY <1>8, ClearIsForgotten DEF Promised!AliasesNext
<1>. QED  BY <1>1, <1>2, <1>3, <1>4, <1>5, <1>6, <1>7, <1>8 DEF MultindexNext, EraseValueByIndex

\* multindex implements Aliases: seen through unfold() and items(), each call makes
\* one index, shares, forgets, drops or assigns, and touches no index it does not
\* name; in particular a value that is equal to another one is never taken for it,
\* except by erase_value(), which drops one of them.
THEOREM TableIsOfAliases == MultindexSpec => KeepsAliases
<1>1. MultindexInit => Promised!AliasesInit
  BY TableInit
<1>2. MapsAgree /\ [MultindexNext]_multindexVars => [Promised!AliasesNext]_<<Unfold, ItemIndices>>
  BY TableStep
<1>. QED  BY <1>1, <1>2, MapsStayInStep, PTL DEF MultindexSpec, KeepsAliases
=============================================================================
