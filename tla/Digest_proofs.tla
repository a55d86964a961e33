--------------------------- MODULE Digest_proofs ---------------------------
(***************************************************************************)
(* For blocks, lengths and digests of any size and messages of any bytes:  *)
(* digests are those of the standard, however the message was cut, and     *)
(* tags are equal only for equal messages and equal keys.                  *)
(***************************************************************************)
EXTENDS Digest, SequenceTheorems, WellFoundedInduction, TLAPS

-----------------------------------------------------------------------------
(* Sequences of anything. *)

IsSequence(s) == \E S : s \in Seq(S)

\* A sequence is the function of its elements.
LEMMA LengthOf == ASSUME NEW s, IsSequence(s)
                  PROVE  Len(s) \in Nat /\ DOMAIN s = 1..Len(s) /\ s = [i \in 1..Len(s) |-> s[i]]
BY DEF IsSequence

\* Sequences of one length with the same elements are one.
LEMMA Alike ==
    ASSUME NEW x, NEW y, IsSequence(x), IsSequence(y), Len(x) = Len(y),
           \A i \in 1..Len(x) : x[i] = y[i]
    PROVE  x = y
BY LengthOf

\* A function on 1..n is a sequence.
LEMMA MakeIs ==
    ASSUME NEW n \in Nat, NEW s, s = [i \in 1..n |-> s[i]]
    PROVE  IsSequence(s) /\ Len(s) = n
<1>1. s \in [1..n -> {s[i] : i \in 1..n}]
  OBVIOUS
<1>2. s \in Seq({s[i] : i \in 1..n})
  BY <1>1
<1>3. \A T : \A f \in [1..n -> T] : Len(f) = n
  OBVIOUS
<1>. QED  BY <1>1, <1>2, <1>3 DEF IsSequence

\* Two sequences have a common set of elements.
LEMMA Common ==
    ASSUME NEW x, NEW y, IsSequence(x), IsSequence(y)
    PROVE  \E S : x \in Seq(S) /\ y \in Seq(S)
<1>1. PICK S, T : x \in Seq(S) /\ y \in Seq(T)
  BY DEF IsSequence
<1>2. x \in Seq(S \cup T) /\ y \in Seq(S \cup T)
  BY <1>1
<1>. QED  BY <1>2

\* The elements of a join.
LEMMA JoinIs ==
    ASSUME NEW x, NEW y, IsSequence(x), IsSequence(y)
    PROVE  /\ IsSequence(x \o y) /\ Len(x \o y) = Len(x) + Len(y)
           /\ \A i \in 1..Len(x) : (x \o y)[i] = x[i]
           /\ \A i \in 1..Len(y) : (x \o y)[Len(x) + i] = y[i]
           /\ \A i \in 1..(Len(x) + Len(y)) : (x \o y)[i] = IF i <= Len(x) THEN x[i] ELSE y[i - Len(x)]
<1>1. PICK S : x \in Seq(S) /\ y \in Seq(S)
  BY Common
<1>2. Len(x) \in Nat /\ Len(y) \in Nat
  BY LengthOf
<1>3. x \o y \in Seq(S) /\ Len(x \o y) = Len(x) + Len(y)
      /\ \A i \in 1..(Len(x) + Len(y)) : (x \o y)[i] = IF i <= Len(x) THEN x[i] ELSE y[i - Len(x)]
  BY <1>1, ConcatProperties
<1>4. \A i \in 1..Len(x) : (x \o y)[i] = x[i]
  BY <1>2, <1>3
<1>5. \A i \in 1..Len(y) : (x \o y)[Len(x) + i] = y[i]
  <2>. TAKE i \in 1..Len(y)
  <2>1. Len(x) + i \in 1..(Len(x) + Len(y)) /\ ~(Len(x) + i <= Len(x)) /\ (Len(x) + i) - Len(x) = i
    BY <1>2
  <2>. QED  BY <1>3, <2>1
<1>. QED  BY <1>3, <1>4, <1>5 DEF IsSequence

\* The elements of a part.
LEMMA PartIs ==
    ASSUME NEW x, IsSequence(x), NEW m \in Nat, NEW n \in Nat, m <= n, n <= Len(x)
    PROVE  /\ IsSequence(SubSeq(x, m + 1, n)) /\ Len(SubSeq(x, m + 1, n)) = n - m
           /\ \A i \in 1..(n - m) : SubSeq(x, m + 1, n)[i] = x[m + i]
<1>1. PICK S : x \in Seq(S)
  BY DEF IsSequence
<1>2. \A i \in (m + 1)..n : x[i] \in S
  BY <1>1
<1>3. SubSeq(x, m + 1, n) \in Seq(S) /\ Len(SubSeq(x, m + 1, n)) = n - m
      /\ \A i \in 1..(n - m) : SubSeq(x, m + 1, n)[i] = x[m + i]
  BY <1>1, <1>2
<1>. QED  BY <1>3 DEF IsSequence

\* Joining is associative.
Associates(x, y, z) == (x \o y) \o z = x \o (y \o z)
LEMMA JoinsAreSame ==
    ASSUME NEW x, NEW y, NEW z, IsSequence(x), IsSequence(y), IsSequence(z)
    PROVE  Associates(x, y, z)
<1>1. PICK S : x \o y \in Seq(S) /\ z \in Seq(S)
  BY JoinIs, Common
<1>2. /\ Len(x) \in Nat /\ Len(y) \in Nat /\ Len(z) \in Nat
      /\ IsSequence(x \o y) /\ IsSequence(y \o z)
      /\ Len(x \o y) = Len(x) + Len(y) /\ Len(y \o z) = Len(y) + Len(z)
  BY JoinIs, LengthOf
<1>. DEFINE l == (x \o y) \o z
            r == x \o (y \o z)
<1>3. /\ IsSequence(l) /\ IsSequence(r)
      /\ Len(l) = Len(x) + Len(y) + Len(z) /\ Len(r) = Len(x) + Len(y) + Len(z)
  BY <1>2, JoinIs
<1>4. ASSUME NEW i \in 1..Len(l) PROVE l[i] = r[i]
  <2>1. CASE i <= Len(x)
    <3>1. i \in 1..Len(x) /\ i \in 1..Len(x \o y)
      BY <1>2, <1>3, <2>1
    <3>2. l[i] = (x \o y)[i]
      BY <1>2, <3>1, JoinIs
    <3>3. (x \o y)[i] = x[i]
      BY <3>1, JoinIs
    <3>4. r[i] = x[i]
      BY <1>2, <3>1, JoinIs
    <3>. QED  BY <3>2, <3>3, <3>4
  <2>2. CASE i > Len(x) /\ i <= Len(x) + Len(y)
    <3>1. PICK j \in 1..Len(y) : i = Len(x) + j
      <4>1. i - Len(x) \in 1..Len(y) /\ i = Len(x) + (i - Len(x))
        BY <1>2, <1>3, <2>2
      <4>. QED  BY <4>1
    <3>2. i \in 1..Len(x \o y) /\ j \in 1..Len(y \o z)
      BY <1>2, <1>3, <2>2, <3>1
    <3>3. l[i] = (x \o y)[i]
      BY <1>2, <3>2, JoinIs
    <3>4. (x \o y)[i] = y[j]
      BY <3>1, JoinIs
    <3>5. r[i] = (y \o z)[j]
      BY <1>2, <3>1, <3>2, JoinIs
    <3>6. (y \o z)[j] = y[j]
      BY <3>1, JoinIs
    <3>. QED  BY <3>3, <3>4, <3>5, <3>6
  <2>3. CASE i > Len(x) + Len(y)
    <3>1. PICK j \in 1..Len(z) : i = Len(x) + Len(y) + j
      <4>1. i - (Len(x) + Len(y)) \in 1..Len(z) /\ i = Len(x) + Len(y) + (i - (Len(x) + Len(y)))
        BY <1>2, <1>3, <2>3
      <4>. QED  BY <4>1
    <3>2. Len(y) + j \in 1..Len(y \o z) /\ i = Len(x) + (Len(y) + j) /\ i = Len(x \o y) + j
      BY <1>2, <3>1
    <3>3. l[i] = z[j]
      BY <1>2, <3>1, <3>2, JoinIs
    <3>4. r[i] = (y \o z)[Len(y) + j]
      BY <1>2, <3>2, JoinIs
    <3>5. (y \o z)[Len(y) + j] = z[j]
      BY <3>1, JoinIs
    <3>. QED  BY <3>3, <3>4, <3>5
  <2>. QED  BY <1>2, <1>3, <2>1, <2>2, <2>3
<1>. QED  BY <1>3, <1>4, Alike DEF Associates

\* <<>> is a sequence.
LEMMA EmptyIs == IsSequence(<<>>) /\ Len(<<>>) = 0
BY MakeIs, EmptySeq DEF IsSequence

\* No other has no elements.
LEMMA OnlyEmpty == ASSUME NEW x, IsSequence(x), Len(x) = 0 PROVE x = <<>>
BY EmptyIs, Alike

\* Joining <<>> changes nothing.
LEMMA EmptyJoins == ASSUME NEW x, IsSequence(x) PROVE x \o <<>> = x /\ <<>> \o x = x
<1>1. PICK S : x \in Seq(S)
  BY DEF IsSequence
<1>. QED  BY <1>1, ConcatEmptySeq

\* One element is a sequence.
LEMMA SingleIs == ASSUME NEW a PROVE IsSequence(<<a>>) /\ Len(<<a>>) = 1 /\ <<a>>[1] = a
<1>1. <<a>> \in Seq({a})
  OBVIOUS
<1>. QED  BY <1>1 DEF IsSequence

\* Appending is joining one element.
LEMMA AppendIs == ASSUME NEW x, IsSequence(x), NEW a PROVE Append(x, a) = x \o <<a>>
<1>1. PICK S : x \in Seq(S)
  BY DEF IsSequence
<1>2. x \in Seq(S \cup {a}) /\ a \in S \cup {a}
  BY <1>1
<1>. QED  BY <1>2

\* A sequence is what is taken of it and what is dropped.
LEMMA CutIs ==
    ASSUME NEW x, IsSequence(x), NEW n \in 0..Len(x)
    PROVE  /\ IsSequence(Taken(x, n)) /\ Len(Taken(x, n)) = n
           /\ IsSequence(Dropped(x, n)) /\ Len(Dropped(x, n)) = Len(x) - n
           /\ Taken(x, n) \o Dropped(x, n) = x
           /\ \A i \in 1..n : Taken(x, n)[i] = x[i]
           /\ \A i \in 1..(Len(x) - n) : Dropped(x, n)[i] = x[n + i]
<1>1. Len(x) \in Nat /\ n \in Nat
  BY LengthOf
<1>2. IsSequence(Taken(x, n)) /\ Len(Taken(x, n)) = n /\ \A i \in 1..n : Taken(x, n)[i] = x[i]
  <2>1. SubSeq(x, 1, n) = SubSeq(x, 0 + 1, n) /\ n - 0 = n /\ 0 <= n /\ n <= Len(x) /\ 0 \in Nat
    BY <1>1
  <2>2. /\ IsSequence(SubSeq(x, 0 + 1, n)) /\ Len(SubSeq(x, 0 + 1, n)) = n - 0
        /\ \A i \in 1..(n - 0) : SubSeq(x, 0 + 1, n)[i] = x[0 + i]
    BY <1>1, <2>1, PartIs
  <2>3. \A i \in 1..n : 0 + i = i
    BY <1>1
  <2>. QED  BY <2>1, <2>2, <2>3 DEF Taken
<1>3. IsSequence(Dropped(x, n)) /\ Len(Dropped(x, n)) = Len(x) - n
      /\ \A i \in 1..(Len(x) - n) : Dropped(x, n)[i] = x[n + i]
  BY <1>1, PartIs DEF Dropped
<1>4. Taken(x, n) \o Dropped(x, n) = x
  <2>. DEFINE t == Taken(x, n)
              d == Dropped(x, n)
  <2>1. /\ IsSequence(t) /\ Len(t) = n /\ \A i \in 1..n : t[i] = x[i]
        /\ IsSequence(d) /\ Len(d) = Len(x) - n /\ \A i \in 1..(Len(x) - n) : d[i] = x[n + i]
    BY <1>2, <1>3
  <2>. HIDE DEF t, d
  <2>2. IsSequence(t \o d) /\ Len(t \o d) = Len(x)
    BY <1>1, <2>1, JoinIs
  <2>3. ASSUME NEW i \in 1..Len(x) PROVE (t \o d)[i] = x[i]
    <3>1. (t \o d)[i] = IF i <= n THEN t[i] ELSE d[i - n]
      <4>1. i \in 1..(Len(t) + Len(d))
        BY <1>1, <2>1
      <4>. QED  BY <2>1, <4>1, JoinIs
    <3>2. CASE i <= n
      BY <1>1, <2>1, <3>1, <3>2
    <3>3. CASE ~(i <= n)
      <4>1. i - n \in 1..(Len(x) - n) /\ n + (i - n) = i
        BY <1>1, <3>3
      <4>. QED  BY <2>1, <3>1, <3>3, <4>1
    <3>. QED  BY <3>2, <3>3
  <2>. QED  BY <2>2, <2>3, Alike DEF t, d
<1>. QED  BY <1>2, <1>3, <1>4

\* Cutting a join where it was joined.
LEMMA CutJoin ==
    ASSUME NEW x, NEW y, IsSequence(x), IsSequence(y)
    PROVE  Taken(x \o y, Len(x)) = x /\ Dropped(x \o y, Len(x)) = y
<1>0. Len(x) \in Nat /\ Len(y) \in Nat
  BY LengthOf
<1>1. /\ Len(x) \in Nat /\ Len(y) \in Nat /\ IsSequence(x \o y) /\ Len(x \o y) = Len(x) + Len(y)
      /\ \A i \in 1..Len(x) : (x \o y)[i] = x[i]
      /\ \A i \in 1..Len(y) : (x \o y)[Len(x) + i] = y[i]
  BY <1>0, JoinIs
<1>. DEFINE n == Len(x)
            z == x \o y
<1>2. n \in 0..Len(z) /\ Len(z) - n = Len(y)
  BY <1>1
<1>. HIDE DEF n, z
<1>3. /\ IsSequence(Taken(z, n)) /\ Len(Taken(z, n)) = n
      /\ IsSequence(Dropped(z, n)) /\ Len(Dropped(z, n)) = Len(y)
      /\ \A i \in 1..n : Taken(z, n)[i] = z[i]
      /\ \A i \in 1..Len(y) : Dropped(z, n)[i] = z[n + i]
  <2>1. IsSequence(z)
    BY <1>1 DEF z
  <2>2. \A m \in 0..Len(z) :
          /\ IsSequence(Taken(z, m)) /\ Len(Taken(z, m)) = m
          /\ IsSequence(Dropped(z, m)) /\ Len(Dropped(z, m)) = Len(z) - m
          /\ \A i \in 1..m : Taken(z, m)[i] = z[i]
          /\ \A i \in 1..(Len(z) - m) : Dropped(z, m)[i] = z[m + i]
    BY <2>1, CutIs
  <2>. QED  BY <1>2, <2>2
<1>4. \A i \in 1..n : z[i] = x[i]
  BY <1>1 DEF n, z
<1>5. \A i \in 1..Len(y) : z[n + i] = y[i]
  BY <1>1 DEF n, z
<1>6. Taken(z, n) = x
  BY <1>3, <1>4, Alike DEF n
<1>7. Dropped(z, n) = y
  BY <1>3, <1>5, Alike
<1>. QED  BY <1>6, <1>7 DEF n, z

-----------------------------------------------------------------------------
(* Blocks. *)

B == BlockSize
Blocks(x) == [i \in 1..(Len(x) \div B) |-> SubSeq(x, (i - 1) * B + 1, i * B)]
Unfinished(x) == Dropped(x, (Len(x) \div B) * B)

\* What BlockAssumption says of the sizes.
LEMMA Sizes == /\ B \in Nat \ {0} /\ B = BlockSize /\ LengthSize \in Nat \ {0} /\ LengthSize + 2 <= B
               /\ ResultSize \in Nat \ {0} /\ ResultSize <= B
BY BlockAssumption DEF B

\* Every length is whole blocks and a rest.
LEMMA Division ==
    ASSUME NEW n \in Nat
    PROVE  \E q \in Nat : \E r \in 0..(B - 1) : n = q * B + r /\ n \div B = q /\ n % B = r
<1>1. n \div B \in Nat /\ (n % B) \in 0..(B - 1) /\ n = (n \div B) * B + (n % B)
  BY Sizes
<1>. QED  BY <1>1

\* There is one way to write it so.
LEMMA Quotient ==
    ASSUME NEW q \in Nat, NEW r \in 0..(B - 1)
    PROVE  (q * B + r) \div B = q /\ (q * B + r) % B = r /\ q * B \in Nat
BY Sizes

\* Where a block begins and ends.
LEMMA BlockPlace ==
    ASSUME NEW q \in Nat, NEW i \in 1..q
    PROVE  /\ (i - 1) * B \in Nat /\ i * B \in Nat /\ i * B = (i - 1) * B + B /\ i * B <= q * B
<1>1. i - 1 \in Nat /\ q - i \in Nat /\ B \in Nat /\ i \in Nat
  BY Sizes
<1>2. (i - 1) * B \in Nat /\ (q - i) * B \in Nat /\ i * B \in Nat /\ q * B \in Nat
  BY <1>1
<1>3. i * B = (i - 1) * B + B
  BY <1>1
<1>4. q * B = i * B + (q - i) * B
  BY <1>1
<1>. QED  BY <1>2, <1>3, <1>4

\* x has q blocks, and r bytes are left.
CutUp(x, q, r) ==
    /\ IsSequence(Blocks(x)) /\ Len(Blocks(x)) = q
    /\ \A i \in 1..q : /\ IsSequence(Blocks(x)[i]) /\ Len(Blocks(x)[i]) = B
                       /\ \A j \in 1..B : Blocks(x)[i][j] = x[(i - 1) * B + j]
    /\ Unfinished(x) = Dropped(x, q * B)
    /\ IsSequence(Unfinished(x)) /\ Len(Unfinished(x)) = r
    /\ IsSequence(Taken(x, q * B)) /\ Len(Taken(x, q * B)) = q * B
    /\ Taken(x, q * B) \o Unfinished(x) = x

\* What Blocks and Unfinished are, by the length.
LEMMA BlocksAre ==
    ASSUME NEW x, IsSequence(x), NEW q \in Nat, NEW r \in 0..(B - 1), Len(x) = q * B + r
    PROVE  CutUp(x, q, r)
<1>1. Len(x) \div B = q /\ q * B \in Nat /\ B \in Nat
  BY Quotient, Sizes
<1>2. Blocks(x) = [i \in 1..q |-> SubSeq(x, (i - 1) * B + 1, i * B)]
  BY <1>1 DEF Blocks
<1>3. IsSequence(Blocks(x)) /\ Len(Blocks(x)) = q
  BY <1>2, MakeIs
<1>4. ASSUME NEW i \in 1..q
      PROVE  /\ IsSequence(Blocks(x)[i]) /\ Len(Blocks(x)[i]) = B
             /\ \A j \in 1..B : Blocks(x)[i][j] = x[(i - 1) * B + j]
  <2>1. /\ (i - 1) * B \in Nat /\ i * B \in Nat /\ i * B = (i - 1) * B + B /\ i * B <= q * B
    BY BlockPlace
  <2>. DEFINE m == (i - 1) * B
              n == i * B
  <2>2. m \in Nat /\ n \in Nat /\ m <= n /\ n <= Len(x) /\ n - m = B
    BY <1>1, <2>1
  <2>3. Blocks(x)[i] = SubSeq(x, m + 1, n)
    BY <1>2
  <2>. HIDE DEF m, n
  <2>4. /\ IsSequence(SubSeq(x, m + 1, n)) /\ Len(SubSeq(x, m + 1, n)) = B
        /\ \A j \in 1..B : SubSeq(x, m + 1, n)[j] = x[m + j]
    BY <2>2, PartIs
  <2>. QED  BY <2>3, <2>4 DEF m
<1>5. Unfinished(x) = Dropped(x, q * B)
  BY <1>1 DEF Unfinished
<1>6. q * B \in 0..Len(x) /\ Len(x) - q * B = r
  BY <1>1
<1>. DEFINE n == q * B
<1>7. n \in 0..Len(x) /\ Len(x) - n = r /\ Unfinished(x) = Dropped(x, n)
  BY <1>5, <1>6
<1>. HIDE DEF n
<1>8. /\ IsSequence(Taken(x, n)) /\ Len(Taken(x, n)) = n
      /\ IsSequence(Dropped(x, n)) /\ Len(Dropped(x, n)) = r
      /\ Taken(x, n) \o Dropped(x, n) = x
  BY <1>7, CutIs
<1>. QED  BY <1>3, <1>4, <1>5, <1>7, <1>8 DEF n, CutUp

\* What follows whole blocks is cut as if it stood alone.
LEMMA BlocksJoin ==
    ASSUME NEW x, NEW y, IsSequence(x), IsSequence(y), NEW p \in Nat, Len(x) = p * B
    PROVE  Blocks(x \o y) = Blocks(x) \o Blocks(y) /\ Unfinished(x \o y) = Unfinished(y)
<1>0. B \in Nat \ {0} /\ Len(y) \in Nat /\ p * B \in Nat
  BY Sizes, LengthOf
<1>1. PICK q \in Nat, r \in 0..(B - 1) : Len(y) = q * B + r
  <2>1. \E q \in Nat : \E r \in 0..(B - 1) : Len(y) = q * B + r /\ Len(y) \div B = q /\ Len(y) % B = r
    BY <1>0, Division
  <2>. QED  BY <2>1
<1>. DEFINE z == x \o y
<1>2. /\ IsSequence(z) /\ Len(z) = p * B + Len(y)
      /\ \A i \in 1..(p * B) : z[i] = x[i]
      /\ \A i \in 1..Len(y) : z[p * B + i] = y[i]
  BY JoinIs
<1>. HIDE DEF z
<1>3. Len(z) = (p + q) * B + r /\ p + q \in Nat
  <2>1. (p + q) * B = p * B + q * B /\ q * B \in Nat
    BY <1>0
  <2>. QED  BY <1>0, <1>1, <1>2, <2>1
<1>4. /\ IsSequence(Blocks(z)) /\ Len(Blocks(z)) = p + q
      /\ \A i \in 1..(p + q) : /\ IsSequence(Blocks(z)[i]) /\ Len(Blocks(z)[i]) = B
                               /\ \A j \in 1..B : Blocks(z)[i][j] = z[(i - 1) * B + j]
      /\ IsSequence(Unfinished(z)) /\ Len(Unfinished(z)) = r
      /\ Unfinished(z) = Dropped(z, (p + q) * B)
  <2>1. CutUp(z, p + q, r)
    BY <1>2, <1>3, BlocksAre
  <2>. QED  BY <2>1 DEF CutUp
<1>5. /\ IsSequence(Blocks(y)) /\ Len(Blocks(y)) = q
      /\ \A i \in 1..q : /\ IsSequence(Blocks(y)[i]) /\ Len(Blocks(y)[i]) = B
                         /\ \A j \in 1..B : Blocks(y)[i][j] = y[(i - 1) * B + j]
      /\ IsSequence(Unfinished(y)) /\ Len(Unfinished(y)) = r
      /\ Unfinished(y) = Dropped(y, q * B)
  <2>1. CutUp(y, q, r)
    BY <1>1, BlocksAre
  <2>. QED  BY <2>1 DEF CutUp
<1>6. /\ IsSequence(Blocks(x)) /\ Len(Blocks(x)) = p
      /\ \A i \in 1..p : /\ IsSequence(Blocks(x)[i]) /\ Len(Blocks(x)[i]) = B
                         /\ \A j \in 1..B : Blocks(x)[i][j] = x[(i - 1) * B + j]
  <2>1. Len(x) = p * B + 0 /\ 0 \in 0..(B - 1)
    BY <1>0
  <2>2. CutUp(x, p, 0)
    BY <2>1, BlocksAre
  <2>. QED  BY <2>2 DEF CutUp
<1>7. IsSequence(Blocks(x) \o Blocks(y)) /\ Len(Blocks(x) \o Blocks(y)) = p + q
  BY <1>5, <1>6, JoinIs
<1>8. ASSUME NEW i \in 1..p PROVE Blocks(z)[i] = Blocks(x)[i]
  <2>1. /\ (i - 1) * B \in Nat /\ i * B = (i - 1) * B + B /\ i * B <= p * B /\ i \in 1..(p + q)
    BY BlockPlace
  <2>2. ASSUME NEW j \in 1..B PROVE Blocks(z)[i][j] = Blocks(x)[i][j]
    <3>1. (i - 1) * B + j \in 1..(p * B)
      BY <1>0, <2>1
    <3>2. z[(i - 1) * B + j] = x[(i - 1) * B + j]
      BY <1>2, <3>1
    <3>. QED  BY <1>4, <1>6, <2>1, <3>2
  <2>. QED  BY <1>4, <1>6, <2>1, <2>2, Alike
<1>9. ASSUME NEW i \in 1..q PROVE Blocks(z)[p + i] = Blocks(y)[i]
  <2>1. /\ (i - 1) * B \in Nat /\ i * B = (i - 1) * B + B /\ i * B <= q * B /\ p + i \in 1..(p + q)
    BY BlockPlace
  <2>2. ((p + i) - 1) * B = p * B + (i - 1) * B
    BY <1>0
  <2>3. ASSUME NEW j \in 1..B PROVE Blocks(z)[p + i][j] = Blocks(y)[i][j]
    <3>0. q * B \in Nat /\ q * B <= Len(y)
      BY <1>0, <1>1
    <3>1. (i - 1) * B + j \in 1..Len(y)
      BY <1>0, <2>1, <3>0
    <3>2. z[p * B + ((i - 1) * B + j)] = y[(i - 1) * B + j]
      BY <1>2, <3>1
    <3>3. p * B + ((i - 1) * B + j) = ((p + i) - 1) * B + j
      BY <1>0, <2>1, <2>2
    <3>4. Blocks(z)[p + i][j] = z[((p + i) - 1) * B + j]
      BY <1>4, <2>1
    <3>5. Blocks(y)[i][j] = y[(i - 1) * B + j]
      BY <1>5
    <3>. QED  BY <3>2, <3>3, <3>4, <3>5
  <2>4. IsSequence(Blocks(z)[p + i]) /\ Len(Blocks(z)[p + i]) = B
    BY <1>4, <2>1
  <2>5. IsSequence(Blocks(y)[i]) /\ Len(Blocks(y)[i]) = B
    BY <1>5
  <2>6. PICK f, g : f = Blocks(z)[p + i] /\ g = Blocks(y)[i]
    OBVIOUS
  <2>7. IsSequence(f) /\ IsSequence(g) /\ Len(f) = B /\ Len(g) = B /\ \A j \in 1..B : f[j] = g[j]
    BY ONLY <2>3, <2>4, <2>5, <2>6
  <2>8. f = g
    BY ONLY <2>7, Alike
  <2>. QED  BY ONLY <2>6, <2>8
<1>10. Blocks(z) = Blocks(x) \o Blocks(y)
  <2>1. ASSUME NEW i \in 1..(p + q) PROVE Blocks(z)[i] = (Blocks(x) \o Blocks(y))[i]
    <3>1. CASE i <= p
      <4>1. i \in 1..p
        BY <3>1
      <4>. QED  BY <1>5, <1>6, <1>8, <4>1, JoinIs
    <3>2. CASE i > p
      <4>1. i - p \in 1..q /\ p + (i - p) = i
        BY <3>2
      <4>2. PICK k \in 1..q : i = p + k
        BY <4>1
      <4>3. (Blocks(x) \o Blocks(y))[p + k] = Blocks(y)[k]
        BY <1>5, <1>6, JoinIs
      <4>. QED  BY <1>9, <4>2, <4>3
    <3>3. i <= p \/ i > p
      OBVIOUS
    <3>. QED  BY <3>1, <3>2, <3>3
  <2>. QED  BY <1>4, <1>7, <2>1, Alike
<1>11. Unfinished(z) = Unfinished(y)
  <2>1. ASSUME NEW i \in 1..r PROVE Unfinished(z)[i] = Unfinished(y)[i]
    <3>0. q * B \in Nat /\ (p + q) * B \in Nat /\ (p + q) * B = p * B + q * B
      BY <1>0
    <3>1. (p + q) * B \in 0..Len(z) /\ Len(z) - (p + q) * B = r
      BY <1>3, <3>0
    <3>2. q * B \in 0..Len(y) /\ Len(y) - q * B = r
      BY <1>1, <3>0
    <3>3. Dropped(z, (p + q) * B)[i] = z[(p + q) * B + i]
      BY <1>2, <3>1, CutIs
    <3>4. Dropped(y, q * B)[i] = y[q * B + i]
      BY <3>2, CutIs
    <3>5. q * B + i \in 1..Len(y)
      BY <1>0, <1>1, <3>0
    <3>6. z[p * B + (q * B + i)] = y[q * B + i] /\ p * B + (q * B + i) = (p + q) * B + i
      BY <1>0, <1>2, <3>0, <3>5
    <3>. QED  BY <1>4, <1>5, <3>3, <3>4, <3>6
  <2>. QED  BY <1>4, <1>5, <2>1, Alike
<1>. QED  BY <1>10, <1>11 DEF z

\* Just one block.
LEMMA OneBlock ==
    ASSUME NEW x, IsSequence(x), Len(x) = B
    PROVE  Blocks(x) = <<x>> /\ Unfinished(x) = <<>>
<1>1. Len(x) = 1 * B + 0 /\ 0 \in 0..(B - 1) /\ 1 \in Nat /\ (1 - 1) * B = 0 /\ B \in Nat
  BY Sizes
<1>2. /\ IsSequence(Blocks(x)) /\ Len(Blocks(x)) = 1
      /\ \A i \in 1..1 : /\ IsSequence(Blocks(x)[i]) /\ Len(Blocks(x)[i]) = B
                         /\ \A j \in 1..B : Blocks(x)[i][j] = x[(i - 1) * B + j]
      /\ IsSequence(Unfinished(x)) /\ Len(Unfinished(x)) = 0
  <2>1. CutUp(x, 1, 0)
    BY <1>1, BlocksAre
  <2>. QED  BY <2>1 DEF CutUp
<1>3. Blocks(x)[1] = x
  <2>1. \A j \in 1..B : Blocks(x)[1][j] = x[j]
    BY <1>1, <1>2
  <2>. QED  BY <1>2, <2>1, Alike
<1>4. Blocks(x) = <<x>>
  <2>1. IsSequence(<<x>>) /\ Len(<<x>>) = 1 /\ <<x>>[1] = x
    BY SingleIs
  <2>2. \A i \in 1..1 : Blocks(x)[i] = <<x>>[i]
    BY <1>3, <2>1
  <2>. QED  BY <1>2, <2>1, <2>2, Alike
<1>. QED  BY <1>2, <1>4, OnlyEmpty

\* Less than a block.
LEMMA NoBlock ==
    ASSUME NEW x, IsSequence(x), Len(x) < B
    PROVE  Blocks(x) = <<>> /\ Unfinished(x) = x
<1>1. Len(x) = 0 * B + Len(x) /\ Len(x) \in 0..(B - 1) /\ 0 * B = 0
  BY Sizes, LengthOf
<1>2. /\ IsSequence(Blocks(x)) /\ Len(Blocks(x)) = 0
      /\ IsSequence(Taken(x, 0 * B)) /\ Len(Taken(x, 0 * B)) = 0 * B
      /\ IsSequence(Unfinished(x))
      /\ Taken(x, 0 * B) \o Unfinished(x) = x
  <2>. DEFINE r == Len(x)
  <2>1. r \in 0..(B - 1) /\ Len(x) = 0 * B + r /\ 0 \in Nat
    BY <1>1
  <2>. HIDE DEF r
  <2>2. CutUp(x, 0, r)
    BY <2>1, BlocksAre
  <2>. QED  BY <2>2 DEF CutUp
<1>3. Taken(x, 0 * B) = <<>>
  BY <1>1, <1>2, OnlyEmpty
<1>. QED  BY <1>2, <1>3, OnlyEmpty, EmptyJoins

\* Both are sequences.
LEMMA WholeBlocks == ASSUME NEW x, IsSequence(x) PROVE IsSequence(Blocks(x)) /\ IsSequence(Unfinished(x))
<1>1. PICK q \in Nat, r \in 0..(B - 1) : Len(x) = q * B + r
  <2>1. \E q \in Nat : \E r \in 0..(B - 1) : Len(x) = q * B + r /\ Len(x) \div B = q /\ Len(x) % B = r
    BY LengthOf, Division
  <2>. QED  BY <2>1
<1>2. CutUp(x, q, r)
  BY <1>1, BlocksAre
<1>. QED  BY <1>2 DEF CutUp

-----------------------------------------------------------------------------
(* What a stream is after it has been fed m, however m was cut. *)

Stream(p, blocks, rest, n) == [of |-> p, state |-> blocks, buffer |-> rest, bits |-> n]
Fed(p, m) == IF p = "crc32" THEN Stream(p, m, <<>>, 0)
             ELSE Stream(p, Blocks(m), Unfinished(m), 8 * Len(m))

\* Absorb() keeps whole blocks and buffers the rest.
LEMMA AbsorbIs ==
    ASSUME NEW p, NEW s, NEW u, NEW n, NEW y
    PROVE  Absorb(Stream(p, s, u, n), y) = Stream(p, s \o Blocks(y), u \o Unfinished(y), n)
<1>. DEFINE h == Stream(p, s, u, n)
<1>1. h.state = s /\ h.buffer = u /\ h.of = p /\ h.bits = n
  BY DEF Stream
<1>2. Absorb(h, y) = [h EXCEPT !.state = s \o Blocks(y), !.buffer = u \o Unfinished(y)]
  BY <1>1 DEF Absorb, Blocks, Unfinished, B
<1>. QED  BY <1>2 DEF Stream

SetBoth(h, v, t) == [h EXCEPT !.buffer = v, !.state = t]
SetState(h, t) == [h EXCEPT !.state = t]

\* Setting fields of a stream.
LEMMA StreamSet ==
    ASSUME NEW p, NEW s, NEW u, NEW n, NEW t, NEW v
    PROVE  /\ SetBoth(Stream(p, s, u, n), v, t) = Stream(p, t, v, n)
           /\ SetState(Stream(p, s, u, n), t) = Stream(p, t, u, n)
<1>1. [Stream(p, s, u, n) EXCEPT !.state = t] = Stream(p, t, u, n)
  BY DEF Stream
<1>2. [Stream(p, s, u, n) EXCEPT !.buffer = v] = Stream(p, s, v, n)
  BY DEF Stream
<1>3. [Stream(p, s, v, n) EXCEPT !.state = t] = Stream(p, t, v, n)
  BY DEF Stream
<1>5. [Stream(p, s, u, n) EXCEPT !.buffer = v, !.state = t] = [[Stream(p, s, u, n) EXCEPT !.buffer = v] EXCEPT !.state = t]
  BY Zenon
<1>. QED  BY <1>1, <1>2, <1>3, <1>5 DEF SetBoth, SetState

\* A stream of blocks keeps the whole blocks and buffers the rest.
LEMMA FilledIs ==
    ASSUME NEW p, NEW n, NEW m, NEW c, IsSequence(m), IsSequence(c)
    PROVE  Filled(Stream(p, Blocks(m), Unfinished(m), n), c)
             = Stream(p, Blocks(m \o c), Unfinished(m \o c), n)
<1>0. B \in Nat \ {0} /\ Len(m) \in Nat /\ Len(c) \in Nat /\ B = BlockSize
  BY Sizes, LengthOf
<1>1. PICK q \in Nat, r \in 0..(B - 1) : Len(m) = q * B + r
  <2>1. \E q \in Nat : \E r \in 0..(B - 1) : Len(m) = q * B + r /\ Len(m) \div B = q /\ Len(m) % B = r
    BY <1>0, Division
  <2>. QED  BY <2>1
<1>2. PICK w : w = Taken(m, q * B)
  OBVIOUS
<1>3. PICK b : b = Unfinished(m)
  OBVIOUS
<1>4. /\ IsSequence(w) /\ Len(w) = q * B /\ IsSequence(b) /\ Len(b) = r /\ w \o b = m
  <2>1. CutUp(m, q, r)
    BY <1>1, BlocksAre
  <2>. QED  BY <1>2, <1>3, <2>1 DEF CutUp
<1>5. Blocks(m) = Blocks(w)
  <2>1. Blocks(w \o b) = Blocks(w) \o Blocks(b)
    BY <1>4, BlocksJoin
  <2>2. Blocks(b) = <<>>
    BY <1>0, <1>4, NoBlock
  <2>3. IsSequence(Blocks(w))
    BY <1>4, WholeBlocks
  <2>. QED  BY <1>4, <2>1, <2>2, <2>3, EmptyJoins
<1>6. IsSequence(b \o c) /\ Len(b \o c) = r + Len(c) /\ m \o c = w \o (b \o c)
  <2>1. IsSequence(b \o c) /\ Len(b \o c) = Len(b) + Len(c)
    BY <1>4, JoinIs
  <2>2. (w \o b) \o c = w \o (b \o c)
    <3>1. IsSequence(w) /\ IsSequence(b) /\ IsSequence(c)
      BY <1>4
    <3>2. Associates(w, b, c)
      BY ONLY <3>1, JoinsAreSame
    <3>. QED  BY ONLY <3>2 DEF Associates
  <2>. QED  BY <1>4, <2>1, <2>2
<1>7. Blocks(m \o c) = Blocks(w) \o Blocks(b \o c) /\ Unfinished(m \o c) = Unfinished(b \o c)
  BY <1>4, <1>6, BlocksJoin
<1>. DEFINE h == Stream(p, Blocks(m), b, n)
<1>8. h.buffer = b /\ h.state = Blocks(w)
  BY <1>5 DEF Stream
<1>9. CASE b # <<>> /\ r + Len(c) >= B
  <2>1. PICK missing : missing = B - r
    OBVIOUS
  <2>2. missing \in 0..Len(c) /\ r + missing = B
    BY <1>0, <1>9, <2>1
  <2>3. PICK t : t = Taken(c, missing)
    OBVIOUS
  <2>4. PICK d : d = Dropped(c, missing)
    OBVIOUS
  <2>5. IsSequence(t) /\ Len(t) = missing /\ IsSequence(d) /\ t \o d = c
    BY <2>2, <2>3, <2>4, CutIs
  <2>6. IsSequence(b \o t) /\ Len(b \o t) = B /\ b \o c = (b \o t) \o d
    <3>1. IsSequence(b \o t) /\ Len(b \o t) = Len(b) + Len(t)
      BY <1>4, <2>5, JoinIs
    <3>2. (b \o t) \o d = b \o (t \o d)
      <4>1. IsSequence(b) /\ IsSequence(t) /\ IsSequence(d)
        BY <1>4, <2>5
      <4>2. Associates(b, t, d)
        BY ONLY <4>1, JoinsAreSame
      <4>. QED  BY ONLY <4>2 DEF Associates
    <3>. QED  BY <1>4, <2>2, <2>5, <3>1, <3>2
  <2>7. Blocks(b \o c) = <<b \o t>> \o Blocks(d) /\ Unfinished(b \o c) = Unfinished(d)
    <3>1. Len(b \o t) = 1 * B
      BY <1>0, <2>6
    <3>2. Blocks((b \o t) \o d) = Blocks(b \o t) \o Blocks(d) /\ Unfinished((b \o t) \o d) = Unfinished(d)
      BY <2>5, <2>6, <3>1, BlocksJoin
    <3>3. Blocks(b \o t) = <<b \o t>>
      BY <2>6, OneBlock
    <3>. QED  BY <2>6, <3>2, <3>3
  <2>8. IsSequence(Blocks(w)) /\ IsSequence(<<b \o t>>) /\ IsSequence(Blocks(d))
    BY <1>4, <2>5, WholeBlocks, SingleIs
  <2>9. Append(Blocks(w), b \o t) \o Blocks(d) = Blocks(w) \o Blocks(b \o c)
    <3>1. Append(Blocks(w), b \o t) = Blocks(w) \o <<b \o t>>
      BY <2>8, AppendIs
    <3>2. (Blocks(w) \o <<b \o t>>) \o Blocks(d) = Blocks(w) \o (<<b \o t>> \o Blocks(d))
      <4>1. Associates(Blocks(w), <<b \o t>>, Blocks(d))
        BY ONLY <2>8, JoinsAreSame
      <4>. QED  BY ONLY <4>1 DEF Associates
    <3>. QED  BY <2>7, <3>1, <3>2
  <2>10. IsSequence(Unfinished(d)) /\ <<>> \o Unfinished(d) = Unfinished(d)
    BY <2>5, WholeBlocks, EmptyJoins
  <2>11. [h EXCEPT !.buffer = <<>>, !.state = Append(h.state, h.buffer \o t)]
            = Stream(p, Append(Blocks(w), b \o t), <<>>, n)
    <3>1. SetBoth(Stream(p, Blocks(m), b, n), <<>>, Append(Blocks(w), b \o t))
            = Stream(p, Append(Blocks(w), b \o t), <<>>, n)
      BY StreamSet
    <3>2. SetBoth(h, <<>>, Append(h.state, h.buffer \o t)) = Stream(p, Append(Blocks(w), b \o t), <<>>, n)
      BY <1>8, <3>1
    <3>. HIDE DEF h
    <3>. QED  BY <3>2 DEF SetBoth
  <2>12. Filled(h, c) = Absorb(Stream(p, Append(Blocks(w), b \o t), <<>>, n), d)
    <3>1. Len(h.buffer) = r
      BY <1>4, <1>8
    <3>2. h.buffer # <<>> /\ Len(h.buffer) + Len(c) >= BlockSize /\ BlockSize - Len(h.buffer) = missing
      BY <1>0, <1>8, <1>9, <2>1, <3>1
    <3>. HIDE DEF h
    <3>. QED  BY <2>3, <2>4, <2>11, <3>2 DEF Filled
  <2>13. Absorb(Stream(p, Append(Blocks(w), b \o t), <<>>, n), d)
            = Stream(p, Append(Blocks(w), b \o t) \o Blocks(d), <<>> \o Unfinished(d), n)
    <3>1. PICK a, e : a = Append(Blocks(w), b \o t) /\ e = <<>>
      OBVIOUS
    <3>2. Absorb(Stream(p, a, e, n), d) = Stream(p, a \o Blocks(d), e \o Unfinished(d), n)
      BY ONLY AbsorbIs
    <3>. QED  BY <3>1, <3>2
  <2>14. Filled(h, c) = Stream(p, Blocks(m \o c), Unfinished(m \o c), n)
    <3>. HIDE DEF h
    <3>. QED  BY <1>7, <2>7, <2>9, <2>10, <2>12, <2>13
  <2>. QED  BY <1>3, <2>14
<1>10. CASE b = <<>>
  <2>1. Filled(h, c) = Absorb(h, c)
    BY <1>8, <1>10 DEF Filled
  <2>2. b \o c = c /\ IsSequence(Unfinished(c)) /\ b \o Unfinished(c) = Unfinished(c)
    BY <1>10, EmptyJoins, WholeBlocks
  <2>3. Absorb(h, c) = Stream(p, Blocks(m) \o Blocks(c), b \o Unfinished(c), n)
    BY AbsorbIs
  <2>4. Filled(h, c) = Stream(p, Blocks(m \o c), Unfinished(m \o c), n)
    <3>. HIDE DEF h
    <3>. QED  BY <1>5, <1>7, <2>1, <2>2, <2>3
  <2>. QED  BY <1>3, <2>4
<1>11. CASE b # <<>> /\ r + Len(c) < B
  <2>1. Filled(h, c) = Absorb(h, c)
    <3>1. ~(Len(h.buffer) + Len(c) >= BlockSize)
      BY <1>0, <1>4, <1>8, <1>11
    <3>. HIDE DEF h
    <3>. QED  BY <3>1 DEF Filled
  <2>2. Blocks(c) = <<>> /\ Unfinished(c) = c
    BY <1>0, <1>11, NoBlock
  <2>3. Blocks(b \o c) = <<>> /\ Unfinished(b \o c) = b \o c
    BY <1>6, <1>11, NoBlock
  <2>4. Absorb(h, c) = Stream(p, Blocks(m) \o Blocks(c), b \o Unfinished(c), n)
    BY AbsorbIs
  <2>5. Filled(h, c) = Stream(p, Blocks(m \o c), Unfinished(m \o c), n)
    <3>. HIDE DEF h
    <3>. QED  BY <1>5, <1>7, <2>1, <2>2, <2>3, <2>4
  <2>. QED  BY <1>3, <2>5
<1>. QED  BY <1>0, <1>9, <1>10, <1>11

\* update(): a chunk continues what has been fed.
LEMMA UpdatedIs ==
    ASSUME NEW p \in Providers, NEW m, NEW c, IsSequence(m), IsSequence(c)
    PROVE  Updated(Fed(p, m), c) = Fed(p, m \o c)
<1>1. CASE p = "crc32"
  <2>1. Fed(p, m) = Stream(p, m, <<>>, 0) /\ Fed(p, m \o c) = Stream(p, m \o c, <<>>, 0)
    BY <1>1 DEF Fed
  <2>2. Fed(p, m).of = "crc32" /\ Fed(p, m).state = m
    BY <1>1, <2>1 DEF Stream
  <2>3. Updated(Fed(p, m), c) = SetState(Fed(p, m), m \o c)
    BY <2>2 DEF Updated, SetState
  <2>4. SetState(Stream(p, m, <<>>, 0), m \o c) = Stream(p, m \o c, <<>>, 0)
    BY StreamSet
  <2>. QED  BY <2>1, <2>3, <2>4
<1>2. CASE p # "crc32"
  <2>1. Fed(p, m) = Stream(p, Blocks(m), Unfinished(m), 8 * Len(m))
    BY <1>2 DEF Fed
  <2>2. Fed(p, m).of = p /\ Fed(p, m).bits = 8 * Len(m)
    BY <2>1 DEF Stream
  <2>3. 8 * Len(m) + 8 * Len(c) = 8 * Len(m \o c)
    BY JoinIs, LengthOf
  <2>4. Updated(Fed(p, m), c) = [Filled(Fed(p, m), c) EXCEPT !.bits = 8 * Len(m \o c)]
    BY <1>2, <2>2, <2>3 DEF Updated
  <2>5. Filled(Fed(p, m), c) = Stream(p, Blocks(m \o c), Unfinished(m \o c), 8 * Len(m))
    BY <2>1, FilledIs
  <2>6. Updated(Fed(p, m), c) = Stream(p, Blocks(m \o c), Unfinished(m \o c), 8 * Len(m \o c))
    BY <2>4, <2>5 DEF Stream
  <2>. QED  BY <1>2, <2>6 DEF Fed
<1>. QED  BY <1>1, <1>2

\* A new stream has been fed nothing.
LEMMA NewIsFed == ASSUME NEW p \in Providers PROVE NewStream(p) = Fed(p, <<>>)
<1>1. Blocks(<<>>) = <<>> /\ Unfinished(<<>>) = <<>>
  BY EmptyIs, NoBlock, Sizes
<1>2. 8 * Len(<<>>) = 0
  BY EmptyIs
<1>. QED  BY <1>1, <1>2 DEF NewStream, Fed, Stream
-----------------------------------------------------------------------------
(* Padding: the mark, zeros, and the length. *)

Mark == <<Byte(128)>>
Padding(z, n) == Mark \o Zeros(z) \o LengthBytes(n)

\* The pieces of a padding.
LEMMA BytesAre == /\ IsSequence(Mark) /\ Len(Mark) = 1 /\ Mark[1] = Byte(128) /\ Byte(128) # Byte(0)
                  /\ \A n : IsSequence(LengthBytes(n)) /\ Len(LengthBytes(n)) = LengthSize
                  /\ \A z \in Nat : /\ IsSequence(Zeros(z)) /\ Len(Zeros(z)) = z
                                    /\ \A i \in 1..z : Zeros(z)[i] = Byte(0)
<1>1. IsSequence(Mark) /\ Len(Mark) = 1 /\ Mark[1] = Byte(128)
  BY SingleIs DEF Mark
<1>2. Byte(128) # Byte(0)
  BY DEF Byte
<1>3. ASSUME NEW n PROVE IsSequence(LengthBytes(n)) /\ Len(LengthBytes(n)) = LengthSize
  <2>1. LengthSize \in Nat
    BY Sizes
  <2>2. LengthBytes(n) = [i \in 1..LengthSize |-> LengthBytes(n)[i]]
    BY DEF LengthBytes
  <2>. QED  BY <2>1, <2>2, MakeIs
<1>4. ASSUME NEW z \in Nat
      PROVE  /\ IsSequence(Zeros(z)) /\ Len(Zeros(z)) = z
             /\ \A i \in 1..z : Zeros(z)[i] = Byte(0)
  <2>1. \A i \in 1..z : Zeros(z)[i] = Byte(0)
    BY DEF Zeros
  <2>2. Zeros(z) = [i \in 1..z |-> Zeros(z)[i]]
    BY DEF Zeros
  <2>. QED  BY <2>1, <2>2, MakeIs
<1>. QED  BY <1>1, <1>2, <1>3, <1>4

\* Three sequences in a row.
LEMMA ThreeJoin ==
    ASSUME NEW x, NEW y, NEW z, IsSequence(x), IsSequence(y), IsSequence(z)
    PROVE  IsSequence((x \o y) \o z) /\ Len((x \o y) \o z) = Len(x) + Len(y) + Len(z)
<1>1. IsSequence(x \o y) /\ Len(x \o y) = Len(x) + Len(y)
  BY JoinIs
<1>2. IsSequence((x \o y) \o z) /\ Len((x \o y) \o z) = Len(x \o y) + Len(z)
  BY <1>1, JoinIs
<1>. QED  BY <1>1, <1>2

\* A padding is a sequence of known length.
LEMMA PaddingIs ==
    ASSUME NEW z \in Nat, NEW n
    PROVE  IsSequence(Padding(z, n)) /\ Len(Padding(z, n)) = 1 + z + LengthSize
<1>1. IsSequence(Mark) /\ IsSequence(Zeros(z)) /\ IsSequence(LengthBytes(n))
      /\ Len(Mark) = 1 /\ Len(Zeros(z)) = z /\ Len(LengthBytes(n)) = LengthSize
  BY BytesAre
<1>2. PICK k, x, y : k = Mark /\ x = Zeros(z) /\ y = LengthBytes(n)
  OBVIOUS
<1>3. IsSequence((k \o x) \o y) /\ Len((k \o x) \o y) = Len(k) + Len(x) + Len(y)
  <2>1. IsSequence(k) /\ IsSequence(x) /\ IsSequence(y)
    BY <1>1, <1>2
  <2>. QED  BY ONLY <2>1, ThreeJoin
<1>. QED  BY <1>1, <1>2, <1>3 DEF Padding

\* The standard takes the only multiple of the block that is near enough.
LEMMA OneMultiple ==
    ASSUME NEW least \in Nat, NEW q \in Nat, q * B \in least..(least + B - 1)
    PROVE  (CHOOSE n \in least..(least + B - 1) : n % B = 0) = q * B
<1>. DEFINE t == CHOOSE n \in least..(least + B - 1) : n % B = 0
<1>0. B \in Nat \ {0}
  BY Sizes
<1>1. (q * B) % B = 0
  <2>1. 0 \in 0..(B - 1) /\ q * B + 0 = q * B
    BY <1>0
  <2>2. (q * B + 0) % B = 0
    BY <2>1, Quotient
  <2>. QED  BY <2>1, <2>2
<1>2. t \in least..(least + B - 1) /\ t % B = 0
  BY <1>1
<1>. HIDE DEF t
<1>3. t \in Nat
  BY <1>0, <1>2
<1>4. PICK p \in Nat, r \in 0..(B - 1) : t = p * B + r /\ t % B = r
  BY <1>3, Division
<1>5. t = p * B
  <2>1. p * B \in Nat /\ r = 0
    BY <1>0, <1>2, <1>4
  <2>. QED  BY <1>4, <2>1
<1>6. ASSUME NEW a \in Nat, NEW b \in Nat, a < b, b * B - a * B < B PROVE FALSE
  <2>1. PICK d \in Nat : b = a + 1 + d
    <3>1. b - a - 1 \in Nat /\ b = a + 1 + (b - a - 1)
      BY <1>6
    <3>. QED  BY <3>1
  <2>2. b * B = a * B + B + d * B /\ a * B \in Nat /\ d * B \in Nat
    BY <1>0, <2>1
  <2>. QED  BY <1>0, <1>6, <2>2
<1>7. p * B - q * B < B /\ q * B - p * B < B
  BY <1>0, <1>2, <1>5
<1>8. ~(p < q) /\ ~(q < p)
  BY <1>6, <1>7
<1>9. p = q
  BY <1>8
<1>. QED  BY <1>5, <1>9 DEF t

\* However it is bracketed.
LEMMA PaddedIs ==
    ASSUME NEW m, IsSequence(m), NEW z \in Nat, NEW n
    PROVE  m \o Mark \o Zeros(z) \o LengthBytes(n) = m \o Padding(z, n)
<1>1. PICK a, b : a = Zeros(z) /\ b = LengthBytes(n)
  OBVIOUS
<1>2. IsSequence(m) /\ IsSequence(Mark) /\ IsSequence(a) /\ IsSequence(b)
  BY <1>1, BytesAre
<1>3. IsSequence(m \o Mark) /\ IsSequence(Mark \o a)
  BY <1>2, JoinIs
<1>4. (m \o Mark) \o a = m \o (Mark \o a)
  <2>1. Associates(m, Mark, a)
    BY ONLY <1>2, JoinsAreSame
  <2>. QED  BY ONLY <2>1 DEF Associates
<1>5. (m \o (Mark \o a)) \o b = m \o ((Mark \o a) \o b)
  <2>1. PICK k : k = Mark \o a
    OBVIOUS
  <2>2. IsSequence(m) /\ IsSequence(k) /\ IsSequence(b)
    BY <1>2, <1>3, <2>1
  <2>3. (m \o k) \o b = m \o (k \o b)
    <3>1. Associates(m, k, b)
      BY ONLY <2>2, JoinsAreSame
    <3>. QED  BY ONLY <3>1 DEF Associates
  <2>. QED  BY <2>1, <2>3
<1>. QED  BY <1>1, <1>4, <1>5 DEF Padding

\* A padding of fewer than B zeros that fills the last block is the standard's.
LEMMA PaddingFits ==
    ASSUME NEW m, IsSequence(m), NEW z \in 0..(B - 1), NEW q \in Nat,
           Len(m) + 1 + z + LengthSize = q * B
    PROVE  /\ StandardBlocks(m) = Blocks(m \o Padding(z, 8 * Len(m)))
           /\ IsSequence(m \o Padding(z, 8 * Len(m))) /\ Len(m \o Padding(z, 8 * Len(m))) = q * B
<1>0. B \in Nat \ {0} /\ B = BlockSize /\ LengthSize \in Nat /\ Len(m) \in Nat /\ z \in Nat
  BY Sizes, LengthOf
<1>. DEFINE least == Len(m) + 1 + LengthSize
            n == 8 * Len(m)
<1>1. least \in Nat /\ q * B \in least..(least + B - 1) /\ q * B - least = z
  BY <1>0
<1>. HIDE DEF least, n
<1>2. (CHOOSE c \in least..(least + B - 1) : c % B = 0) = q * B
  BY <1>1, OneMultiple
<1>3. PICK x : x = m \o Mark \o Zeros(z) \o LengthBytes(n)
  OBVIOUS
<1>4. x = m \o Padding(z, n)
  BY <1>0, <1>3, PaddedIs
<1>5. IsSequence(x) /\ Len(x) = q * B
  <2>1. IsSequence(Padding(z, n)) /\ Len(Padding(z, n)) = 1 + z + LengthSize
    BY <1>0, PaddingIs
  <2>2. IsSequence(m \o Padding(z, n)) /\ Len(m \o Padding(z, n)) = Len(m) + Len(Padding(z, n))
    BY <2>1, JoinIs
  <2>. QED  BY <1>0, <1>4, <2>1, <2>2
<1>6. StandardBlocks(m) = [b \in 1..((q * B) \div B) |-> SubSeq(x, (b - 1) * B + 1, b * B)]
  <2>. DEFINE total == CHOOSE c \in least..(least + B - 1) : c % B = 0
  <2>1. StandardBlocks(m) = [b \in 1..(total \div B) |->
           SubSeq(m \o Mark \o Zeros(total - least) \o LengthBytes(n), (b - 1) * B + 1, b * B)]
    BY DEF StandardBlocks, least, n, Mark, B
  <2>2. total = q * B /\ total - least = z
    BY <1>1, <1>2
  <2>. HIDE DEF total
  <2>3. StandardBlocks(m) = [b \in 1..(total \div B) |-> SubSeq(x, (b - 1) * B + 1, b * B)]
    BY <1>3, <2>1, <2>2
  <2>. QED  BY <2>2, <2>3
<1>7. Blocks(x) = [b \in 1..((q * B) \div B) |-> SubSeq(x, (b - 1) * B + 1, b * B)]
  BY <1>5 DEF Blocks
<1>. QED  BY <1>4, <1>5, <1>6, <1>7 DEF n
-----------------------------------------------------------------------------
(* end() and the two implementations of hash(). *)

SetBuffer(h, t, v) == [h EXCEPT !.state = t, !.buffer = v]

\* Setting fields, as end() of sha256 does.
LEMMA BufferSet ==
    ASSUME NEW p, NEW s, NEW u, NEW n, NEW t, NEW v
    PROVE  SetBuffer(Stream(p, s, u, n), t, v) = Stream(p, t, v, n)
<1>1. [Stream(p, s, u, n) EXCEPT !.state = t] = Stream(p, t, u, n)
  BY DEF Stream
<1>2. [Stream(p, t, u, n) EXCEPT !.buffer = v] = Stream(p, t, v, n)
  BY DEF Stream
<1>3. [Stream(p, s, u, n) EXCEPT !.state = t, !.buffer = v] = [[Stream(p, s, u, n) EXCEPT !.state = t] EXCEPT !.buffer = v]
  BY Zenon
<1>. QED  BY <1>1, <1>2, <1>3 DEF SetBuffer

\* Reading the fields of a stream.
LEMMA StreamIs ==
    ASSUME NEW p, NEW s, NEW u, NEW n
    PROVE  LET h == Stream(p, s, u, n) IN h.of = p /\ h.state = s /\ h.buffer = u /\ h.bits = n
BY DEF Stream

\* What is appended to m is cut after what m left unfinished.
LEMMA RestIsCut ==
    ASSUME NEW m, NEW t, IsSequence(m), IsSequence(t)
    PROVE  /\ Blocks(m \o t) = Blocks(m) \o Blocks(Unfinished(m) \o t)
           /\ \E q \in Nat, r \in 0..(B - 1) : /\ Len(m) = q * B + r /\ Len(m) % B = r
                                               /\ Len(Unfinished(m)) = r
<1>0. B \in Nat \ {0} /\ Len(m) \in Nat
  BY Sizes, LengthOf
<1>1. PICK q \in Nat, r \in 0..(B - 1) : Len(m) = q * B + r /\ Len(m) % B = r
  <2>1. \E q \in Nat : \E r \in 0..(B - 1) : Len(m) = q * B + r /\ Len(m) \div B = q /\ Len(m) % B = r
    BY <1>0, Division
  <2>. QED  BY <2>1
<1>2. PICK w, b : w = Taken(m, q * B) /\ b = Unfinished(m)
  OBVIOUS
<1>3. /\ IsSequence(w) /\ Len(w) = q * B /\ IsSequence(b) /\ Len(b) = r /\ w \o b = m
  <2>1. CutUp(m, q, r)
    BY <1>1, BlocksAre
  <2>. QED  BY <1>2, <2>1 DEF CutUp
<1>4. Blocks(m) = Blocks(w)
  <2>1. Blocks(w \o b) = Blocks(w) \o Blocks(b)
    BY <1>3, BlocksJoin
  <2>2. Blocks(b) = <<>>
    BY <1>0, <1>3, NoBlock
  <2>3. IsSequence(Blocks(w))
    BY <1>3, WholeBlocks
  <2>. QED  BY <1>3, <2>1, <2>2, <2>3, EmptyJoins
<1>5. IsSequence(b \o t)
  BY <1>3, JoinIs
<1>6. m \o t = w \o (b \o t)
  <2>1. IsSequence(w) /\ IsSequence(b) /\ IsSequence(t)
    BY <1>3
  <2>2. (w \o b) \o t = w \o (b \o t)
    <3>1. Associates(w, b, t)
      BY ONLY <2>1, JoinsAreSame
    <3>. QED  BY ONLY <3>1 DEF Associates
  <2>. QED  BY <1>3, <2>2
<1>7. Blocks(w \o (b \o t)) = Blocks(w) \o Blocks(b \o t)
  BY <1>3, <1>5, BlocksJoin
<1>. QED  BY <1>1, <1>2, <1>3, <1>4, <1>6, <1>7

\* Zeros and zeros are zeros.
LEMMA ZerosJoin ==
    ASSUME NEW a \in Nat, NEW b \in Nat
    PROVE  Zeros(a + b) = Zeros(a) \o Zeros(b)
<1>1. PICK x, y, z : x = Zeros(a) /\ y = Zeros(b) /\ z = Zeros(a + b)
  OBVIOUS
<1>2. /\ IsSequence(x) /\ Len(x) = a /\ \A i \in 1..a : x[i] = Byte(0)
      /\ IsSequence(y) /\ Len(y) = b /\ \A i \in 1..b : y[i] = Byte(0)
      /\ IsSequence(z) /\ Len(z) = a + b /\ \A i \in 1..(a + b) : z[i] = Byte(0)
  BY <1>1, BytesAre
<1>3. /\ IsSequence(x \o y) /\ Len(x \o y) = a + b
      /\ \A i \in 1..(a + b) : (x \o y)[i] = IF i <= a THEN x[i] ELSE y[i - a]
  BY <1>2, JoinIs
<1>4. ASSUME NEW i \in 1..(a + b) PROVE z[i] = (x \o y)[i]
  <2>1. CASE i <= a
    <3>1. i \in 1..a
      BY <2>1
    <3>. QED  BY <1>2, <1>3, <2>1, <3>1
  <2>2. CASE ~(i <= a)
    <3>1. i - a \in 1..b
      BY <2>2
    <3>. QED  BY <1>2, <1>3, <2>2, <3>1
  <2>. QED  BY <2>1, <2>2
<1>. QED  BY <1>1, <1>2, <1>3, <1>4, Alike
Room == B - LengthSize

\* What a last block has room for besides the length.
LEMMA RoomIs == Room \in Nat \ {0, 1} /\ Room + LengthSize = B /\ Room < B /\ Room = BlockSize - LengthSize
BY Sizes DEF Room

\* The zeros after a message that leaves r bytes: as many as fill the block, or
\* the next one, up to the length.
Fill(r) == IF r < Room THEN Room - r - 1 ELSE Room + B - r - 1

\* Fill(r) fills just one block or two.
LEMMA FillIs ==
    ASSUME NEW r \in 0..(B - 1)
    PROVE  /\ Fill(r) \in 0..(B - 1)
           /\ (r + 1 + Fill(r)) + LengthSize = (IF r < Room THEN B ELSE 2 * B)
BY Sizes, RoomIs DEF Fill

\* Fill() pads as the standard does.
LEMMA WholeFilling ==
    ASSUME NEW m, IsSequence(m), NEW z, z = Fill(Len(m) % B), NEW x, x = m \o Padding(z, 8 * Len(m))
    PROVE  /\ z \in 0..(B - 1) /\ StandardBlocks(m) = Blocks(x)
           /\ IsSequence(x) /\ \E q \in Nat : Len(x) = q * B
<1>0. B \in Nat \ {0} /\ Len(m) \in Nat /\ LengthSize \in Nat
  BY Sizes, LengthOf
<1>1. PICK q \in Nat, r \in 0..(B - 1) : Len(m) = q * B + r /\ Len(m) % B = r
  <2>1. \E q \in Nat : \E r \in 0..(B - 1) : Len(m) = q * B + r /\ Len(m) \div B = q /\ Len(m) % B = r
    BY <1>0, Division
  <2>. QED  BY <2>1
<1>2. z \in 0..(B - 1) /\ (r + 1 + z) + LengthSize = (IF r < Room THEN B ELSE 2 * B)
  BY <1>1, FillIs
<1>3. \E k \in Nat : Len(m) + 1 + z + LengthSize = k * B
  <2>1. q * B \in Nat /\ (q + 1) * B = q * B + B /\ (q + 2) * B = q * B + 2 * B
    BY <1>0
  <2>2. Len(m) + 1 + z + LengthSize = q * B + ((r + 1 + z) + LengthSize)
    BY <1>0, <1>1, <1>2, <2>1
  <2>3. CASE r < Room
    <3>1. Len(m) + 1 + z + LengthSize = (q + 1) * B /\ q + 1 \in Nat
      BY <1>2, <2>1, <2>2, <2>3
    <3>. QED  BY <3>1
  <2>4. CASE ~(r < Room)
    <3>1. Len(m) + 1 + z + LengthSize = (q + 2) * B /\ q + 2 \in Nat
      BY <1>2, <2>1, <2>2, <2>4
    <3>. QED  BY <3>1
  <2>. QED  BY <2>3, <2>4
<1>4. PICK k \in Nat : Len(m) + 1 + z + LengthSize = k * B
  BY <1>3
<1>5. /\ StandardBlocks(m) = Blocks(m \o Padding(z, 8 * Len(m)))
      /\ IsSequence(m \o Padding(z, 8 * Len(m))) /\ Len(m \o Padding(z, 8 * Len(m))) = k * B
  BY <1>2, <1>4, PaddingFits
<1>. QED  BY <1>2, <1>5

\* The same of the blocks alone.
LEMMA Filling ==
    ASSUME NEW m, IsSequence(m), NEW z, z = Fill(Len(m) % B)
    PROVE  /\ z \in 0..(B - 1)
           /\ StandardBlocks(m) = Blocks(m \o Padding(z, 8 * Len(m)))
BY WholeFilling

\* sha1, sha512.
LEMMA ByUpdateIs ==
    ASSUME NEW p \in Providers, p # "crc32", NEW m, IsSequence(m)
    PROVE  FinishedByUpdate(Fed(p, m)).state = StandardBlocks(m) /\ FinishedByUpdate(Fed(p, m)).of = p
<1>0. B \in Nat \ {0} /\ Len(m) \in Nat /\ LengthSize \in Nat
  BY Sizes, LengthOf
<1>1. PICK r \in 0..(B - 1) : Len(m) % B = r /\ Len(Unfinished(m)) = r
  BY EmptyIs, RestIsCut
<1>2. PICK z : z = Fill(r)
  OBVIOUS
<1>3. z \in 0..(B - 1) /\ z \in Nat /\ StandardBlocks(m) = Blocks(m \o Padding(z, 8 * Len(m)))
  BY <1>1, <1>2, Filling
<1>4. Fed(p, m) = Stream(p, Blocks(m), Unfinished(m), 8 * Len(m))
  BY DEF Fed
<1>5. Len(Fed(p, m).buffer) = r /\ Fed(p, m).bits = 8 * Len(m)
  BY <1>1, <1>4, StreamIs
<1>6. FinishedByUpdate(Fed(p, m)) = Updated(Fed(p, m), Padding(z, 8 * Len(m)))
  <2>. DEFINE padded == IF r < BlockSize - LengthSize THEN (BlockSize - LengthSize) - r
                        ELSE (BlockSize - LengthSize) + BlockSize - r
  <2>1. FinishedByUpdate(Fed(p, m)) = Updated(Fed(p, m), Padding(padded - 1, 8 * Len(m)))
    BY <1>5 DEF FinishedByUpdate, Padding, Mark
  <2>2. padded - 1 = z
    BY <1>0, <1>2, RoomIs, Sizes DEF Fill
  <2>. HIDE DEF padded
  <2>. QED  BY <2>1, <2>2
<1>7. PICK t : t = Padding(z, 8 * Len(m))
  OBVIOUS
<1>8. IsSequence(t)
  BY <1>3, <1>7, PaddingIs
<1>9. Updated(Fed(p, m), t) = Fed(p, m \o t)
  BY <1>8, UpdatedIs
<1>10. Fed(p, m \o t) = Stream(p, Blocks(m \o t), Unfinished(m \o t), 8 * Len(m \o t))
  BY DEF Fed
<1>11. Fed(p, m \o t).state = Blocks(m \o t) /\ Fed(p, m \o t).of = p
  BY <1>10, StreamIs
<1>. QED  BY <1>3, <1>6, <1>7, <1>9, <1>11

\* hash() of sha256.
LEMMA PreprocessedIs ==
    ASSUME NEW p, NEW m, IsSequence(m)
    PROVE  Absorb(NewStream(p), Preprocessed(m)).state = StandardBlocks(m)
<1>0. B \in Nat \ {0} /\ Len(m) \in Nat /\ LengthSize \in Nat
  BY Sizes, LengthOf
<1>1. PICK q \in Nat, r \in 0..(B - 1) : Len(m) = q * B + r /\ Len(m) % B = r
  <2>1. \E q \in Nat : \E r \in 0..(B - 1) : Len(m) = q * B + r /\ Len(m) \div B = q /\ Len(m) % B = r
    BY <1>0, Division
  <2>. QED  BY <2>1
<1>2. PICK z : z = Fill(r)
  OBVIOUS
<1>3. z \in 0..(B - 1) /\ z \in Nat /\ StandardBlocks(m) = Blocks(m \o Padding(z, 8 * Len(m)))
  BY <1>1, <1>2, Filling
<1>4. PICK y : y = m \o Mark \o Zeros(z) \o LengthBytes(8 * Len(m))
  OBVIOUS
<1>5. Preprocessed(m) = y
  <2>. DEFINE added == IF r < BlockSize - LengthSize THEN (BlockSize - LengthSize) - r
                       ELSE IF r = BlockSize - LengthSize THEN BlockSize
                       ELSE BlockSize - r + (BlockSize - LengthSize)
  <2>1. Preprocessed(m) = m \o Mark \o Zeros(added - 1) \o LengthBytes(8 * Len(m))
    <3>1. Len(m) % BlockSize = r
      BY <1>1 DEF B
    <3>. QED  BY <3>1 DEF Preprocessed, Mark
  <2>2. added - 1 = z
    BY <1>0, <1>2, RoomIs, Sizes DEF Fill
  <2>. HIDE DEF added
  <2>. QED  BY <1>4, <2>1, <2>2
<1>6. y = m \o Padding(z, 8 * Len(m)) /\ IsSequence(y)
  <2>1. y = m \o Padding(z, 8 * Len(m))
    BY <1>3, <1>4, PaddedIs
  <2>2. IsSequence(Padding(z, 8 * Len(m)))
    BY <1>3, PaddingIs
  <2>. QED  BY <2>1, <2>2, JoinIs
<1>7. NewStream(p) = Stream(p, <<>>, <<>>, 0)
  BY DEF NewStream, Stream
<1>8. PICK e, n : e = <<>> /\ n = 0
  OBVIOUS
<1>9. Absorb(Stream(p, e, e, n), y) = Stream(p, e \o Blocks(y), e \o Unfinished(y), n)
  BY AbsorbIs
<1>10. Absorb(NewStream(p), y).state = e \o Blocks(y)
  BY <1>7, <1>8, <1>9, StreamIs
<1>11. IsSequence(Blocks(y)) /\ e \o Blocks(y) = Blocks(y)
  BY <1>6, <1>8, WholeBlocks, EmptyJoins
<1>. QED  BY <1>3, <1>5, <1>6, <1>10, <1>11
\* sha256: end() pads in the buffer, in one block or in two.
LEMMA InPlaceIs ==
    ASSUME NEW p, p # "crc32", NEW m, IsSequence(m)
    PROVE  FinishedInPlace(Fed(p, m)).state = StandardBlocks(m) /\ FinishedInPlace(Fed(p, m)).of = p
<1>0. B \in Nat \ {0} /\ Len(m) \in Nat /\ LengthSize \in Nat
  BY Sizes, LengthOf
<1>1. PICK r \in 0..(B - 1) : Len(m) % B = r /\ Len(Unfinished(m)) = r
  BY EmptyIs, RestIsCut
<1>2. PICK z, n : z = Fill(r) /\ n = 8 * Len(m)
  OBVIOUS
<1>3. z \in Nat /\ StandardBlocks(m) = Blocks(m \o Padding(z, n))
  BY <1>1, <1>2, Filling
<1>4. PICK s, u, l, k : s = Blocks(m) /\ u = Unfinished(m) /\ l = LengthBytes(n) /\ k = Mark
  OBVIOUS
<1>5. /\ IsSequence(s) /\ IsSequence(u) /\ Len(u) = r
      /\ IsSequence(l) /\ Len(l) = LengthSize /\ IsSequence(k) /\ Len(k) = 1
  BY <1>1, <1>4, WholeBlocks, BytesAre
<1>6. IsSequence(Padding(z, n)) /\ StandardBlocks(m) = s \o Blocks(u \o Padding(z, n))
  <2>1. IsSequence(Padding(z, n))
    BY <1>3, PaddingIs
  <2>. QED  BY <1>3, <1>4, <2>1, RestIsCut
<1>7. u \o Padding(z, n) = u \o k \o Zeros(z) \o l
  BY <1>3, <1>4, <1>5, PaddedIs
<1>8. PICK marked : marked = u \o k
  OBVIOUS
<1>9. IsSequence(marked) /\ Len(marked) = r + 1 /\ marked = Append(u, Byte(128))
  <2>1. IsSequence(marked) /\ Len(marked) = Len(u) + Len(k)
    BY <1>5, <1>8, JoinIs
  <2>2. Append(u, Byte(128)) = u \o <<Byte(128)>>
    BY <1>5, AppendIs
  <2>. QED  BY <1>4, <1>5, <1>8, <2>1, <2>2 DEF Mark
<1>. DEFINE h == Fed(p, m)
<1>10. h = Stream(p, s, u, n) /\ h.state = s /\ h.buffer = u /\ h.bits = n
  <2>1. h = Stream(p, s, u, n)
    BY <1>2, <1>4 DEF Fed
  <2>. QED  BY <2>1, StreamIs
<1>. HIDE DEF h
<1>11. CASE r < Room
  <2>1. PICK a, block : a = Zeros(z) /\ block = (marked \o a) \o l
    OBVIOUS
  <2>2. IsSequence(a) /\ Len(a) = z /\ z = Room - (r + 1) /\ (r + 1 + z) + LengthSize = B
    BY <1>1, <1>2, <1>3, <1>11, <2>1, BytesAre, FillIs, RoomIs DEF Fill
  <2>3. IsSequence(block) /\ Len(block) = B
    <3>1. IsSequence((marked \o a) \o l) /\ Len((marked \o a) \o l) = Len(marked) + Len(a) + Len(l)
      <4>1. IsSequence(marked) /\ IsSequence(a) /\ IsSequence(l)
        BY <1>5, <1>9, <2>2
      <4>. QED  BY ONLY <4>1, ThreeJoin
    <3>. QED  BY <1>5, <1>9, <2>1, <2>2, <3>1
  <2>4. u \o Padding(z, n) = block
    BY <1>7, <1>8, <2>1
  <2>5. StandardBlocks(m) = Append(s, block)
    <3>1. Blocks(block) = <<block>>
      BY <2>3, OneBlock
    <3>2. Append(s, block) = s \o <<block>>
      BY <1>5, AppendIs
    <3>. QED  BY <1>6, <2>4, <3>1, <3>2
  <2>6. FinishedInPlace(h) = SetBuffer(h, Append(s, block), marked)
    <3>1. Append(h.buffer, Byte(128)) = marked /\ ~(Len(marked) > BlockSize - LengthSize)
      BY <1>9, <1>10, <1>11, RoomIs
    <3>2. (BlockSize - LengthSize) - Len(marked) = z
      BY <1>9, <2>2, RoomIs
    <3>3. FinishedInPlace(h)
            = SetBuffer(h, Append(h.state, marked \o Zeros((BlockSize - LengthSize) - Len(marked)) \o LengthBytes(h.bits)), marked)
      BY <3>1 DEF FinishedInPlace, SetBuffer
    <3>. QED  BY <1>4, <1>10, <2>1, <3>2, <3>3
  <2>7. FinishedInPlace(h) = Stream(p, Append(s, block), marked, n)
    BY <1>10, <2>6, BufferSet
  <2>8. FinishedInPlace(h).state = Append(s, block) /\ FinishedInPlace(h).of = p
    BY <2>7 DEF Stream
  <2>. QED  BY <2>5, <2>8 DEF h
<1>12. CASE ~(r < Room)
  <2>1. PICK rest \in Nat : rest = B - (r + 1) /\ z = rest + Room
    BY <1>0, <1>2, <1>12, RoomIs DEF Fill
  <2>2. PICK a, b, first, second : /\ a = Zeros(rest) /\ b = Zeros(Room)
                                   /\ first = marked \o a /\ second = b \o l
    OBVIOUS
  <2>3. IsSequence(a) /\ Len(a) = rest /\ IsSequence(b) /\ Len(b) = Room /\ Zeros(z) = a \o b
    BY <2>1, <2>2, BytesAre, ZerosJoin, RoomIs
  <2>4. IsSequence(first) /\ Len(first) = B
    <3>1. IsSequence(first) /\ Len(first) = Len(marked) + Len(a)
      BY <1>9, <2>2, <2>3, JoinIs
    <3>2. (r + 1) + rest = B
      BY <1>0, <2>1
    <3>. QED  BY <1>9, <2>3, <3>1, <3>2
  <2>5. IsSequence(second) /\ Len(second) = B
    <3>1. IsSequence(second) /\ Len(second) = Len(b) + Len(l)
      BY <1>5, <2>2, <2>3, JoinIs
    <3>. QED  BY <1>5, <2>3, <3>1, RoomIs
  <2>6. u \o Padding(z, n) = first \o second
    <3>1. IsSequence(marked) /\ IsSequence(a) /\ IsSequence(b) /\ IsSequence(l) /\ IsSequence(first)
      BY <1>5, <1>9, <2>3, <2>4
    <3>2. (marked \o a) \o b = marked \o (a \o b)
      <4>1. Associates(marked, a, b)
        BY ONLY <3>1, JoinsAreSame
      <4>. QED  BY ONLY <4>1 DEF Associates
    <3>3. (first \o b) \o l = first \o (b \o l)
      <4>1. Associates(first, b, l)
        BY ONLY <3>1, JoinsAreSame
      <4>. QED  BY ONLY <4>1 DEF Associates
    <3>. QED  BY <1>7, <1>8, <2>2, <2>3, <3>2, <3>3
  <2>7. StandardBlocks(m) = Append(Append(s, first), second)
    <3>1. Blocks(first) = <<first>> /\ Blocks(second) = <<second>>
      BY <2>4, <2>5, OneBlock
    <3>2. Blocks(first \o second) = Blocks(first) \o Blocks(second)
      <4>1. Len(first) = 1 * B
        BY <1>0, <2>4
      <4>. QED  BY <2>4, <2>5, <4>1, BlocksJoin
    <3>3. PICK f, g : f = <<first>> /\ g = <<second>>
      OBVIOUS
    <3>4. IsSequence(s) /\ IsSequence(f) /\ IsSequence(g)
      BY <1>5, <3>3, SingleIs
    <3>5. (s \o f) \o g = s \o (f \o g)
      <4>1. Associates(s, f, g)
        BY ONLY <3>4, JoinsAreSame
      <4>. QED  BY ONLY <4>1 DEF Associates
    <3>6. Append(s, first) = s \o f
      BY <1>5, <3>3, AppendIs
    <3>7. IsSequence(s \o f)
      BY <3>4, JoinIs
    <3>8. Append(s \o f, second) = (s \o f) \o g
      BY <3>3, <3>7, AppendIs
    <3>. QED  BY <1>6, <2>6, <3>1, <3>2, <3>3, <3>5, <3>6, <3>8
  <2>8. FinishedInPlace(h) = SetBuffer(h, Append(Append(s, first), second), <<>>)
    <3>1. Append(h.buffer, Byte(128)) = marked /\ Len(marked) > BlockSize - LengthSize
      BY <1>0, <1>9, <1>10, <1>12, RoomIs
    <3>2. /\ BlockSize - Len(marked) = rest
          /\ (BlockSize - LengthSize) - Len(<<>>) = Room
      BY <1>9, <2>1, RoomIs, Sizes, EmptyIs
    <3>3. FinishedInPlace(h)
            = SetBuffer(h, Append(Append(h.state, marked \o Zeros(BlockSize - Len(marked))),
                                  <<>> \o Zeros((BlockSize - LengthSize) - Len(<<>>)) \o LengthBytes(h.bits)), <<>>)
      BY <3>1 DEF FinishedInPlace, SetBuffer
    <3>4. <<>> \o b = b
      BY <2>3, EmptyJoins
    <3>. QED  BY <1>4, <1>10, <2>2, <3>2, <3>3, <3>4
  <2>9. PICK t, e : t = Append(Append(s, first), second) /\ e = <<>>
    OBVIOUS
  <2>10. SetBuffer(Stream(p, s, u, n), t, e) = Stream(p, t, e, n)
    BY BufferSet
  <2>11. FinishedInPlace(h).state = t /\ FinishedInPlace(h).of = p
    <3>1. FinishedInPlace(h) = Stream(p, t, e, n)
      BY <1>10, <2>8, <2>9, <2>10
    <3>. QED  BY <3>1 DEF Stream
  <2>. QED  BY <2>7, <2>9, <2>11 DEF h
<1>. QED  BY <1>11, <1>12
-----------------------------------------------------------------------------
(* end(), hash() and hash_stream() return the standard's digest. *)

\* Whose stream it is, and the state of crc32.
LEMMA FedIs ==
    ASSUME NEW p, NEW m
    PROVE  Fed(p, m).of = p /\ (p = "crc32" => Fed(p, m).state = m)
<1>1. CASE p = "crc32"
  <2>1. Fed(p, m) = Stream(p, m, <<>>, 0)
    BY <1>1 DEF Fed
  <2>. QED  BY <2>1 DEF Stream
<1>2. CASE p # "crc32"
  <2>1. Fed(p, m) = Stream(p, Blocks(m), Unfinished(m), 8 * Len(m))
    BY <1>2 DEF Fed
  <2>. QED  BY <1>2, <2>1 DEF Stream
<1>. QED  BY <1>1, <1>2

\* end() returns the digest of the standard for all that was fed.
LEMMA ResultIs ==
    ASSUME NEW p \in Providers, NEW m, IsSequence(m)
    PROVE  Result(Fed(p, m)) = Standard(p, m) /\ Finished(Fed(p, m)).of = p
<1>1. CASE p = "crc32"
  <2>1. Finished(Fed(p, m)) = Fed(p, m)
    BY <1>1, FedIs DEF Finished
  <2>. QED  BY <1>1, <2>1, FedIs DEF Result, Standard
<1>2. CASE p = "sha1"
  <2>1. Finished(Fed(p, m)) = FinishedByUpdate(Fed(p, m))
    BY <1>2, FedIs DEF Finished
  <2>2. Finished(Fed(p, m)).state = StandardBlocks(m) /\ Finished(Fed(p, m)).of = p
    BY <1>2, <2>1, ByUpdateIs
  <2>. QED  BY <1>2, <2>2 DEF Result, Standard
<1>3. CASE p = "sha256"
  <2>1. Finished(Fed(p, m)) = FinishedInPlace(Fed(p, m))
    BY <1>3, FedIs DEF Finished
  <2>2. Finished(Fed(p, m)).state = StandardBlocks(m) /\ Finished(Fed(p, m)).of = p
    BY <1>3, <2>1, InPlaceIs
  <2>. QED  BY <1>3, <2>2 DEF Result, Standard
<1>. QED  BY <1>1, <1>2, <1>3 DEF Providers

\* hash() returns it too.
LEMMA HashIs ==
    ASSUME NEW p \in Providers, NEW m, IsSequence(m)
    PROVE  Hash(p, m) = Standard(p, m)
<1>1. CASE p = "sha256"
  <2>1. Absorb(NewStream(p), Preprocessed(m)).state = StandardBlocks(m)
    BY PreprocessedIs
  <2>. QED  BY <1>1, <2>1 DEF Hash, Standard
<1>2. CASE p # "sha256"
  <2>1. Updated(NewStream(p), m) = Fed(p, m)
    <3>1. PICK e : e = <<>>
      OBVIOUS
    <3>2. IsSequence(e) /\ NewStream(p) = Fed(p, e) /\ e \o m = m
      BY <3>1, EmptyIs, NewIsFed, EmptyJoins
    <3>3. Updated(Fed(p, e), m) = Fed(p, e \o m)
      BY <3>2, UpdatedIs
    <3>. QED  BY <3>2, <3>3
  <2>. QED  BY <1>2, <2>1, ResultIs DEF Hash
<1>. QED  BY <1>1, <1>2

\* A piece continues what was read before it.
LEMMA PieceFits ==
    ASSUME NEW x, IsSequence(x), NEW a \in Nat, NEW b \in Nat, a <= b, b <= Len(x)
    PROVE  /\ IsSequence(Taken(x, a)) /\ IsSequence(SubSeq(x, a + 1, b))
           /\ Taken(x, a) \o SubSeq(x, a + 1, b) = Taken(x, b)
<1>0. Len(x) \in Nat
  BY LengthOf
<1>1. PICK l, y, z : l = Taken(x, a) /\ y = SubSeq(x, a + 1, b) /\ z = Taken(x, b)
  OBVIOUS
<1>2. /\ IsSequence(l) /\ Len(l) = a /\ \A i \in 1..a : l[i] = x[i]
      /\ IsSequence(z) /\ Len(z) = b /\ \A i \in 1..b : z[i] = x[i]
  <2>1. a \in 0..Len(x) /\ b \in 0..Len(x)
    BY <1>0
  <2>. QED  BY <1>1, <2>1, CutIs
<1>3. IsSequence(y) /\ Len(y) = b - a /\ \A i \in 1..(b - a) : y[i] = x[a + i]
  BY <1>1, PartIs
<1>4. /\ IsSequence(l \o y) /\ Len(l \o y) = b
      /\ \A i \in 1..b : (l \o y)[i] = IF i <= a THEN l[i] ELSE y[i - a]
  <2>1. a + (b - a) = b
    OBVIOUS
  <2>. QED  BY <1>2, <1>3, <2>1, JoinIs
<1>5. ASSUME NEW i \in 1..b PROVE (l \o y)[i] = z[i]
  <2>1. CASE i <= a
    <3>1. i \in 1..a
      BY <2>1
    <3>. QED  BY <1>2, <1>4, <2>1, <3>1
  <2>2. CASE ~(i <= a)
    <3>1. i - a \in 1..(b - a) /\ a + (i - a) = i
      BY <2>2
    <3>2. y[i - a] = x[i]
      BY <1>3, <3>1
    <3>. QED  BY <1>2, <1>4, <2>2, <3>2
  <2>. QED  BY <2>1, <2>2
<1>6. l \o y = z
  BY <1>2, <1>4, <1>5, Alike
<1>. QED  BY <1>1, <1>2, <1>3, <1>6
Upto(p, x, i) == IF i * PieceSize(p) < Len(x) THEN i * PieceSize(p) ELSE Len(x)

\* Where the pieces begin and end.
LEMMA PiecesAre ==
    ASSUME NEW p \in Providers, NEW x, IsSequence(x)
    PROVE  /\ Len(Pieces(p, x)) \in Nat /\ Upto(p, x, 0) = 0 /\ Upto(p, x, Len(Pieces(p, x))) = Len(x)
           /\ \A i \in 1..Len(Pieces(p, x)) :
                 /\ Upto(p, x, i - 1) \in Nat /\ Upto(p, x, i) \in Nat
                 /\ Upto(p, x, i - 1) <= Upto(p, x, i) /\ Upto(p, x, i) <= Len(x)
                 /\ Pieces(p, x)[i] = SubSeq(x, Upto(p, x, i - 1) + 1, Upto(p, x, i))
<1>. DEFINE size == PieceSize(p)
            l == Len(x)
<1>1. size \in Nat \ {0} /\ l \in Nat
  BY Sizes, LengthOf DEF PieceSize, B
<1>2. Upto(p, x, 0) = 0
  <2>1. 0 * size = 0
    BY <1>1
  <2>. HIDE DEF size
  <2>2. \A i : Upto(p, x, i) = IF i * size < Len(x) THEN i * size ELSE Len(x)
    BY DEF Upto, size
  <2>. QED  BY <1>1, <2>1, <2>2
<1>3. \A i : Upto(p, x, i) = IF i * size < l THEN i * size ELSE l
  BY DEF Upto
<1>. DEFINE Piece(i) == SubSeq(x, (i - 1) * size + 1, IF i * size < l THEN i * size ELSE l)
<1>4. Pieces(p, x) = [i \in 1..((l + size - 1) \div size) |-> Piece(i)]
  BY Zenon DEF Pieces
<1>. HIDE DEF Piece
<1>. HIDE DEF size, l
<1>5. PICK n \in Nat, rem \in Nat : n = (l + size - 1) \div size /\ rem < size /\ l + size - 1 = n * size + rem
  <2>1. l + size - 1 \in Nat
    BY <1>1
  <2>2. \A a \in Nat : /\ a \div size \in Nat /\ a % size \in Nat /\ a % size < size
                       /\ a = (a \div size) * size + (a % size)
    BY <1>1
  <2>. QED  BY <2>1, <2>2
<1>6. Len(Pieces(p, x)) = n
  <2>1. Pieces(p, x) = [i \in 1..n |-> Piece(i)]
    BY <1>4, <1>5
  <2>2. Pieces(p, x) = [i \in 1..n |-> Pieces(p, x)[i]]
    BY <2>1
  <2>. QED  BY <2>2, MakeIs
<1>7. n * size \in Nat /\ n * size >= l
  BY <1>1, <1>5
<1>8. ASSUME NEW i \in 1..n
      PROVE  /\ (i - 1) * size \in Nat /\ (i - 1) * size < l /\ i * size = (i - 1) * size + size
  <2>1. PICK j \in Nat, k \in Nat : i = j + 1 /\ n = j + 1 + k
    <3>1. i - 1 \in Nat /\ n - i \in Nat /\ i = (i - 1) + 1 /\ n = (i - 1) + 1 + (n - i)
      OBVIOUS
    <3>. QED  BY <3>1
  <2>2. j * size \in Nat /\ k * size \in Nat /\ n * size = j * size + size + k * size
        /\ i * size = j * size + size
    BY <1>1, <2>1
  <2>3. j * size < l
    BY <1>1, <1>5, <2>2
  <2>. QED  BY <2>1, <2>2, <2>3
<1>9. ASSUME NEW i \in 1..n
      PROVE  /\ Upto(p, x, i - 1) \in Nat /\ Upto(p, x, i) \in Nat
             /\ Upto(p, x, i - 1) <= Upto(p, x, i) /\ Upto(p, x, i) <= l
             /\ Pieces(p, x)[i] = SubSeq(x, Upto(p, x, i - 1) + 1, Upto(p, x, i))
  <2>1. Upto(p, x, i - 1) = (i - 1) * size
    BY <1>3, <1>8
  <2>2. Upto(p, x, i) = IF i * size < l THEN i * size ELSE l
    BY <1>3
  <2>3. Pieces(p, x)[i] = SubSeq(x, (i - 1) * size + 1, IF i * size < l THEN i * size ELSE l)
    <3>1. Pieces(p, x) = [j \in 1..n |-> Piece(j)]
      BY <1>4, <1>5
    <3>2. Pieces(p, x)[i] = Piece(i)
      BY <3>1
    <3>. QED  BY <3>2 DEF Piece
  <2>4. Upto(p, x, i) \in Nat /\ (i - 1) * size <= Upto(p, x, i) /\ Upto(p, x, i) <= l
    BY <1>1, <1>8, <2>2
  <2>. QED  BY <1>8, <2>1, <2>2, <2>3, <2>4
<1>10. Upto(p, x, n) = l
  BY <1>1, <1>3, <1>7
<1>. QED  BY <1>2, <1>5, <1>6, <1>9, <1>10 DEF l

\* The pieces hash_stream() reads are one way to cut the input.
LEMMA HashStreamIs ==
    ASSUME NEW p \in Providers, NEW x, IsSequence(x)
    PROVE  HashStream(p, x) = Standard(p, x)
<1>. DEFINE pieces == Pieces(p, x)
            n == Len(pieces)
            Step(f) == [i \in 0..n |-> IF i = 0 THEN NewStream(p) ELSE Updated(f[i - 1], pieces[i])]
            read == CHOOSE f : f = Step(f)
            fold == [i \in 0..n |-> Fed(p, Taken(x, Upto(p, x, i)))]
<1>1. HashStream(p, x) = Result(read[n])
  BY DEF HashStream
<1>2. /\ n \in Nat /\ Upto(p, x, 0) = 0 /\ Upto(p, x, n) = Len(x)
      /\ \A i \in 1..n : /\ Upto(p, x, i - 1) \in Nat /\ Upto(p, x, i) \in Nat
                         /\ Upto(p, x, i - 1) <= Upto(p, x, i) /\ Upto(p, x, i) <= Len(x)
                         /\ pieces[i] = SubSeq(x, Upto(p, x, i - 1) + 1, Upto(p, x, i))
  BY PiecesAre
<1>. HIDE DEF pieces, n
<1>3. Len(x) \in Nat
  BY LengthOf
<1>4. fold[0] = NewStream(p)
  <2>1. Taken(x, 0) = <<>>
    <3>1. 0 \in 0..Len(x)
      BY <1>3
    <3>2. IsSequence(Taken(x, 0)) /\ Len(Taken(x, 0)) = 0
      BY <3>1, CutIs
    <3>. QED  BY <3>2, OnlyEmpty
  <2>2. fold[0] = Fed(p, Taken(x, 0))
    BY <1>2
  <2>. QED  BY <2>1, <2>2, NewIsFed
<1>5. ASSUME NEW i \in 1..n PROVE fold[i] = Updated(fold[i - 1], pieces[i])
  <2>1. PICK a \in Nat, b \in Nat : a = Upto(p, x, i - 1) /\ b = Upto(p, x, i) /\ a <= b /\ b <= Len(x)
    BY <1>2
  <2>2. /\ IsSequence(Taken(x, a)) /\ IsSequence(pieces[i])
        /\ Taken(x, a) \o pieces[i] = Taken(x, b)
    <3>1. pieces[i] = SubSeq(x, a + 1, b)
      BY <1>2, <2>1
    <3>2. /\ IsSequence(Taken(x, a)) /\ IsSequence(SubSeq(x, a + 1, b))
          /\ Taken(x, a) \o SubSeq(x, a + 1, b) = Taken(x, b)
      BY <2>1, PieceFits
    <3>. QED  BY <3>1, <3>2
  <2>3. fold[i] = Fed(p, Taken(x, b)) /\ fold[i - 1] = Fed(p, Taken(x, a))
    <3>1. i \in 0..n /\ i - 1 \in 0..n
      BY <1>2
    <3>. QED  BY <2>1, <3>1
  <2>4. Updated(Fed(p, Taken(x, a)), pieces[i]) = Fed(p, Taken(x, a) \o pieces[i])
    BY <2>2, UpdatedIs
  <2>. QED  BY <2>2, <2>3, <2>4
<1>6. fold = Step(fold)
  <2>1. \A i \in 0..n : fold[i] = Step(fold)[i]
    <3>. TAKE i \in 0..n
    <3>1. CASE i = 0
      BY <1>4, <3>1
    <3>2. CASE i # 0
      <4>1. i \in 1..n
        BY <1>2, <3>2
      <4>. QED  BY <1>5, <3>2, <4>1
    <3>. QED  BY <3>1, <3>2
  <2>. HIDE DEF Step
  <2>2. DOMAIN fold = 0..n /\ DOMAIN Step(fold) = 0..n
    BY DEF Step
  <2>3. fold = [i \in 0..n |-> fold[i]] /\ Step(fold) = [i \in 0..n |-> Step(fold)[i]]
    BY DEF Step
  <2>. QED  BY <2>1, <2>3
<1>7. read = Step(read)
  BY <1>6
<1>. HIDE DEF read, fold
<1>8. read[0] = NewStream(p) /\ \A i \in 1..n : read[i] = Updated(read[i - 1], pieces[i])
  <2>1. PICK f : f = read
    OBVIOUS
  <2>2. f = Step(f)
    BY <1>7, <2>1
  <2>3. f[0] = NewStream(p)
    BY <1>2, <2>2
  <2>4. ASSUME NEW i \in 1..n PROVE f[i] = Updated(f[i - 1], pieces[i])
    <3>1. i \in 0..n /\ i # 0
      BY <1>2
    <3>2. Step(f)[i] = Updated(f[i - 1], pieces[i])
      BY <3>1
    <3>. QED  BY <2>2, <3>2
  <2>. QED  BY <2>1, <2>3, <2>4
<1>9. \A i \in 0..n : read[i] = fold[i]
  <2>. DEFINE T == {i \in 0..n : read[i] # fold[i]}
  <2>1. SUFFICES ASSUME T # {} PROVE FALSE
    OBVIOUS
  <2>2. PICK i \in T : \A j \in T : ~(<<j, i>> \in OpToRel(<, Nat))
    <3>1. T \subseteq Nat
      BY <1>2
    <3>. HIDE DEF T
    <3>. QED  BY <2>1, <3>1, NatLessThanWellFounded, WFMin
  <2>3. i \in 1..n /\ i - 1 \in 0..n
    <3>1. i \in 0..n /\ read[i] # fold[i]
      BY <2>2
    <3>2. i # 0
      <4>1. read[0] = fold[0]
        BY <1>4, <1>8
      <4>. QED  BY <3>1, <4>1
    <3>. QED  BY <1>2, <3>1, <3>2
  <2>4. ~(i - 1 \in T)
    <3>1. ASSUME i - 1 \in T PROVE FALSE
      <4>1. ~(<<i - 1, i>> \in OpToRel(<, Nat))
        <5>. HIDE DEF T
        <5>. QED  BY <2>2, <3>1
      <4>2. i - 1 \in Nat /\ i \in Nat /\ i - 1 < i
        BY <1>2, <2>3
      <4>. QED  BY <4>1, <4>2 DEF OpToRel
    <3>. QED  BY <3>1
  <2>5. read[i - 1] = fold[i - 1]
    BY <2>3, <2>4
  <2>6. read[i] = fold[i]
    BY <1>5, <1>8, <2>3, <2>5
  <2>. QED  BY <2>2, <2>6
<1>10. fold[n] = Fed(p, Taken(x, Len(x)))
  BY <1>2 DEF fold
<1>11. Taken(x, Len(x)) = x
  <2>1. Len(x) \in 0..Len(x)
    BY <1>3
  <2>2. IsSequence(Taken(x, Len(x))) /\ Len(Taken(x, Len(x))) = Len(x) /\ \A i \in 1..Len(x) : Taken(x, Len(x))[i] = x[i]
    BY <2>1, CutIs
  <2>. QED  BY <2>2, Alike
<1>12. n \in 0..n
  BY <1>2
<1>. QED  BY <1>1, <1>9, <1>10, <1>11, <1>12, ResultIs
-----------------------------------------------------------------------------
(* Two messages never have the same digest: their blocks would differ. *)

\* Messages of whole blocks are known by their blocks.
LEMMA BlocksDiffer ==
    ASSUME NEW x, NEW y, IsSequence(x), IsSequence(y), NEW p \in Nat, NEW q \in Nat,
           Len(x) = p * B, Len(y) = q * B, Blocks(x) = Blocks(y)
    PROVE  x = y
<1>0. B \in Nat \ {0}
  BY Sizes
<1>1. /\ Len(Blocks(x)) = p
      /\ \A i \in 1..p : \A j \in 1..B : Blocks(x)[i][j] = x[(i - 1) * B + j]
  <2>1. Len(x) = p * B + 0 /\ 0 \in 0..(B - 1)
    BY <1>0
  <2>2. CutUp(x, p, 0)
    BY <2>1, BlocksAre
  <2>. QED  BY <2>2 DEF CutUp
<1>2. /\ Len(Blocks(y)) = q
      /\ \A i \in 1..q : \A j \in 1..B : Blocks(y)[i][j] = y[(i - 1) * B + j]
  <2>1. Len(y) = q * B + 0 /\ 0 \in 0..(B - 1)
    BY <1>0
  <2>2. CutUp(y, q, 0)
    BY <2>1, BlocksAre
  <2>. QED  BY <2>2 DEF CutUp
<1>3. p = q
  BY <1>1, <1>2
<1>4. ASSUME NEW k \in 1..Len(x) PROVE x[k] = y[k]
  <2>1. k \in Nat /\ k - 1 \in Nat /\ p * B \in Nat /\ k <= p * B
    BY <1>0, LengthOf
  <2>2. PICK d \in Nat, r \in 0..(B - 1) : k - 1 = d * B + r
    BY <2>1, Division
  <2>3. d * B \in Nat /\ d < p
    <3>1. d * B \in Nat /\ d * B < p * B
      BY <1>0, <2>1, <2>2
    <3>2. ASSUME d >= p PROVE FALSE
      <4>1. PICK e \in Nat : d = p + e
        <5>1. d - p \in Nat /\ d = p + (d - p)
          BY <3>2
        <5>. QED  BY <5>1
      <4>2. d * B = p * B + e * B /\ e * B \in Nat
        BY <1>0, <4>1
      <4>. QED  BY <2>1, <3>1, <4>2
    <3>. QED  BY <3>1, <3>2
  <2>4. PICK i \in 1..p, j \in 1..B : i = d + 1 /\ j = r + 1
    <3>1. d + 1 \in 1..p /\ r + 1 \in 1..B
      BY <1>0, <2>3
    <3>. QED  BY <3>1
  <2>5. (i - 1) * B + j = k
    <3>1. i - 1 = d
      BY <2>4
    <3>. QED  BY <2>1, <2>2, <2>3, <2>4, <3>1
  <2>6. Blocks(x)[i][j] = x[(i - 1) * B + j]
    BY ONLY <1>1
  <2>7. Blocks(y)[i][j] = y[(i - 1) * B + j]
    BY ONLY <1>2, <1>3
  <2>8. Blocks(x)[i][j] = Blocks(y)[i][j]
    OBVIOUS
  <2>. QED  BY ONLY <2>5, <2>6, <2>7, <2>8
<1>. QED  BY <1>3, <1>4, Alike

\* The mark is the last byte before the length that is not zero.
Marked(x, m, z) ==
    /\ Len(x) = Len(m) + 1 + z + LengthSize
    /\ x[Len(m) + 1] = Byte(128)
    /\ \A t \in 1..z : x[Len(m) + 1 + t] = Byte(0)
    /\ Taken(x, Len(m)) = m

\* Where the mark and the zeros are.
LEMMA PaddedAt ==
    ASSUME NEW m, IsSequence(m), NEW z \in Nat, NEW n, NEW x, x = m \o Padding(z, n)
    PROVE  Marked(x, m, z)
<1>1. PICK k, a, l : k = Mark /\ a = Zeros(z) /\ l = LengthBytes(n)
  OBVIOUS
<1>2. /\ IsSequence(k) /\ Len(k) = 1 /\ k[1] = Byte(128)
      /\ IsSequence(a) /\ Len(a) = z /\ \A i \in 1..z : a[i] = Byte(0)
      /\ IsSequence(l) /\ Len(l) = LengthSize
      /\ LengthSize \in Nat /\ Len(m) \in Nat
  BY <1>1, BytesAre, Sizes, LengthOf
<1>3. PICK c : c = k \o a
  OBVIOUS
<1>4. /\ IsSequence(c) /\ Len(c) = 1 + z
      /\ \A i \in 1..1 : c[i] = k[i]
      /\ \A i \in 1..z : c[1 + i] = a[i]
  <2>1. /\ IsSequence(c) /\ Len(c) = Len(k) + Len(a)
        /\ \A i \in 1..Len(k) : c[i] = k[i]
        /\ \A i \in 1..Len(a) : c[Len(k) + i] = a[i]
    <3>1. IsSequence(k) /\ IsSequence(a)
      BY <1>2
    <3>2. /\ IsSequence(k \o a) /\ Len(k \o a) = Len(k) + Len(a)
          /\ \A i \in 1..Len(k) : (k \o a)[i] = k[i]
          /\ \A i \in 1..Len(a) : (k \o a)[Len(k) + i] = a[i]
      BY ONLY <3>1, JoinIs
    <3>. QED  BY <1>3, <3>2
  <2>. QED  BY <1>2, <2>1
<1>5. PICK d : d = c \o l
  OBVIOUS
<1>6. /\ IsSequence(d) /\ Len(d) = 1 + z + LengthSize
      /\ \A i \in 1..(1 + z) : d[i] = c[i]
  BY <1>2, <1>4, <1>5, JoinIs
<1>7. x = m \o d
  BY <1>1, <1>3, <1>5 DEF Padding
<1>8. /\ IsSequence(x) /\ Len(x) = Len(m) + Len(d)
      /\ \A i \in 1..Len(d) : x[Len(m) + i] = d[i]
  <2>1. IsSequence(m) /\ IsSequence(d)
    BY <1>6
  <2>2. /\ IsSequence(m \o d) /\ Len(m \o d) = Len(m) + Len(d)
        /\ \A i \in 1..Len(d) : (m \o d)[Len(m) + i] = d[i]
    BY ONLY <2>1, JoinIs
  <2>. QED  BY <1>7, <2>2
<1>9. x[Len(m) + 1] = Byte(128)
  <2>1. 1 \in 1..Len(d) /\ 1 \in 1..(1 + z) /\ 1 \in 1..1
    BY <1>2, <1>6
  <2>. QED  BY <1>2, <1>4, <1>6, <1>8, <2>1
<1>10. ASSUME NEW t \in 1..z PROVE x[Len(m) + 1 + t] = Byte(0)
  <2>1. 1 + t \in 1..Len(d) /\ 1 + t \in 1..(1 + z) /\ Len(m) + 1 + t = Len(m) + (1 + t)
    BY <1>2, <1>6
  <2>2. x[Len(m) + (1 + t)] = d[1 + t] /\ d[1 + t] = c[1 + t] /\ c[1 + t] = a[t]
    BY <1>4, <1>6, <1>8, <2>1
  <2>. QED  BY <1>2, <2>1, <2>2
<1>11. Taken(x, Len(m)) = m
  BY <1>6, <1>7, CutJoin
<1>12. Len(x) = Len(m) + 1 + z + LengthSize
  BY <1>2, <1>6, <1>8
<1>. QED  BY <1>9, <1>10, <1>11, <1>12 DEF Marked

\* One padded text has one mark.
LEMMA PaddingsDiffer ==
    ASSUME NEW m, NEW n, IsSequence(m), IsSequence(n), NEW y \in Nat, NEW z \in Nat,
           m \o Padding(y, 8 * Len(m)) = n \o Padding(z, 8 * Len(n))
    PROVE  ~(Len(m) < Len(n))
<1>0. Len(m) \in Nat /\ Len(n) \in Nat /\ LengthSize \in Nat
  BY Sizes, LengthOf
<1>1. PICK x, c, d : /\ c = 8 * Len(m) /\ d = 8 * Len(n)
                     /\ x = m \o Padding(y, c) /\ x = n \o Padding(z, d)
  OBVIOUS
<1>2. /\ Len(x) = Len(m) + 1 + y + LengthSize
      /\ \A t \in 1..y : x[Len(m) + 1 + t] = Byte(0)
  <2>1. Marked(x, m, y)
    BY <1>1, PaddedAt
  <2>. QED  BY <2>1 DEF Marked
<1>3. Len(x) = Len(n) + 1 + z + LengthSize /\ x[Len(n) + 1] = Byte(128)
  <2>1. Marked(x, n, z)
    BY <1>1, PaddedAt
  <2>. QED  BY <2>1 DEF Marked
<1>4. ASSUME Len(m) < Len(n) PROVE FALSE
  <2>1. PICK t \in 1..y : Len(m) + 1 + t = Len(n) + 1
    <3>1. Len(n) - Len(m) \in 1..y /\ Len(m) + 1 + (Len(n) - Len(m)) = Len(n) + 1
      BY <1>0, <1>2, <1>3, <1>4
    <3>. QED  BY <3>1
  <2>2. x[Len(m) + 1 + t] = Byte(0)
    BY <1>2
  <2>. QED  BY <1>3, <2>1, <2>2, BytesAre
<1>. QED  BY <1>4

\* Digests of two messages differ, compression left out.
LEMMA StandardsDiffer ==
    ASSUME NEW p \in Providers, NEW m, NEW n, IsSequence(m), IsSequence(n),
           Standard(p, m) = Standard(p, n)
    PROVE  m = n
<1>1. (IF p = "crc32" THEN m ELSE StandardBlocks(m)) = (IF p = "crc32" THEN n ELSE StandardBlocks(n))
  <2>1. PICK a, b : /\ a = (IF p = "crc32" THEN m ELSE StandardBlocks(m))
                    /\ b = (IF p = "crc32" THEN n ELSE StandardBlocks(n))
    OBVIOUS
  <2>2. /\ Standard(p, m) = [i \in 1..ResultSize |-> [byte |-> i, of |-> a]]
        /\ Standard(p, n) = [i \in 1..ResultSize |-> [byte |-> i, of |-> b]]
    BY <2>1 DEF Standard
  <2>3. 1 \in 1..ResultSize
    BY Sizes
  <2>4. Standard(p, m)[1] = [byte |-> 1, of |-> a] /\ Standard(p, n)[1] = [byte |-> 1, of |-> b]
    BY <2>2, <2>3
  <2>5. [byte |-> 1, of |-> a].of = [byte |-> 1, of |-> b].of
    BY <2>4
  <2>. QED  BY <2>1, <2>5
<1>2. CASE p # "crc32"
  <2>0. B \in Nat \ {0} /\ Len(m) \in Nat /\ Len(n) \in Nat
    BY Sizes, LengthOf
  <2>1. PICK y, z : y = Fill(Len(m) % B) /\ z = Fill(Len(n) % B)
    OBVIOUS
  <2>2. PICK v, w : v = m \o Padding(y, 8 * Len(m)) /\ w = n \o Padding(z, 8 * Len(n))
    OBVIOUS
  <2>3. y \in 0..(B - 1) /\ StandardBlocks(m) = Blocks(v) /\ IsSequence(v) /\ \E q \in Nat : Len(v) = q * B
    BY <2>1, <2>2, WholeFilling
  <2>4. z \in 0..(B - 1) /\ StandardBlocks(n) = Blocks(w) /\ IsSequence(w) /\ \E q \in Nat : Len(w) = q * B
    BY <2>1, <2>2, WholeFilling
  <2>5. v = w
    <3>1. PICK c \in Nat, d \in Nat : Len(v) = c * B /\ Len(w) = d * B
      BY <2>3, <2>4
    <3>2. Blocks(v) = Blocks(w)
      BY <1>1, <1>2, <2>3, <2>4
    <3>. QED  BY <2>3, <2>4, <3>1, <3>2, BlocksDiffer
  <2>6. y \in Nat /\ z \in Nat
    BY <2>0, <2>3, <2>4
  <2>7. ~(Len(m) < Len(n)) /\ ~(Len(n) < Len(m))
    BY <2>2, <2>5, <2>6, PaddingsDiffer
  <2>8. Len(m) = Len(n)
    BY <2>0, <2>7
  <2>9. PICK c, d : c = 8 * Len(m) /\ d = 8 * Len(n)
    OBVIOUS
  <2>10. v = m \o Padding(y, c) /\ w = n \o Padding(z, d)
    BY <2>2, <2>9
  <2>11. Taken(v, Len(m)) = m
    <3>1. Marked(v, m, y)
      BY <2>6, <2>10, PaddedAt
    <3>. QED  BY <3>1 DEF Marked
  <2>12. Taken(w, Len(n)) = n
    <3>1. Marked(w, n, z)
      BY <2>6, <2>10, PaddedAt
    <3>. QED  BY <3>1 DEF Marked
  <2>. QED  BY <2>5, <2>8, <2>11, <2>12
<1>. QED  BY <1>1, <1>2
-----------------------------------------------------------------------------
(* Tags. *)

\* The key a provider of blocks works with, and its bytes, filled with zeros.
Whole(p, key) == IF Len(key) > B THEN Standard(p, key) ELSE key
KeyAt(key, i) == IF i <= Len(key) THEN key[i] ELSE Byte(0)
Inner(p, key, m) == Standard(p, Keyed(key, B, 54) \o m)

\* A digest has ResultSize bytes.
LEMMA StandardIs ==
    ASSUME NEW p, NEW m
    PROVE  IsSequence(Standard(p, m)) /\ Len(Standard(p, m)) = ResultSize /\ Standard(p, m) # <<>>
<1>1. ResultSize \in Nat \ {0}
  BY Sizes
<1>2. Standard(p, m) = [i \in 1..ResultSize |-> Standard(p, m)[i]]
  BY DEF Standard
<1>3. IsSequence(Standard(p, m)) /\ Len(Standard(p, m)) = ResultSize
  BY <1>1, <1>2, MakeIs
<1>. QED  BY <1>1, <1>3, EmptyIs

\* A block of a key is known by the bytes of the key.
LEMMA KeyedIs ==
    ASSUME NEW k, NEW l, NEW pad
    PROVE  /\ IsSequence(Keyed(k, B, pad)) /\ Len(Keyed(k, B, pad)) = B
           /\ Keyed(k, B, pad) = Keyed(l, B, pad) <=> \A i \in 1..B : KeyAt(k, i) = KeyAt(l, i)
<1>1. \A key : Keyed(key, B, pad) = [i \in 1..B |-> [xor |-> pad, byte |-> KeyAt(key, i)]]
  BY DEF Keyed, KeyAt
<1>2. IsSequence(Keyed(k, B, pad)) /\ Len(Keyed(k, B, pad)) = B
  <2>1. Keyed(k, B, pad) = [i \in 1..B |-> Keyed(k, B, pad)[i]]
    BY <1>1
  <2>. QED  BY <2>1, Sizes, MakeIs
<1>3. ASSUME Keyed(k, B, pad) = Keyed(l, B, pad), NEW i \in 1..B PROVE KeyAt(k, i) = KeyAt(l, i)
  <2>1. /\ Keyed(k, B, pad)[i] = [xor |-> pad, byte |-> KeyAt(k, i)]
        /\ Keyed(l, B, pad)[i] = [xor |-> pad, byte |-> KeyAt(l, i)]
    BY <1>1
  <2>2. [xor |-> pad, byte |-> KeyAt(k, i)].byte = [xor |-> pad, byte |-> KeyAt(l, i)].byte
    BY <1>3, <2>1
  <2>. QED  BY <2>2
<1>4. ASSUME \A i \in 1..B : KeyAt(k, i) = KeyAt(l, i) PROVE Keyed(k, B, pad) = Keyed(l, B, pad)
  BY <1>1, <1>4
<1>. QED  BY <1>2, <1>3, <1>4

\* The inner digest.
LEMMA InnerIs ==
    ASSUME NEW p \in Providers, NEW k, NEW m, IsSequence(m)
    PROVE  IsSequence(Keyed(k, B, 54) \o m) /\ IsSequence(Inner(p, k, m))
           /\ IsSequence(Keyed(k, B, 92) \o Inner(p, k, m))
           /\ Hash(p, Keyed(k, B, 54) \o m) = Inner(p, k, m)
<1>1. IsSequence(Keyed(k, B, 54) \o m)
  BY KeyedIs, JoinIs
<1>2. IsSequence(Inner(p, k, m))
  BY StandardIs DEF Inner
<1>3. IsSequence(Keyed(k, B, 92) \o Inner(p, k, m))
  BY <1>2, KeyedIs, JoinIs
<1>4. Hash(p, Keyed(k, B, 54) \o m) = Inner(p, k, m)
  BY <1>1, HashIs DEF Inner
<1>. QED  BY <1>1, <1>2, <1>3, <1>4

\* A hashed key always fits: compute() does not throw.
LEMMA HmacIs ==
    ASSUME NEW p \in Providers, p # "crc32", NEW m, NEW k, IsSequence(m), IsSequence(k)
    PROVE  Hmac(p, m, k) = Standard(p, Keyed(Whole(p, k), B, 92) \o Inner(p, Whole(p, k), m))
<1>1. PieceSize(p) = B
  BY DEF PieceSize, B
<1>2. NormalizedKey(p, k) = Whole(p, k)
  BY <1>1, HashIs DEF NormalizedKey, Whole
<1>3. PICK w : w = Whole(p, k)
  OBVIOUS
<1>4. ~(Len(w) > B)
  BY <1>3, StandardIs, Sizes, LengthOf DEF Whole
<1>5. Hmac(p, m, k) = Hash(p, Keyed(w, B, 92) \o Hash(p, Keyed(w, B, 54) \o m))
  BY <1>1, <1>2, <1>3, <1>4 DEF Hmac
<1>6. PICK x : x = Keyed(w, B, 92) \o Inner(p, w, m)
  OBVIOUS
<1>7. IsSequence(x) /\ Hash(p, Keyed(w, B, 54) \o m) = Inner(p, w, m)
  BY <1>6, InnerIs
<1>8. Hash(p, x) = Standard(p, x)
  BY <1>7, HashIs
<1>. QED  BY <1>3, <1>5, <1>6, <1>7, <1>8

\* Tags are equal only for equal messages and equal keys.
LEMMA TagsDiffer ==
    ASSUME NEW p \in Providers, p # "crc32", NEW m, NEW n, NEW k, NEW l,
           IsSequence(m), IsSequence(n), IsSequence(k), IsSequence(l)
    PROVE  Hmac(p, m, k) = Hmac(p, n, l) <=> m = n /\ SameKey(p, k, l)
<1>1. PICK v, w : v = Whole(p, k) /\ w = Whole(p, l)
  OBVIOUS
<1>2. SameKey(p, k, l) <=> \A i \in 1..B : KeyAt(v, i) = KeyAt(w, i)
  <2>1. PieceSize(p) = B
    BY DEF PieceSize, B
  <2>. QED  BY <1>1, <2>1 DEF SameKey, Whole, KeyAt
<1>3. PICK x, y : x = Inner(p, v, m) /\ y = Inner(p, w, n)
  OBVIOUS
<1>4. PICK a, b, c, d : /\ a = Keyed(v, B, 92) /\ b = Keyed(w, B, 92)
                        /\ c = Keyed(v, B, 54) /\ d = Keyed(w, B, 54)
  OBVIOUS
<1>5. /\ IsSequence(a) /\ IsSequence(b) /\ IsSequence(c) /\ IsSequence(d)
      /\ Len(a) = Len(b) /\ Len(c) = Len(d)
      /\ (c = d <=> \A i \in 1..B : KeyAt(v, i) = KeyAt(w, i))
      /\ (a = b <=> \A i \in 1..B : KeyAt(v, i) = KeyAt(w, i))
  BY <1>4, KeyedIs
<1>6. /\ IsSequence(x) /\ IsSequence(y) /\ IsSequence(a \o x) /\ IsSequence(b \o y)
      /\ IsSequence(c \o m) /\ IsSequence(d \o n)
  BY <1>3, <1>4, InnerIs
<1>7. x = Standard(p, c \o m) /\ y = Standard(p, d \o n)
  BY <1>3, <1>4 DEF Inner
<1>8. Hmac(p, m, k) = Standard(p, a \o x) /\ Hmac(p, n, l) = Standard(p, b \o y)
  BY <1>1, <1>3, <1>4, HmacIs
<1>9. ASSUME Hmac(p, m, k) = Hmac(p, n, l) PROVE m = n /\ SameKey(p, k, l)
  <2>1. a \o x = b \o y
    BY <1>6, <1>8, <1>9, StandardsDiffer
  <2>2. a = b /\ x = y
    <3>1. Taken(a \o x, Len(a)) = a /\ Dropped(a \o x, Len(a)) = x
      BY <1>5, <1>6, CutJoin
    <3>2. Taken(b \o y, Len(b)) = b /\ Dropped(b \o y, Len(b)) = y
      BY <1>5, <1>6, CutJoin
    <3>. QED  BY <1>5, <2>1, <3>1, <3>2
  <2>3. c \o m = d \o n
    BY <1>6, <1>7, <2>2, StandardsDiffer
  <2>4. m = n
    <3>1. Dropped(c \o m, Len(c)) = m
      BY <1>5, CutJoin
    <3>2. Dropped(d \o n, Len(d)) = n
      BY <1>5, CutJoin
    <3>. QED  BY <1>5, <2>3, <3>1, <3>2
  <2>. QED  BY <1>2, <1>5, <2>2, <2>4
<1>10. ASSUME m = n, SameKey(p, k, l) PROVE Hmac(p, m, k) = Hmac(p, n, l)
  <2>1. a = b /\ c = d
    BY <1>2, <1>5, <1>10
  <2>. QED  BY <1>7, <1>8, <1>10, <2>1
<1>. QED  BY <1>9, <1>10

-----------------------------------------------------------------------------
(* Until end() is called, a stream is what it was fed, however it was cut; *)
(* then its digest stands.                                                 *)

StreamsAreFed ==
    /\ hasher.of \in Providers
    /\ IsSequence(fed)
    /\ digest = <<>> => hasher = Fed(hasher.of, fed)
    /\ DigestIsStandard

\* Messages are sequences.
LEMMA MessageIs == ASSUME NEW f, NEW n \in Nat PROVE IsSequence(Message(f, n))
<1>1. Message(f, n) = [i \in 1..n |-> Message(f, n)[i]]
  BY DEF Message
<1>. QED  BY <1>1, MakeIs

\* The keys of TagsSeparate are.
LEMMA KeysAre == ASSUME NEW k \in HmacKeys PROVE IsSequence(k)
<1>0. B \in Nat \ {0} /\ B = BlockSize
  BY Sizes
<1>1. \A f : \A n \in Nat : IsSequence(Message(f, n)) /\ IsSequence(Append(Message(f, n), Byte(0)))
  <2>. TAKE f
  <2>. TAKE n \in Nat
  <2>1. PICK m, s : m = Message(f, n) /\ s = <<Byte(0)>>
    OBVIOUS
  <2>2. IsSequence(m) /\ IsSequence(s)
    BY <2>1, MessageIs, SingleIs
  <2>3. Append(m, Byte(0)) = m \o s
    BY <2>1, <2>2, AppendIs
  <2>. QED  BY <2>1, <2>2, <2>3, JoinIs
<1>2. CASE \E f \in {0, 1}, n \in 0..(BlockSize + 1) : k = Message(f, n)
  BY <1>0, <1>1, <1>2
<1>3. CASE \E n \in 0..BlockSize : k = Append(Message(0, n), Byte(0))
  BY <1>0, <1>1, <1>3
<1>. QED  BY <1>2, <1>3 DEF HmacKeys

\* The property follows from the invariant.
LEMMA Follows == ASSUME StreamsAreFed PROVE DigestsAreStandard
<1>1. ShortcutsAgree
  BY HashIs, HashStreamIs DEF ShortcutsAgree, StreamsAreFed
<1>2. TagsSeparate
  <2>1. SUFFICES ASSUME hasher.of # "crc32", NEW k \in HmacKeys, NEW l \in HmacKeys,
                        NEW n \in {fed, Append(fed, Byte(0)), Taken(fed, Len(fed) - 1)}
                 PROVE  Hmac(hasher.of, fed, k) = Hmac(hasher.of, n, l)
                          <=> fed = n /\ SameKey(hasher.of, k, l)
    BY DEF TagsSeparate
  <2>2. PICK p, m : p = hasher.of /\ m = fed
    OBVIOUS
  <2>3. p \in Providers /\ p # "crc32" /\ IsSequence(m) /\ IsSequence(k) /\ IsSequence(l)
    BY <2>1, <2>2, KeysAre DEF StreamsAreFed
  <2>4. IsSequence(n)
    <3>1. IsSequence(Append(m, Byte(0)))
      <4>1. PICK s : s = <<Byte(0)>>
        OBVIOUS
      <4>2. IsSequence(s) /\ Append(m, Byte(0)) = m \o s
        BY <2>3, <4>1, SingleIs, AppendIs
      <4>. QED  BY <2>3, <4>2, JoinIs
    <3>2. IsSequence(Taken(m, Len(m) - 1))
      <4>1. Len(m) \in Nat
        BY <2>3, LengthOf
      <4>2. CASE Len(m) = 0
        <5>1. SubSeq(m, 1, Len(m) - 1) = <<>>
          BY <4>1, <4>2, SubSeqEmpty
        <5>. QED  BY <5>1, EmptyIs DEF Taken
      <4>3. CASE Len(m) # 0
        <5>1. Len(m) - 1 \in 0..Len(m)
          BY <4>1, <4>3
        <5>. QED  BY <2>3, <5>1, CutIs
      <4>. QED  BY <4>2, <4>3
    <3>. QED  BY <2>2, <2>3, <3>1, <3>2
  <2>5. Hmac(p, m, k) = Hmac(p, n, l) <=> m = n /\ SameKey(p, k, l)
    BY <2>3, <2>4, TagsDiffer
  <2>. QED  BY <2>2, <2>5
<1>. QED  BY <1>1, <1>2 DEF DigestsAreStandard, StreamsAreFed

\* However a message was cut into chunks, a digest is that of the standards, in
\* sha256's two implementations as in the others, and tags are equal only for
\* equal messages and equal keys.
THEOREM StandardsHold == DigestSpec => []DigestsAreStandard
<1>1. DigestInit => StreamsAreFed
  <2>1. SUFFICES ASSUME DigestInit PROVE StreamsAreFed
    OBVIOUS
  <2>2. PICK p \in Providers : hasher = NewStream(p)
    BY <2>1 DEF DigestInit
  <2>3. fed = <<>> /\ digest = <<>> /\ IsSequence(fed) /\ hasher = Fed(p, fed)
    BY <2>1, <2>2, EmptyIs, NewIsFed DEF DigestInit
  <2>4. hasher.of = p
    BY <2>3, FedIs
  <2>. QED  BY <2>3, <2>4 DEF StreamsAreFed, DigestIsStandard
<1>2. StreamsAreFed /\ [DigestNext]_digestVars => StreamsAreFed'
  <2>. SUFFICES ASSUME StreamsAreFed, [DigestNext]_digestVars PROVE StreamsAreFed'
    OBVIOUS
  <2>1. CASE Update
    <3>1. PICK p \in Providers : p = hasher.of /\ digest = <<>> /\ digest' = <<>> /\ hasher = Fed(p, fed) /\ IsSequence(fed)
      BY <2>1 DEF Update, StreamsAreFed
    <3>2. PICK n \in 0..(MaxMessage - Len(fed)) :
             hasher' = Updated(hasher, Message(Len(fed), n)) /\ fed' = fed \o Message(Len(fed), n)
      BY <2>1 DEF Update
    <3>3. PICK c : c = Message(Len(fed), n) /\ IsSequence(c)
      <4>1. n \in Nat
        BY <3>2, BlockAssumption
      <4>. QED  BY <4>1, MessageIs
    <3>4. hasher' = Fed(p, fed \o c) /\ fed' = fed \o c
      BY <3>1, <3>2, <3>3, UpdatedIs
    <3>5. IsSequence(fed') /\ hasher'.of = p
      BY <3>1, <3>3, <3>4, JoinIs, FedIs
    <3>. QED  BY <3>1, <3>4, <3>5 DEF StreamsAreFed, DigestIsStandard
  <2>2. CASE End
    <3>1. PICK p \in Providers : p = hasher.of /\ hasher = Fed(p, fed) /\ IsSequence(fed)
      BY <2>2 DEF End, StreamsAreFed
    <3>2. digest' = Result(Fed(p, fed)) /\ hasher' = Finished(Fed(p, fed)) /\ fed' = fed
      BY <2>2, <3>1 DEF End
    <3>3. digest' = Standard(p, fed) /\ hasher'.of = p
      BY <3>1, <3>2, ResultIs
    <3>4. digest' # <<>>
      BY <3>3, StandardIs
    <3>. QED  BY <3>1, <3>2, <3>3, <3>4 DEF StreamsAreFed, DigestIsStandard
  <2>3. CASE UNCHANGED digestVars
    BY <2>3 DEF digestVars, StreamsAreFed, DigestIsStandard
  <2>. QED  BY <2>1, <2>2, <2>3 DEF DigestNext
<1>3. StreamsAreFed => DigestsAreStandard
  BY Follows
<1>. QED  BY <1>1, <1>2, <1>3, PTL DEF DigestSpec
=============================================================================
