--------------------------- MODULE Cipher_proofs ---------------------------
(***************************************************************************)
(* For blocks and bytes of any size, every permutation of the blocks and   *)
(* every xor: enciphering, deciphering and the stream are implementations  *)
(* of one one-to-one correspondence of texts.                              *)
(***************************************************************************)
EXTENDS Cipher, SequenceTheorems, WellFoundedInduction, TLAPS

B == CipherBlock
Texts == Seq(CipherBytes)

\* What CipherAssumption says of the sizes.
LEMMA CipherSizes == /\ B \in Nat \ {0} /\ B = CipherBlock /\ ByteValues \in Nat /\ B < ByteValues
                     /\ 1..B \subseteq CipherBytes
BY CipherAssumption DEF CipherAssumption, B, CipherBytes

\* What it says of the rounds.
LEMMA RoundsAreInverse ==
    ASSUME NEW b \in CipherBlocks
    PROVE  /\ EncryptBlock(b) \in CipherBlocks /\ DecryptBlock(EncryptBlock(b)) = b
           /\ DecryptBlock(b) \in CipherBlocks /\ EncryptBlock(DecryptBlock(b)) = b
BY CipherAssumption DEF CipherAssumption

\* A block is the function of its bytes.
LEMMA BlocksAlike ==
    ASSUME NEW b \in CipherBlocks, NEW c \in CipherBlocks, \A j \in 1..B : b[j] = c[j]
    PROVE  b = c
<1>1. b = [j \in 1..B |-> b[j]] /\ c = [j \in 1..B |-> c[j]]
  BY DEF CipherBlocks, B
<1>. QED  BY <1>1

\* Mixing twice with one block undoes itself.
LEMMA MixedIs ==
    ASSUME NEW b \in CipherBlocks, NEW c \in CipherBlocks
    PROVE  Mixed(b, c) \in CipherBlocks /\ Mixed(Mixed(b, c), c) = b
<1>1. \A x, y \in CipherBytes : CipherXor(x, y) \in CipherBytes /\ CipherXor(CipherXor(x, y), y) = x
  BY CipherAssumption DEF CipherAssumption
<1>2. \A j \in 1..CipherBlock : b[j] \in CipherBytes /\ c[j] \in CipherBytes
  BY DEF CipherBlocks
<1>3. Mixed(b, c) \in CipherBlocks
  BY <1>1, <1>2 DEF Mixed, CipherBlocks
<1>4. \A j \in 1..CipherBlock : Mixed(Mixed(b, c), c)[j] = b[j]
  BY <1>1, <1>2 DEF Mixed
<1>5. b = [j \in 1..CipherBlock |-> b[j]]
  BY DEF CipherBlocks
<1>6. Mixed(Mixed(b, c), c) = [j \in 1..CipherBlock |-> Mixed(Mixed(b, c), c)[j]]
  BY DEF Mixed
<1>. QED  BY <1>3, <1>4, <1>5, <1>6

\* A set of numbers has a least one.
LEMMA LeastOf ==
    ASSUME NEW S, S \subseteq Nat, S # {}
    PROVE  \E n \in S : \A m \in S : ~(m < n)
<1>1. PICK n \in S : \A m \in S : ~(<<m, n>> \in OpToRel(<, Nat))
  BY NatLessThanWellFounded, WFMin
<1>. QED  BY <1>1 DEF OpToRel

-----------------------------------------------------------------------------
(* Texts and their blocks. *)

\* A text of q whole blocks.
Whole(x, q) == x \in Texts /\ q \in Nat /\ Len(x) = q * B

\* Every length is whole blocks and a rest.
LEMMA Division ==
    ASSUME NEW n \in Nat
    PROVE  \E q \in Nat : \E r \in 0..(B - 1) : n = q * B + r /\ n \div B = q /\ n % B = r
<1>1. n \div B \in Nat /\ (n % B) \in 0..(B - 1) /\ n = (n \div B) * B + (n % B)
  BY CipherSizes
<1>. QED  BY <1>1

\* There is one way to write it so.
LEMMA Quotient ==
    ASSUME NEW q \in Nat, NEW r \in 0..(B - 1)
    PROVE  (q * B + r) \div B = q /\ (q * B + r) % B = r /\ q * B \in Nat
BY CipherSizes

\* Where a block begins and ends.
LEMMA BlockPlace ==
    ASSUME NEW q \in Nat, NEW i \in 1..q
    PROVE  /\ (i - 1) * B \in Nat /\ i * B \in Nat /\ i * B = (i - 1) * B + B /\ i * B <= q * B
<1>1. i - 1 \in Nat /\ q - i \in Nat /\ B \in Nat /\ i \in Nat
  BY CipherSizes
<1>2. (i - 1) * B \in Nat /\ (q - i) * B \in Nat /\ i * B \in Nat /\ q * B \in Nat
  BY <1>1
<1>3. i * B = (i - 1) * B + B
  BY <1>1
<1>4. q * B = i * B + (q - i) * B
  BY <1>1
<1>. QED  BY <1>2, <1>3, <1>4

\* The place of a byte: its block, and its place there.
LEMMA BytePlace ==
    ASSUME NEW q \in Nat, NEW k \in 1..(q * B)
    PROVE  \E i \in 1..q : \E j \in 1..B :
              k = (i - 1) * B + j /\ ((k - 1) \div CipherBlock) + 1 = i /\ ((k - 1) % CipherBlock) + 1 = j
<1>0. k - 1 \in Nat /\ q * B \in Nat /\ k - 1 < q * B
  BY CipherSizes
<1>1. PICK m \in Nat, r \in 0..(B - 1) : k - 1 = m * B + r /\ (k - 1) \div B = m /\ (k - 1) % B = r
  BY <1>0, Division
<1>2. m < q
  <2>1. SUFFICES ASSUME ~(m < q) PROVE FALSE
    OBVIOUS
  <2>2. m - q \in Nat
    BY <2>1
  <2>3. (m - q) * B \in Nat /\ m * B = q * B + (m - q) * B
    BY <2>2, CipherSizes
  <2>. QED  BY <1>0, <1>1, <2>3, CipherSizes
<1>3. m + 1 \in 1..q /\ r + 1 \in 1..B /\ k = m * B + (r + 1) /\ (m + 1) - 1 = m
  BY <1>0, <1>1, <1>2, CipherSizes
<1>. QED  BY <1>1, <1>3, CipherSizes

\* The bytes of a block.
LEMMA BlockIs ==
    ASSUME NEW x \in Texts, NEW q \in Nat, q * B <= Len(x), NEW i \in 1..q
    PROVE  /\ BlockOf(x, i) \in CipherBlocks
           /\ \A j \in 1..B : BlockOf(x, i)[j] = x[(i - 1) * B + j]
<1>1. PICK m : m = (i - 1) * B
  OBVIOUS
<1>2. m \in Nat /\ i * B = m + B /\ m + B <= Len(x) /\ Len(x) \in Nat /\ B \in Nat
  BY <1>1, BlockPlace, CipherSizes DEF Texts
<1>3. BlockOf(x, i) = SubSeq(x, m + 1, m + B)
  BY <1>1, <1>2 DEF BlockOf, B
<1>4. \A k \in (m + 1)..(m + B) : x[k] \in CipherBytes
  BY <1>2 DEF Texts
<1>5. /\ SubSeq(x, m + 1, m + B) \in Seq(CipherBytes)
      /\ Len(SubSeq(x, m + 1, m + B)) = B
      /\ \A j \in 1..B : SubSeq(x, m + 1, m + B)[j] = x[m + j]
  BY <1>2, <1>4, SubSeqProperties, CipherSizes
<1>6. SubSeq(x, m + 1, m + B) \in [1..B -> CipherBytes]
  BY <1>5, LenProperties
<1>. QED  BY <1>1, <1>3, <1>5, <1>6 DEF CipherBlocks, B

\* Texts of one number of blocks with the same blocks are one.
LEMMA SameBlocks ==
    ASSUME NEW x, NEW y, NEW q, Whole(x, q), Whole(y, q),
           \A i \in 1..q : BlockOf(x, i) = BlockOf(y, i)
    PROVE  x = y
<1>1. ASSUME NEW k \in 1..(q * B) PROVE x[k] = y[k]
  <2>1. PICK i \in 1..q, j \in 1..B : k = (i - 1) * B + j
    BY BytePlace DEF Whole
  <2>2. q \in Nat /\ q * B \in Nat /\ q * B <= Len(x) /\ q * B <= Len(y) /\ x \in Texts /\ y \in Texts
    BY CipherSizes DEF Whole
  <2>3. BlockOf(x, i)[j] = x[(i - 1) * B + j]
    BY <2>2, BlockIs
  <2>4. BlockOf(y, i)[j] = y[(i - 1) * B + j]
    BY <2>2, BlockIs
  <2>. QED  BY <2>1, <2>3, <2>4
<1>. QED  BY <1>1, SeqEqual DEF Whole, Texts

\* A text made of blocks.
LEMMA OfBlocksIs ==
    ASSUME NEW q \in Nat, NEW b, b = [i \in 1..q |-> b[i]], \A i \in 1..q : b[i] \in CipherBlocks
    PROVE  Whole(OfBlocks(b), q) /\ \A i \in 1..q : BlockOf(OfBlocks(b), i) = b[i]
<1>1. Len(b) = q
  <2>1. b \in [1..q -> CipherBlocks]
    OBVIOUS
  <2>2. \A T : \A f \in [1..q -> T] : Len(f) = q
    OBVIOUS
  <2>. QED  BY <2>1, <2>2
<1>2. PICK n \in Nat : n = q * B /\ n = q * CipherBlock
  BY CipherSizes
<1>. DEFINE At(k) == b[((k - 1) \div CipherBlock) + 1][((k - 1) % CipherBlock) + 1]
            t == OfBlocks(b)
<1>3. t = [k \in 1..n |-> At(k)]
  BY <1>1, <1>2 DEF OfBlocks
<1>4. ASSUME NEW k \in 1..n
      PROVE  \E i \in 1..q : \E j \in 1..B : k = (i - 1) * B + j /\ At(k) = b[i][j]
  BY <1>2, BytePlace
<1>5. \A i \in 1..q : \A j \in 1..B : b[i][j] \in CipherBytes
  BY DEF CipherBlocks, B
<1>6. \A k \in 1..n : At(k) \in CipherBytes
  BY <1>4, <1>5
<1>7. t \in [1..n -> CipherBytes]
  BY <1>3, <1>6
<1>8. t \in Texts /\ Len(t) = n
  <2>. HIDE DEF t
  <2>. QED  BY <1>7 DEF Texts
<1>9. Whole(t, q)
  BY <1>2, <1>8 DEF Whole
<1>10. ASSUME NEW i \in 1..q PROVE BlockOf(t, i) = b[i]
  <2>1. /\ BlockOf(t, i) \in CipherBlocks
        /\ \A j \in 1..B : BlockOf(t, i)[j] = t[(i - 1) * B + j]
    <3>1. q * B <= Len(t)
      BY <1>2, <1>8
    <3>. HIDE DEF t
    <3>. QED  BY <1>8, <3>1, BlockIs
  <2>2. ASSUME NEW j \in 1..B PROVE t[(i - 1) * B + j] = b[i][j]
    <3>1. PICK m \in Nat : m = (i - 1) * B /\ m + B <= n
      BY <1>2, BlockPlace, CipherSizes
    <3>2. PICK a \in Nat, c \in 0..(B - 1) : a = i - 1 /\ c = j - 1
      BY CipherSizes
    <3>3. (a * B + c) \div B = a /\ (a * B + c) % B = c
      BY Quotient
    <3>4. a * B = m
      BY ONLY <3>1, <3>2
    <3>5. PICK w : w = m + j - 1 /\ w = a * B + c
      BY ONLY <3>1, <3>2, <3>4, j \in 1..B, CipherSizes
    <3>6. m + j \in 1..n /\ w + 1 = m + j
      BY ONLY <3>1, <3>5, n \in Nat, j \in 1..B, CipherSizes
    <3>7. w \div CipherBlock = a /\ w % CipherBlock = c /\ a + 1 = i /\ c + 1 = j
      BY ONLY <3>2, <3>3, <3>5, i \in 1..q, q \in Nat, j \in 1..B, CipherSizes
    <3>8. At(m + j) = b[i][j]
      BY <3>5, <3>7
    <3>. QED  BY <1>3, <3>1, <3>6, <3>8
  <2>3. \A j \in 1..B : BlockOf(t, i)[j] = b[i][j]
    BY <2>1, <2>2
  <2>. HIDE DEF t
  <2>. QED  BY <2>1, <2>3, BlocksAlike
<1>. QED  BY <1>9, <1>10

\* The bytes of a part.
LEMMA PartIs ==
    ASSUME NEW x \in Texts, NEW m \in Nat, NEW n \in Nat, m + n <= Len(x)
    PROVE  /\ SubSeq(x, m + 1, m + n) \in Texts /\ Len(SubSeq(x, m + 1, m + n)) = n
           /\ \A i \in 1..n : SubSeq(x, m + 1, m + n)[i] = x[m + i]
<1>1. \A k \in (m + 1)..(m + n) : x[k] \in CipherBytes
  BY DEF Texts
<1>2. /\ SubSeq(x, m + 1, m + n) \in Seq(CipherBytes)
      /\ Len(SubSeq(x, m + 1, m + n)) = IF m + 1 <= m + n THEN (m + n) - (m + 1) + 1 ELSE 0
      /\ \A i \in 1..((m + n) - (m + 1) + 1) : SubSeq(x, m + 1, m + n)[i] = x[(m + 1) + i - 1]
  BY <1>1, SubSeqProperties
<1>3. (m + n) - (m + 1) + 1 = n /\ \A i \in 1..n : (m + 1) + i - 1 = m + i
  OBVIOUS
<1>. QED  BY <1>2, <1>3 DEF Texts

LEMMA HeadIs ==
    ASSUME NEW x \in Texts, NEW n \in Nat, n <= Len(x)
    PROVE  /\ SubSeq(x, 1, n) \in Texts /\ Len(SubSeq(x, 1, n)) = n
           /\ \A i \in 1..n : SubSeq(x, 1, n)[i] = x[i]
<1>1. \A i \in 1..n : x[i] \in CipherBytes
  BY DEF Texts
<1>2. /\ SubSeq(x, 1, n) \in Seq(CipherBytes)
      /\ Len(SubSeq(x, 1, n)) = IF 1 <= n THEN n - 1 + 1 ELSE 0
      /\ \A i \in 1..(n - 1 + 1) : SubSeq(x, 1, n)[i] = x[1 + i - 1]
  BY <1>1, SubSeqProperties
<1>. QED  BY <1>2 DEF Texts

\* The bytes of a join.
LEMMA JoinIs ==
    ASSUME NEW x \in Texts, NEW y \in Texts
    PROVE  /\ x \o y \in Texts /\ Len(x \o y) = Len(x) + Len(y)
           /\ Len(x) \in Nat /\ Len(y) \in Nat
           /\ \A i \in 1..(Len(x) + Len(y)) : (x \o y)[i] = IF i <= Len(x) THEN x[i] ELSE y[i - Len(x)]
<1>1. x \in Seq(CipherBytes) /\ y \in Seq(CipherBytes)
  BY DEF Texts
<1>2. x \o y \in Texts
  BY <1>1, ConcatProperties DEF Texts
<1>. QED  BY <1>1, <1>2, ConcatProperties, LenProperties

Associates(x, y, z) == (x \o y) \o z = x \o (y \o z)
LEMMA JoinsAssociate == ASSUME NEW x \in Texts, NEW y \in Texts, NEW z \in Texts PROVE Associates(x, y, z)
BY ConcatAssociative DEF Texts, Associates

\* A text is its whole blocks and a rest.
Front(x) == SubSeq(x, 1, WholeBlocks(x) * CipherBlock)
LEMMA FrontIs ==
    ASSUME NEW x \in Texts
    PROVE  /\ WholeBlocks(x) \in Nat /\ Whole(Front(x), WholeBlocks(x))
           /\ Rest(x) \in Texts /\ Len(Rest(x)) \in 0..(B - 1) /\ Len(Rest(x)) = Len(x) % CipherBlock
           /\ Len(x) = WholeBlocks(x) * B + Len(Rest(x))
           /\ x = Front(x) \o Rest(x)
<1>1. Len(x) \in Nat
  BY DEF Texts
<1>2. PICK q \in Nat, r \in 0..(B - 1) : Len(x) = q * B + r /\ Len(x) \div B = q /\ Len(x) % B = r
  BY <1>1, Division
<1>3. WholeBlocks(x) = q /\ Len(x) % CipherBlock = r
  BY <1>2, CipherSizes DEF WholeBlocks
<1>4. PICK n \in Nat : n = q * B /\ n = q * CipherBlock /\ Len(x) = n + r
  BY <1>2, CipherSizes
<1>5. Front(x) = SubSeq(x, 1, n) /\ Rest(x) = SubSeq(x, n + 1, n + r)
  BY <1>3, <1>4 DEF Front, Rest
<1>6. x \in Seq(CipherBytes) /\ n <= Len(x) /\ r \in Nat
  BY <1>4, CipherSizes DEF Texts
<1>7. /\ SubSeq(x, 1, n) \in Seq(CipherBytes) /\ Len(SubSeq(x, 1, n)) = n
      /\ \A k \in 1..n : SubSeq(x, 1, n)[k] = x[k]
  BY <1>6, HeadIs DEF Texts
<1>8. /\ SubSeq(x, n + 1, n + r) \in Seq(CipherBytes) /\ Len(SubSeq(x, n + 1, n + r)) = r
      /\ \A k \in 1..r : SubSeq(x, n + 1, n + r)[k] = x[n + k]
  <2>1. n + r <= Len(x)
    BY <1>4, <1>6
  <2>2. SubSeq(x, n + 1, n + r) \in Texts
    BY <1>4, <1>6, <2>1, PartIs
  <2>. QED  BY <1>4, <1>6, <2>1, <2>2, PartIs DEF Texts
<1>9. x = Front(x) \o Rest(x)
  <2>1. PICK f, s : f = Front(x) /\ s = Rest(x)
    OBVIOUS
  <2>2. /\ f \in Texts /\ Len(f) = n /\ \A k \in 1..n : f[k] = x[k]
        /\ s \in Texts /\ Len(s) = r /\ \A k \in 1..r : s[k] = x[n + k]
    BY <1>5, <1>7, <1>8, <2>1 DEF Texts
  <2>3. /\ f \o s \in Texts /\ Len(f \o s) = n + r
        /\ \A k \in 1..(n + r) : (f \o s)[k] = IF k <= n THEN f[k] ELSE s[k - n]
    BY <2>2, JoinIs
  <2>4. \A k \in 1..(n + r) : (f \o s)[k] = x[k]
    <3>. TAKE k \in 1..(n + r)
    <3>1. CASE k <= n
      BY <2>2, <2>3, <3>1
    <3>2. CASE ~(k <= n)
      <4>1. k - n \in 1..r /\ n + (k - n) = k
        BY <3>2, CipherSizes
      <4>. QED  BY <2>2, <2>3, <3>2, <4>1
    <3>. QED  BY <3>1, <3>2
  <2>5. Len(x) = n + r
    BY <1>4
  <2>. QED  BY <2>1, <2>3, <2>4, <2>5, SeqEqual DEF Texts
<1>. QED  BY <1>2, <1>3, <1>4, <1>5, <1>7, <1>8, <1>9 DEF Whole, Texts

\* Whole blocks have no rest.
LEMMA WholeIs ==
    ASSUME NEW x, NEW q, Whole(x, q)
    PROVE  /\ WholeBlocks(x) = q /\ Len(x) % CipherBlock = 0
           /\ q \in Nat /\ x \in Texts /\ q * B <= Len(x)
<1>1. q \in Nat /\ 0 \in 0..(B - 1) /\ Len(x) = q * B + 0
  BY CipherSizes DEF Whole
<1>2. WholeBlocks(x) = q /\ Len(x) % CipherBlock = 0
  BY <1>1, Quotient, CipherSizes DEF WholeBlocks
<1>3. q * B \in Nat
  BY <1>1, CipherSizes
<1>. QED  BY <1>1, <1>2, <1>3 DEF Whole

\* The blocks of a join after whole blocks.
LEMMA JoinedBlocks ==
    ASSUME NEW x, NEW q, Whole(x, q), NEW y \in Texts
    PROVE  /\ x \o y \in Texts /\ Len(x \o y) = Len(x) + Len(y)
           /\ WholeBlocks(x \o y) = q + WholeBlocks(y)
           /\ \A i \in 1..q : BlockOf(x \o y, i) = BlockOf(x, i)
           /\ \A i \in 1..WholeBlocks(y) : BlockOf(x \o y, q + i) = BlockOf(y, i)
<1>1. /\ x \in Texts /\ q \in Nat /\ Len(x) = q * B /\ q * B \in Nat
      /\ Len(y) \in Nat /\ y \in Texts /\ B \in Nat
  BY CipherSizes DEF Whole, Texts
<1>2. PICK z : z = x \o y
  OBVIOUS
<1>3. /\ z \in Texts /\ Len(z) = Len(x) + Len(y)
      /\ \A k \in 1..(Len(x) + Len(y)) : z[k] = IF k <= Len(x) THEN x[k] ELSE y[k - Len(x)]
  BY <1>1, <1>2, ConcatProperties DEF Texts
<1>4. PICK p \in Nat, r \in 0..(B - 1) : Len(y) = p * B + r /\ Len(y) \div B = p /\ p * B \in Nat /\ p * B <= Len(y)
  <2>1. PICK p \in Nat, r \in 0..(B - 1) : Len(y) = p * B + r /\ Len(y) \div B = p
    BY <1>1, Division
  <2>2. p * B \in Nat /\ p * B <= Len(y)
    BY <2>1, CipherSizes
  <2>. QED  BY <2>1, <2>2
<1>5. WholeBlocks(y) = p
  BY <1>4, CipherSizes DEF WholeBlocks
<1>6. (q + p) * B = q * B + p * B /\ q + p \in Nat
  BY <1>1, <1>4
<1>7. Len(z) = (q + p) * B + r /\ (q + p) * B <= Len(z)
  BY <1>1, <1>3, <1>4, <1>6, CipherSizes
<1>8. WholeBlocks(z) = q + p
  <2>1. ((q + p) * B + r) \div B = q + p
    BY <1>6, Quotient
  <2>. QED  BY <1>7, <2>1, CipherSizes DEF WholeBlocks
<1>9. ASSUME NEW i \in 1..q PROVE BlockOf(z, i) = BlockOf(x, i)
  <2>1. i \in 1..(q + p) /\ q * B <= Len(x)
    BY <1>1, <1>4
  <2>2. BlockOf(z, i) \in CipherBlocks /\ \A j \in 1..B : BlockOf(z, i)[j] = z[(i - 1) * B + j]
    BY <1>3, <1>6, <1>7, <2>1, BlockIs
  <2>3. BlockOf(x, i) \in CipherBlocks /\ \A j \in 1..B : BlockOf(x, i)[j] = x[(i - 1) * B + j]
    BY <1>1, <2>1, BlockIs
  <2>4. PICK m \in Nat : m = (i - 1) * B /\ m + B <= q * B
    BY <1>1, BlockPlace
  <2>5. \A j \in 1..B : z[m + j] = x[m + j]
    <3>. TAKE j \in 1..B
    <3>1. m + j \in 1..(Len(x) + Len(y)) /\ m + j <= Len(x)
      BY <1>1, <2>4
    <3>. QED  BY <1>3, <3>1
  <2>6. \A j \in 1..B : BlockOf(z, i)[j] = BlockOf(x, i)[j]
    BY ONLY <2>2, <2>3, <2>4, <2>5
  <2>. QED  BY <2>2, <2>3, <2>6, BlocksAlike
<1>10. ASSUME NEW i \in 1..p PROVE BlockOf(z, q + i) = BlockOf(y, i)
  <2>1. q + i \in 1..(q + p) /\ (q + i) - 1 = q + (i - 1) /\ i - 1 \in Nat
    BY <1>1, <1>4
  <2>2. /\ BlockOf(z, q + i) \in CipherBlocks
        /\ \A j \in 1..B : BlockOf(z, q + i)[j] = z[((q + i) - 1) * B + j]
    BY <1>3, <1>6, <1>7, <2>1, BlockIs
  <2>3. BlockOf(y, i) \in CipherBlocks /\ \A j \in 1..B : BlockOf(y, i)[j] = y[(i - 1) * B + j]
    BY <1>1, <1>4, BlockIs
  <2>4. PICK m \in Nat : m = (i - 1) * B /\ m + B <= p * B
    BY <1>4, BlockPlace
  <2>5. ((q + i) - 1) * B = q * B + m
    BY <1>1, <2>1, <2>4
  <2>6. \A j \in 1..B : z[(q * B + m) + j] = y[m + j]
    <3>. TAKE j \in 1..B
    <3>1. PICK k : k = (q * B + m) + j
      OBVIOUS
    <3>2. k \in 1..(Len(x) + Len(y)) /\ ~(k <= Len(x)) /\ k - Len(x) = m + j
      BY <1>1, <1>4, <2>4, <3>1
    <3>3. z[k] = y[k - Len(x)]
      BY <1>3, <3>2
    <3>. QED  BY <3>1, <3>2, <3>3
  <2>7. \A j \in 1..B : BlockOf(z, q + i)[j] = BlockOf(y, i)[j]
    BY ONLY <2>2, <2>3, <2>4, <2>5, <2>6
  <2>. QED  BY <2>2, <2>3, <2>7, BlocksAlike
<1>. QED  BY <1>2, <1>3, <1>5, <1>8, <1>9, <1>10

-----------------------------------------------------------------------------
(* The blocks that EncryptBlocks() makes, one after the other. *)

Link(mode, x, i, before) == EncryptBlock(Entering(mode, BlockOf(x, i), before))
IsChain(mode, chain, x, n, done) ==
    done = [i \in 0..n |-> IF i = 0 THEN chain ELSE Link(mode, x, i, done[i - 1])]

LEMMA ChainExtends ==
    ASSUME NEW mode, NEW chain, NEW x, NEW n \in Nat, NEW done, IsChain(mode, chain, x, n, done)
    PROVE  \E new : IsChain(mode, chain, x, n + 1, new)
<1>. DEFINE new == [i \in 0..(n + 1) |-> IF i <= n THEN done[i] ELSE Link(mode, x, n + 1, done[n])]
            again == [i \in 0..(n + 1) |-> IF i = 0 THEN chain ELSE Link(mode, x, i, new[i - 1])]
<1>1. \A i \in 0..n : done[i] = IF i = 0 THEN chain ELSE Link(mode, x, i, done[i - 1])
  BY DEF IsChain
<1>2. \A i \in 0..(n + 1) : new[i] = again[i]
  <2> SUFFICES ASSUME NEW i \in 0..(n + 1)
               PROVE  new[i] = again[i]
    OBVIOUS
  <2>1. CASE i = 0
    BY <1>1, <2>1
  <2>2. CASE i # 0 /\ i <= n
    <3>1. i - 1 \in 0..n /\ i - 1 \in 0..(n + 1) /\ i - 1 <= n /\ i \in 0..n
      BY <2>2
    <3>2. new[i - 1] = done[i - 1] /\ new[i] = done[i]
      BY <2>2, <3>1
    <3>. QED  BY <1>1, <2>2, <3>1, <3>2
  <2>3. CASE i = n + 1
    <3>1. n \in 0..(n + 1) /\ i - 1 = n /\ i # 0 /\ ~(i <= n)
      BY <2>3
    <3>2. new[i - 1] = done[n] /\ new[i] = Link(mode, x, n + 1, done[n])
      BY <2>3, <3>1
    <3>. QED  BY <2>3, <3>1, <3>2
  <2>. QED  BY <2>1, <2>2, <2>3
<1>3. new = again
  BY <1>2
<1>. HIDE DEF new
<1>. QED  BY <1>3 DEF IsChain

LEMMA ChainExists ==
    ASSUME NEW mode, NEW chain, NEW x, NEW n \in Nat
    PROVE  \E done : IsChain(mode, chain, x, n, done)
<1>. DEFINE Bad == {i \in Nat : ~ \E done : IsChain(mode, chain, x, i, done)}
<1> SUFFICES ASSUME Bad # {}
             PROVE  FALSE
  OBVIOUS
<1>1. PICK i \in Bad : \A m \in Bad : ~(m < i)
  <2>1. Bad \subseteq Nat
    OBVIOUS
  <2>. HIDE DEF Bad
  <2>. QED  BY <2>1, LeastOf
<1>2. CASE i = 0
  <2>1. IsChain(mode, chain, x, 0, [m \in 0..0 |-> chain])
    BY DEF IsChain
  <2>. QED  BY <1>2, <2>1
<1>3. CASE i # 0
  <2>1. i - 1 \in Nat /\ i - 1 < i
    BY <1>3
  <2>2. PICK done : IsChain(mode, chain, x, i - 1, done)
    BY <1>1, <2>1
  <2>3. \E new : IsChain(mode, chain, x, (i - 1) + 1, new)
    BY <2>1, <2>2, ChainExtends
  <2>4. (i - 1) + 1 = i
    OBVIOUS
  <2>. QED  BY <2>3, <2>4
<1>. QED  BY <1>2, <1>3

\* What goes through the rounds is a block.
LEMMA EnteringIs ==
    ASSUME NEW mode, NEW b \in CipherBlocks, NEW c \in CipherBlocks
    PROVE  Entering(mode, b, c) \in CipherBlocks
BY MixedIs DEF Entering

\* The block before block i of a text.
Before(chain, x, i) == IF i = 1 THEN chain ELSE BlockOf(x, i - 1)

LEMMA BeforeIs ==
    ASSUME NEW chain \in CipherBlocks, NEW x, NEW q, Whole(x, q), NEW i \in 1..q
    PROVE  Before(chain, x, i) \in CipherBlocks
<1>1. q \in Nat /\ x \in Texts /\ q * B <= Len(x)
  BY CipherSizes DEF Whole, Texts
<1>2. i # 1 => i - 1 \in 1..q
  BY <1>1
<1>. QED  BY <1>1, <1>2, BlockIs DEF Before

\* e is what becomes of the q blocks of x.
IsEnciphered(mode, chain, x, q, e) ==
    Whole(e, q) /\ \A i \in 1..q : BlockOf(e, i) = Link(mode, x, i, Before(chain, e, i))

LEMMA EncryptedIs ==
    ASSUME NEW mode, NEW chain \in CipherBlocks, NEW x \in Texts
    PROVE  IsEnciphered(mode, chain, x, WholeBlocks(x), EncryptBlocks(mode, chain, x))
<1>. DEFINE q == WholeBlocks(x)
            done == CHOOSE done : IsChain(mode, chain, x, q, done)
            b == [i \in 1..q |-> done[i]]
            e == OfBlocks(b)
<1>1. q \in Nat /\ q * B <= Len(x)
  <2>. HIDE DEF q
  <2>1. q \in Nat /\ Len(x) = q * B + Len(Rest(x)) /\ Len(Rest(x)) \in 0..(B - 1)
    BY FrontIs DEF q
  <2>. QED  BY <2>1, CipherSizes
<1>2. EncryptBlocks(mode, chain, x) = e
  BY DEF EncryptBlocks, IsChain, Link
<1>. HIDE DEF q
<1>3. IsChain(mode, chain, x, q, done)
  BY <1>1, ChainExists
<1>. HIDE DEF done
<1>4. done[0] = chain /\ \A i \in 1..q : done[i] = Link(mode, x, i, done[i - 1])
  <2>1. 0 \in 0..q /\ \A i \in 1..q : i \in 0..q /\ i # 0
    BY <1>1
  <2>2. \A i \in 0..q : done[i] = IF i = 0 THEN chain ELSE Link(mode, x, i, done[i - 1])
    BY <1>3 DEF IsChain
  <2>. QED  BY <2>1, <2>2
<1>5. \A i \in 0..q : done[i] \in CipherBlocks
  <2>. DEFINE Bad == {i \in 0..q : done[i] \notin CipherBlocks}
  <2> SUFFICES ASSUME Bad # {}
               PROVE  FALSE
    OBVIOUS
  <2>1. PICK i \in Bad : \A m \in Bad : ~(m < i)
    <3>1. Bad \subseteq Nat
      BY <1>1
    <3>. HIDE DEF Bad
    <3>. QED  BY <3>1, LeastOf
  <2>2. i # 0 /\ i \in 1..q
    BY <1>1, <1>4, <2>1
  <2>3. i - 1 \in 0..q /\ i - 1 < i
    BY <1>1, <2>2
  <2>4. done[i - 1] \in CipherBlocks
    BY <2>1, <2>3
  <2>5. BlockOf(x, i) \in CipherBlocks
    BY <1>1, <2>2, BlockIs
  <2>6. Link(mode, x, i, done[i - 1]) \in CipherBlocks
    BY <2>4, <2>5, EnteringIs, RoundsAreInverse DEF Link
  <2>. QED  BY <1>4, <2>1, <2>2, <2>6
<1>6. Whole(e, q) /\ \A i \in 1..q : BlockOf(e, i) = done[i]
  <2>1. b = [i \in 1..q |-> b[i]] /\ \A i \in 1..q : b[i] = done[i] /\ b[i] \in CipherBlocks
    BY <1>1, <1>5
  <2>. HIDE DEF b
  <2>. QED  BY <1>1, <2>1, OfBlocksIs
<1>. HIDE DEF e
<1>7. ASSUME NEW i \in 1..q PROVE BlockOf(e, i) = Link(mode, x, i, Before(chain, e, i))
  <2>1. done[i - 1] = Before(chain, e, i)
    <3>1. CASE i = 1
      BY <1>4, <3>1 DEF Before
    <3>2. CASE i # 1
      <4>1. i - 1 \in 1..q
        BY <1>1, <3>2
      <4>. QED  BY <1>6, <3>2, <4>1 DEF Before
    <3>. QED  BY <3>1, <3>2
  <2>. QED  BY <1>4, <1>6, <2>1
<1>. QED  BY <1>2, <1>6, <1>7 DEF IsEnciphered, q

\* There is one such text.
LEMMA EncryptedIsOne ==
    ASSUME NEW mode, NEW chain, NEW x, NEW y, NEW q, NEW d, NEW e,
           IsEnciphered(mode, chain, x, q, d), IsEnciphered(mode, chain, y, q, e),
           \A i \in 1..q : BlockOf(x, i) = BlockOf(y, i)
    PROVE  d = e
<1>. DEFINE Bad == {i \in 1..q : BlockOf(d, i) # BlockOf(e, i)}
<1>1. Whole(d, q) /\ Whole(e, q) /\ q \in Nat
  BY DEF IsEnciphered, Whole
<1>2. Bad = {}
  <2> SUFFICES ASSUME Bad # {}
               PROVE  FALSE
    OBVIOUS
  <2>1. PICK i \in Bad : \A m \in Bad : ~(m < i)
    <3>1. Bad \subseteq Nat
      BY <1>1
    <3>. HIDE DEF Bad
    <3>. QED  BY <3>1, LeastOf
  <2>2. Before(chain, d, i) = Before(chain, e, i)
    <3>1. CASE i = 1
      BY <3>1 DEF Before
    <3>2. CASE i # 1
      <4>1. i - 1 \in 1..q /\ i - 1 < i
        BY <1>1, <2>1, <3>2
      <4>. QED  BY <2>1, <3>2, <4>1 DEF Before
    <3>. QED  BY <3>1, <3>2
  <2>3. i \in 1..q /\ BlockOf(d, i) # BlockOf(e, i) /\ BlockOf(x, i) = BlockOf(y, i)
    BY <2>1
  <2>. QED  BY <2>2, <2>3 DEF IsEnciphered, Link
<1>3. \A i \in 1..q : BlockOf(d, i) = BlockOf(e, i)
  BY <1>2
<1>. QED  BY <1>1, <1>3, SameBlocks

\* What DecryptBlocks() makes of whole blocks.
Unlinked(mode, chain, x, i) ==
    IF mode = "ecb" THEN DecryptBlock(BlockOf(x, i))
    ELSE Mixed(DecryptBlock(BlockOf(x, i)), Before(chain, x, i))

LEMMA DecryptedIs ==
    ASSUME NEW mode, NEW chain \in CipherBlocks, NEW x, NEW q, Whole(x, q)
    PROVE  /\ Whole(DecryptBlocks(mode, chain, x), q)
           /\ \A i \in 1..q : BlockOf(DecryptBlocks(mode, chain, x), i) = Unlinked(mode, chain, x, i)
<1>. DEFINE b == [i \in 1..q |-> Unlinked(mode, chain, x, i)]
<1>1. WholeBlocks(x) = q /\ q \in Nat /\ x \in Texts /\ q * B <= Len(x)
  BY WholeIs
<1>2. DecryptBlocks(mode, chain, x) = OfBlocks(b)
  BY <1>1 DEF DecryptBlocks, Unlinked, Before
<1>3. ASSUME NEW i \in 1..q PROVE Unlinked(mode, chain, x, i) \in CipherBlocks
  <2>1. BlockOf(x, i) \in CipherBlocks /\ Before(chain, x, i) \in CipherBlocks
    BY <1>1, BlockIs, BeforeIs
  <2>2. DecryptBlock(BlockOf(x, i)) \in CipherBlocks
    BY <2>1, RoundsAreInverse
  <2>. QED  BY <2>1, <2>2, MixedIs DEF Unlinked
<1>4. b = [i \in 1..q |-> b[i]] /\ \A i \in 1..q : b[i] = Unlinked(mode, chain, x, i) /\ b[i] \in CipherBlocks
  BY <1>3
<1>. HIDE DEF b
<1>5. Whole(OfBlocks(b), q) /\ \A i \in 1..q : BlockOf(OfBlocks(b), i) = b[i]
  BY <1>1, <1>4, OfBlocksIs
<1>. QED  BY <1>2, <1>4, <1>5

\* In both modes deciphering undoes enciphering.
LEMMA BlocksDecrypt ==
    ASSUME NEW mode \in Modes, NEW chain \in CipherBlocks, NEW x, NEW q, Whole(x, q)
    PROVE  DecryptBlocks(mode, chain, EncryptBlocks(mode, chain, x)) = x
<1>1. PICK e : e = EncryptBlocks(mode, chain, x)
  OBVIOUS
<1>2. /\ WholeBlocks(x) = q /\ q \in Nat /\ x \in Texts /\ q * B <= Len(x)
  BY WholeIs
<1>3. IsEnciphered(mode, chain, x, q, e)
  BY <1>1, <1>2, EncryptedIs
<1>4. Whole(e, q)
  BY <1>3 DEF IsEnciphered
<1>5. PICK d : d = DecryptBlocks(mode, chain, e)
  OBVIOUS
<1>6. Whole(d, q) /\ \A i \in 1..q : BlockOf(d, i) = Unlinked(mode, chain, e, i)
  BY <1>4, <1>5, DecryptedIs
<1>7. ASSUME NEW i \in 1..q PROVE Unlinked(mode, chain, e, i) = BlockOf(x, i)
  <2>1. PICK b, c : b = BlockOf(x, i) /\ c = Before(chain, e, i)
    OBVIOUS
  <2>2. b \in CipherBlocks /\ c \in CipherBlocks
    BY <1>2, <1>4, <2>1, BlockIs, BeforeIs
  <2>3. BlockOf(e, i) = EncryptBlock(Entering(mode, b, c))
    BY <1>3, <2>1 DEF IsEnciphered, Link
  <2>4. DecryptBlock(BlockOf(e, i)) = Entering(mode, b, c)
    BY <2>2, <2>3, EnteringIs, RoundsAreInverse
  <2>5. CASE mode = "ecb"
    BY <2>1, <2>4, <2>5 DEF Unlinked, Entering
  <2>6. CASE mode = "cbc"
    BY <2>1, <2>2, <2>4, <2>6, MixedIs DEF Unlinked, Entering
  <2>. QED  BY <2>5, <2>6 DEF Modes
<1>. QED  BY <1>1, <1>5, <1>6, <1>7, SameBlocks

\* And enciphering undoes deciphering.
LEMMA BlocksEncrypt ==
    ASSUME NEW mode \in Modes, NEW chain \in CipherBlocks, NEW x, NEW q, Whole(x, q)
    PROVE  EncryptBlocks(mode, chain, DecryptBlocks(mode, chain, x)) = x
<1>1. PICK d : d = DecryptBlocks(mode, chain, x)
  OBVIOUS
<1>2. q \in Nat /\ x \in Texts /\ q * B <= Len(x)
  BY CipherSizes DEF Whole, Texts
<1>3. Whole(d, q) /\ \A i \in 1..q : BlockOf(d, i) = Unlinked(mode, chain, x, i)
  BY <1>1, DecryptedIs
<1>4. WholeBlocks(d) = q /\ d \in Texts
  BY <1>3, WholeIs DEF Whole
<1>5. IsEnciphered(mode, chain, d, q, EncryptBlocks(mode, chain, d))
  BY <1>4, EncryptedIs
<1>6. ASSUME NEW i \in 1..q PROVE BlockOf(x, i) = Link(mode, d, i, Before(chain, x, i))
  <2>1. PICK b, c : b = BlockOf(x, i) /\ c = Before(chain, x, i)
    OBVIOUS
  <2>2. b \in CipherBlocks /\ c \in CipherBlocks
    BY <1>2, <2>1, BlockIs, BeforeIs
  <2>3. DecryptBlock(b) \in CipherBlocks /\ EncryptBlock(DecryptBlock(b)) = b
    BY <2>2, RoundsAreInverse
  <2>4. Entering(mode, Unlinked(mode, chain, x, i), c) = DecryptBlock(b)
    <3>1. CASE mode = "ecb"
      BY <2>1, <3>1 DEF Unlinked, Entering
    <3>2. CASE mode = "cbc"
      BY <2>1, <2>2, <2>3, <3>2, MixedIs DEF Unlinked, Entering
    <3>. QED  BY <3>1, <3>2 DEF Modes
  <2>. QED  BY <1>3, <2>1, <2>3, <2>4 DEF Link
<1>7. IsEnciphered(mode, chain, d, q, x)
  BY <1>6 DEF IsEnciphered
<1>. QED  BY <1>1, <1>5, <1>7, EncryptedIsOne

-----------------------------------------------------------------------------
(* The padding. *)

\* Appending as many bytes as their value says completes a block.
LEMMA PaddedIs ==
    ASSUME NEW x \in Texts
    PROVE  \E p \in 1..B :
              /\ p = B - (Len(x) % CipherBlock) /\ p = B - Len(Rest(x))
              /\ Padded(x) = x \o Padding(p)
              /\ Padding(p) \in Texts /\ Len(Padding(p)) = p
              /\ Len(x) \in Nat /\ Len(Padded(x)) = Len(x) + p
              /\ \A i \in 1..Len(x) : Padded(x)[i] = x[i]
              /\ \A i \in 1..p : Padded(x)[Len(x) + i] = p
              /\ Whole(Padded(x), WholeBlocks(x) + 1)
<1>1. /\ WholeBlocks(x) \in Nat /\ Len(Rest(x)) \in 0..(B - 1) /\ Len(Rest(x)) = Len(x) % CipherBlock
      /\ Len(x) = WholeBlocks(x) * B + Len(Rest(x))
  BY FrontIs
<1>2. PICK q \in Nat, r \in 0..(B - 1) : q = WholeBlocks(x) /\ r = Len(Rest(x))
  BY <1>1
<1>3. PICK p \in 1..B : p = B - r
  BY CipherSizes
<1>4. Padding(p) \in Texts /\ Len(Padding(p)) = p /\ \A i \in 1..p : Padding(p)[i] = p
  <2>1. p \in CipherBytes /\ p \in Nat
    BY CipherSizes
  <2>2. Padding(p) \in [1..p -> CipherBytes] /\ \A i \in 1..p : Padding(p)[i] = p
    BY <2>1 DEF Padding
  <2>3. \A f \in [1..p -> CipherBytes] : f \in Texts /\ Len(f) = p
    BY <2>1 DEF Texts
  <2>. QED  BY <2>2, <2>3
<1>5. Padded(x) = x \o Padding(p)
  BY <1>1, <1>2, <1>3, CipherSizes DEF Padded
<1>6. PICK z, d : z = x \o d /\ d = Padding(p)
  OBVIOUS
<1>7. /\ z \in Texts /\ Len(z) = Len(x) + p /\ Len(x) \in Nat
      /\ \A i \in 1..(Len(x) + p) : z[i] = IF i <= Len(x) THEN x[i] ELSE d[i - Len(x)]
  <2>1. x \in Seq(CipherBytes) /\ d \in Seq(CipherBytes) /\ Len(d) = p /\ Len(x) \in Nat
    BY <1>4, <1>6 DEF Texts
  <2>2. /\ z \in Seq(CipherBytes) /\ Len(z) = Len(x) + Len(d)
        /\ \A i \in 1..(Len(x) + Len(d)) : z[i] = IF i <= Len(x) THEN x[i] ELSE d[i - Len(x)]
    BY <1>6, <2>1, ConcatProperties
  <2>. QED  BY <2>1, <2>2 DEF Texts
<1>8. \A i \in 1..Len(x) : z[i] = x[i]
  BY <1>7, CipherSizes
<1>9. \A i \in 1..p : z[Len(x) + i] = p
  <2>. TAKE i \in 1..p
  <2>1. PICK k : k = Len(x) + i
    OBVIOUS
  <2>2. k \in 1..(Len(x) + p) /\ ~(k <= Len(x)) /\ k - Len(x) = i
    BY <1>7, <2>1
  <2>3. z[k] = d[i]
    BY <1>7, <2>2
  <2>. QED  BY <1>4, <1>6, <2>1, <2>3
<1>10. Len(z) = (q + 1) * B /\ q + 1 \in Nat
  <2>1. (q + 1) * B = q * B + B /\ q * B \in Nat
    BY CipherSizes
  <2>2. Len(z) = q * B + r + p
    BY <1>1, <1>2, <1>7
  <2>. QED  BY <1>3, <2>1, <2>2, CipherSizes
<1>11. p = B - (Len(x) % CipherBlock) /\ p = B - Len(Rest(x)) /\ z = Padded(x)
  BY <1>1, <1>2, <1>3, <1>5, <1>6
<1>12. Whole(z, q + 1)
  BY <1>7, <1>10 DEF Whole
<1>. QED  BY <1>2, <1>4, <1>5, <1>7, <1>8, <1>9, <1>11, <1>12

\* A text ends in n bytes of value n.
EndsPadded(d, n) == n \in 1..B /\ \A i \in 1..n : d[Len(d) - n + i] = n

LEMMA UnpaddedIs ==
    ASSUME NEW d \in Texts, NEW n, n = d[Len(d)]
    PROVE  Unpadded(d) = IF EndsPadded(d, n) THEN SubSeq(d, 1, Len(d) - n) ELSE Invalid
BY DEF Unpadded, EndsPadded, B

\* Unpadded() finds what was padded.
LEMMA PaddingComesOff == ASSUME NEW x \in Texts PROVE Unpadded(Padded(x)) = x
<1>1. PICK p \in 1..B :
         /\ Len(x) \in Nat /\ Len(Padded(x)) = Len(x) + p
         /\ \A i \in 1..Len(x) : Padded(x)[i] = x[i]
         /\ \A i \in 1..p : Padded(x)[Len(x) + i] = p
         /\ Whole(Padded(x), WholeBlocks(x) + 1)
  BY PaddedIs
<1>2. PICK d : d = Padded(x)
  OBVIOUS
<1>3. PICK n : n = Len(x)
  OBVIOUS
<1>4. d \in Texts /\ n \in Nat /\ p \in Nat /\ p >= 1 /\ Len(d) = n + p /\ (n + p) - p = n
  BY <1>1, <1>2, <1>3, CipherSizes DEF Whole
<1>5. d[Len(d)] = p
  BY <1>1, <1>2, <1>3, <1>4
<1>6. \A i \in 1..p : Len(d) - p + i = n + i
  BY <1>4
<1>7. EndsPadded(d, p)
  BY <1>1, <1>2, <1>3, <1>6 DEF EndsPadded
<1>8. Unpadded(d) = SubSeq(d, 1, n)
  BY <1>4, <1>5, <1>7, UnpaddedIs
<1>9. SubSeq(d, 1, n) = x
  <2>1. SubSeq(d, 1, n) \in Texts /\ Len(SubSeq(d, 1, n)) = n /\ \A i \in 1..n : SubSeq(d, 1, n)[i] = d[i]
    BY <1>4, HeadIs
  <2>2. \A i \in 1..n : SubSeq(d, 1, n)[i] = x[i]
    BY <1>1, <1>2, <1>3, <2>1
  <2>. QED  BY <1>3, <2>1, <2>2, SeqEqual DEF Texts
<1>. QED  BY <1>2, <1>8, <1>9

\* What Unpadded() accepts is what Padded() makes of the result.
LEMMA PaddingIsCanonical ==
    ASSUME NEW d, NEW q, Whole(d, q), Len(d) # 0, Unpadded(d) # Invalid
    PROVE  Unpadded(d) \in Texts /\ Padded(Unpadded(d)) = d
<1>1. PICK n : n = d[Len(d)]
  OBVIOUS
<1>2. d \in Texts /\ Len(d) \in Nat /\ q \in Nat /\ Len(d) = q * B
  BY DEF Whole, Texts
<1>3. EndsPadded(d, n) /\ Unpadded(d) = SubSeq(d, 1, Len(d) - n)
  BY <1>1, <1>2, UnpaddedIs
<1>4. n \in 1..B /\ n \in Nat /\ n >= 1 /\ n <= B
  BY <1>3, CipherSizes DEF EndsPadded
<1>5. q - 1 \in Nat /\ q * B = (q - 1) * B + B /\ (q - 1) * B \in Nat
  BY <1>2, CipherSizes
<1>6. PICK m \in Nat : m = Len(d) - n /\ m = (q - 1) * B + (B - n)
  BY <1>2, <1>4, <1>5, CipherSizes
<1>7. PICK r : r = Unpadded(d)
  OBVIOUS
<1>8. r \in Texts /\ Len(r) = m /\ \A i \in 1..m : r[i] = d[i]
  <2>1. r = SubSeq(d, 1, m) /\ m <= Len(d)
    BY <1>2, <1>3, <1>4, <1>6, <1>7
  <2>. QED  BY <1>2, <2>1, HeadIs
<1>9. PICK p \in 1..B :
         /\ p = B - (Len(r) % CipherBlock) /\ Len(Padded(r)) = Len(r) + p
         /\ \A i \in 1..Len(r) : Padded(r)[i] = r[i]
         /\ \A i \in 1..p : Padded(r)[Len(r) + i] = p
         /\ Whole(Padded(r), WholeBlocks(r) + 1)
  BY <1>8, PaddedIs
<1>10. p = n
  <2>1. CASE n = B
    <3>1. 0 \in 0..(B - 1) /\ m = (q - 1) * B + 0
      BY <1>6, <2>1, CipherSizes
    <3>2. m % B = 0
      BY <1>5, <3>1, Quotient
    <3>. QED  BY <1>8, <1>9, <2>1, <3>2, CipherSizes
  <2>2. CASE n # B
    <3>1. B - n \in 0..(B - 1)
      BY <1>4, <2>2, CipherSizes
    <3>2. m % B = B - n
      BY <1>5, <1>6, <3>1, Quotient
    <3>. QED  BY <1>4, <1>8, <1>9, <3>2, CipherSizes
  <2>. QED  BY <2>1, <2>2
<1>11. PICK y : y = Padded(r)
  OBVIOUS
<1>12. y \in Texts /\ Len(y) = Len(d)
  BY <1>2, <1>4, <1>6, <1>8, <1>9, <1>10, <1>11 DEF Whole
<1>13. ASSUME NEW k \in 1..Len(d) PROVE y[k] = d[k]
  <2>1. CASE k <= m
    <3>1. k \in 1..m
      BY <1>2, <1>6, <2>1
    <3>. QED  BY <1>8, <1>9, <1>11, <3>1
  <2>2. CASE ~(k <= m)
    <3>1. PICK i \in 1..n : i = k - m
      BY <1>2, <1>4, <1>6, <2>2
    <3>2. k = m + i /\ Len(d) - n + i = k
      BY <1>2, <1>4, <1>6, <3>1
    <3>3. d[k] = n
      BY <1>3, <3>2 DEF EndsPadded
    <3>4. y[k] = n
      BY <1>8, <1>9, <1>10, <1>11, <3>2
    <3>. QED  BY <3>3, <3>4
  <2>. QED  BY <2>1, <2>2
<1>14. y = d
  BY <1>2, <1>12, <1>13, SeqEqual DEF Texts
<1>. QED  BY <1>7, <1>8, <1>11, <1>14

-----------------------------------------------------------------------------
(* encrypt() and decrypt(). *)

LEMMA IVIsBlock == IV \in CipherBlocks
BY CipherAssumption DEF CipherAssumption

\* decrypt() undoes encrypt().
LEMMA EncryptIsUndone == ASSUME NEW mode \in Modes, NEW x \in Texts PROVE Decrypt(mode, Encrypt(mode, x)) = x
<1>1. PICK y, q : y = Padded(x) /\ q = WholeBlocks(x) + 1
  OBVIOUS
<1>2. Whole(y, q) /\ q \in Nat \ {0}
  <2>1. PICK p \in 1..B : Whole(Padded(x), WholeBlocks(x) + 1)
    BY PaddedIs
  <2>2. WholeBlocks(x) \in Nat
    BY FrontIs
  <2>. QED  BY <1>1, <2>1, <2>2
<1>3. PICK e : e = EncryptBlocks(mode, IV, y)
  OBVIOUS
<1>4. WholeBlocks(y) = q /\ y \in Texts
  BY <1>2, WholeIs
<1>5. Whole(e, q)
  BY <1>3, <1>4, IVIsBlock, EncryptedIs DEF IsEnciphered
<1>6. Len(e) % CipherBlock = 0 /\ e # <<>>
  <2>1. q * B # 0
    BY <1>2, CipherSizes
  <2>2. Len(e) # 0
    BY <1>5, <2>1 DEF Whole
  <2>. QED  BY <1>5, <2>2, WholeIs
<1>7. DecryptBlocks(mode, IV, e) = y
  BY <1>2, <1>3, IVIsBlock, BlocksDecrypt
<1>. QED  BY <1>1, <1>3, <1>6, <1>7, PaddingComesOff DEF Encrypt, Decrypt

\* A text that decrypt() accepts is what encrypt() makes of the result.
LEMMA DecryptIsUndone ==
    ASSUME NEW mode \in Modes, NEW x \in Texts, Decrypt(mode, x) # Invalid
    PROVE  Encrypt(mode, Decrypt(mode, x)) = x
<1>1. /\ x # <<>> /\ Len(x) % CipherBlock = 0
      /\ Decrypt(mode, x) = Unpadded(DecryptBlocks(mode, IV, x))
  BY DEF Decrypt
<1>2. PICK q : q = WholeBlocks(x)
  OBVIOUS
<1>3. Whole(x, q) /\ Len(x) # 0
  <2>1. q \in Nat /\ Len(x) = q * B + 0 /\ Len(x) # 0
    BY <1>1, <1>2, FrontIs, EmptySeq DEF Texts
  <2>2. q * B + 0 = q * B
    BY <2>1, CipherSizes
  <2>. QED  BY <2>1, <2>2 DEF Whole
<1>4. PICK d : d = DecryptBlocks(mode, IV, x)
  OBVIOUS
<1>5. Whole(d, q) /\ Len(d) # 0
  <2>1. Whole(d, q)
    BY <1>3, <1>4, IVIsBlock, DecryptedIs
  <2>. QED  BY <1>3, <2>1 DEF Whole
<1>6. Padded(Unpadded(d)) = d
  BY <1>1, <1>4, <1>5, PaddingIsCanonical
<1>7. EncryptBlocks(mode, IV, d) = x
  BY <1>3, <1>4, IVIsBlock, BlocksEncrypt
<1>. QED  BY <1>1, <1>4, <1>6, <1>7 DEF Encrypt

-----------------------------------------------------------------------------
(* The stream. *)

\* In ecb mode a join after whole blocks may be enciphered in parts.
LEMMA EcbJoin ==
    ASSUME NEW x, NEW q, Whole(x, q), NEW y \in Texts
    PROVE  /\ EncryptBlocks("ecb", IV, x \o y) = EncryptBlocks("ecb", IV, x) \o EncryptBlocks("ecb", IV, y)
           /\ EncryptBlocks("ecb", IV, x) \in Texts /\ EncryptBlocks("ecb", IV, y) \in Texts
<1>1. PICK e, f : e = EncryptBlocks("ecb", IV, x) /\ f = EncryptBlocks("ecb", IV, y)
  OBVIOUS
<1>2. PICK r : r = WholeBlocks(y)
  OBVIOUS
<1>3. WholeBlocks(x) = q /\ q \in Nat /\ x \in Texts /\ r \in Nat
  BY <1>2, WholeIs, FrontIs
<1>4. IsEnciphered("ecb", IV, x, q, e) /\ IsEnciphered("ecb", IV, y, r, f)
  BY <1>1, <1>2, <1>3, IVIsBlock, EncryptedIs
<1>5. Whole(e, q) /\ Whole(f, r) /\ f \in Texts /\ e \in Texts
  BY <1>4 DEF IsEnciphered, Whole
<1>6. PICK z : z = x \o y
  OBVIOUS
<1>7. /\ z \in Texts /\ WholeBlocks(z) = q + r
      /\ \A i \in 1..q : BlockOf(z, i) = BlockOf(x, i)
      /\ \A i \in 1..r : BlockOf(z, q + i) = BlockOf(y, i)
  BY <1>2, <1>6, JoinedBlocks
<1>8. PICK g : g = e \o f
  OBVIOUS
<1>9. /\ g \in Texts /\ Len(g) = Len(e) + Len(f)
      /\ \A i \in 1..q : BlockOf(g, i) = BlockOf(e, i)
      /\ \A i \in 1..r : BlockOf(g, q + i) = BlockOf(f, i)
  <2>1. WholeBlocks(f) = r
    BY <1>5, WholeIs
  <2>. QED  BY <1>5, <1>8, <2>1, JoinedBlocks
<1>10. Whole(g, q + r)
  <2>1. (q + r) * B = q * B + r * B /\ q + r \in Nat
    BY <1>3, CipherSizes
  <2>. QED  BY <1>5, <1>9, <2>1 DEF Whole
<1>11. ASSUME NEW i \in 1..(q + r) PROVE BlockOf(g, i) = EncryptBlock(BlockOf(z, i))
  <2>1. CASE i <= q
    <3>1. i \in 1..q
      BY <1>3, <2>1
    <3>2. BlockOf(e, i) = EncryptBlock(BlockOf(x, i))
      BY <1>4, <3>1 DEF IsEnciphered, Link, Entering
    <3>. QED  BY <1>7, <1>9, <3>1, <3>2
  <2>2. CASE ~(i <= q)
    <3>1. PICK k \in 1..r : i = q + k
      <4>1. i - q \in 1..r /\ i = q + (i - q)
        BY <1>3, <2>2
      <4>. QED  BY <4>1
    <3>2. BlockOf(f, k) = EncryptBlock(BlockOf(y, k))
      BY <1>4, <3>1 DEF IsEnciphered, Link, Entering
    <3>. QED  BY <1>7, <1>9, <3>1, <3>2
  <2>. QED  BY <2>1, <2>2
<1>12. IsEnciphered("ecb", IV, z, q + r, g)
  BY <1>10, <1>11 DEF IsEnciphered, Link, Entering
<1>13. IsEnciphered("ecb", IV, z, q + r, EncryptBlocks("ecb", IV, z))
  BY <1>7, IVIsBlock, EncryptedIs
<1>14. EncryptBlocks("ecb", IV, z) = g
  BY <1>12, <1>13, EncryptedIsOne
<1>. QED  BY <1>1, <1>5, <1>6, <1>8, <1>14

\* A text without a whole block is its rest, and nothing is enciphered.
LEMMA ShortIs ==
    ASSUME NEW x \in Texts, WholeBlocks(x) = 0
    PROVE  Rest(x) = x /\ Front(x) = <<>> /\ \A mode : EncryptBlocks(mode, IV, x) = <<>>
<1>1. /\ Whole(Front(x), 0) /\ x = Front(x) \o Rest(x) /\ Rest(x) \in Texts
  BY FrontIs
<1>2. \A t \in Texts : Len(t) = 0 => t = <<>>
  BY EmptySeq DEF Texts
<1>3. \A t : Whole(t, 0) => t = <<>>
  <2>1. 0 * B = 0
    BY CipherSizes
  <2>. QED  BY <1>2, <2>1 DEF Whole
<1>4. Rest(x) = x
  BY <1>1, <1>3, ConcatEmptySeq DEF Texts
<1>5. ASSUME NEW mode PROVE EncryptBlocks(mode, IV, x) = <<>>
  BY <1>3, IVIsBlock, EncryptedIs DEF IsEnciphered
<1>. QED  BY <1>1, <1>3, <1>4, <1>5

\* The rest of a text is such a text, and the rest of a join is that of its end.
LEMMA RestIs ==
    ASSUME NEW x \in Texts
    PROVE  /\ WholeBlocks(Rest(x)) = 0 /\ Rest(Rest(x)) = Rest(x)
           /\ EncryptBlocks("ecb", IV, x) = EncryptBlocks("ecb", IV, Front(x))
<1>1. PICK f, s : f = Front(x) /\ s = Rest(x)
  OBVIOUS
<1>2. /\ Whole(f, WholeBlocks(x)) /\ s \in Texts /\ Len(s) \in 0..(B - 1) /\ x = f \o s
  BY <1>1, FrontIs
<1>3. WholeBlocks(s) = 0
  <2>1. (0 * B + Len(s)) \div B = 0 /\ 0 * B + Len(s) = Len(s)
    BY <1>2, Quotient, CipherSizes
  <2>. QED  BY <2>1, CipherSizes DEF WholeBlocks
<1>4. EncryptBlocks("ecb", IV, s) = <<>> /\ Rest(s) = s
  BY <1>2, <1>3, ShortIs
<1>5. PICK e : e = EncryptBlocks("ecb", IV, f)
  OBVIOUS
<1>6. EncryptBlocks("ecb", IV, x) = e \o <<>> /\ e \in Texts
  BY <1>2, <1>4, <1>5, EcbJoin
<1>7. e \o <<>> = e
  BY <1>6, ConcatEmptySeq DEF Texts
<1>. QED  BY <1>1, <1>3, <1>4, <1>5, <1>6, <1>7

\* After whole blocks the rest is that of what follows.
LEMMA RestOfJoin ==
    ASSUME NEW x, NEW q, Whole(x, q), NEW y \in Texts
    PROVE  Rest(x \o y) = Rest(y)
<1>1. PICK z, r : z = x \o y /\ r = WholeBlocks(y)
  OBVIOUS
<1>2. PICK s, t : s = Rest(y) /\ t = Rest(z)
  OBVIOUS
<1>3. z \in Texts /\ Len(z) = Len(x) + Len(y) /\ WholeBlocks(z) = q + r
  BY <1>1, JoinedBlocks
<1>4. /\ r \in Nat /\ s \in Texts /\ Len(s) \in 0..(B - 1) /\ Len(y) = r * B + Len(s)
  BY <1>1, <1>2, FrontIs
<1>5. PICK w : w = (q + r) * B /\ t \in Texts /\ Len(t) \in 0..(B - 1) /\ Len(z) = w + Len(t)
  BY <1>2, <1>3, FrontIs
<1>6. PICK m \in Nat, n \in Nat, c \in Nat : m = q * B /\ n = r * B /\ w = m + n /\ c = Len(s)
  <2>1. q \in Nat /\ Len(s) \in Nat
    BY <1>4, CipherSizes DEF Whole
  <2>2. q * B \in Nat /\ r * B \in Nat /\ (q + r) * B = q * B + r * B
    BY <1>4, <2>1, CipherSizes
  <2>. QED  BY <1>5, <2>1, <2>2
<1>7. /\ m \in Nat /\ n \in Nat /\ c \in Nat /\ w = m + n /\ c = Len(s)
      /\ Len(x) = m /\ Len(y) = n + c /\ Len(z) = (m + n) + c /\ Len(t) = c
  <2>1. w = m + n /\ c = Len(s) /\ m \in Nat /\ n \in Nat /\ c \in Nat
    BY <1>6
  <2>2. Len(x) = m
    BY <1>6 DEF Whole
  <2>3. Len(y) = n + c
    BY ONLY <1>4, <1>6
  <2>4. Len(z) = w + Len(t) /\ Len(z) = Len(x) + Len(y)
    BY ONLY <1>3, <1>5
  <2>5. Len(t) \in Nat
    BY <1>5, CipherSizes
  <2>. QED  BY ONLY <2>1, <2>2, <2>3, <2>4, <2>5
<1>8. s = SubSeq(y, n + 1, n + c) /\ t = SubSeq(z, (m + n) + 1, (m + n) + c)
  <2>1. s = SubSeq(y, r * B + 1, Len(y)) /\ t = SubSeq(z, (q + r) * B + 1, Len(z))
    BY <1>1, <1>2, <1>3 DEF Rest, B
  <2>. QED  BY ONLY <1>5, <1>6, <1>7, <2>1
<1>9. \A i \in 1..(m + (n + c)) : z[i] = IF i <= m THEN x[i] ELSE y[i - m]
  <2>1. x \in Seq(CipherBytes) /\ y \in Seq(CipherBytes)
    BY DEF Whole, Texts
  <2>2. \A i \in 1..(Len(x) + Len(y)) : z[i] = IF i <= Len(x) THEN x[i] ELSE y[i - Len(x)]
    BY <1>1, <2>1, ConcatProperties
  <2>. QED  BY ONLY <1>7, <2>2
<1>10. \A i \in 1..c : s[i] = y[n + i]
  <2>1. n + c <= Len(y)
    BY <1>7
  <2>. QED  BY <1>7, <1>8, <2>1, PartIs
<1>11. \A i \in 1..c : t[i] = z[(m + n) + i]
  <2>1. PICK h \in Nat : h = m + n /\ h + c <= Len(z)
    BY <1>7
  <2>2. t = SubSeq(z, h + 1, h + c)
    BY <1>8, <2>1
  <2>3. \A i \in 1..c : t[i] = z[h + i]
    BY <1>3, <2>1, <2>2, PartIs
  <2>. QED  BY <2>1, <2>3
<1>12. \A i \in 1..c : z[(m + n) + i] = y[n + i]
  <2>. TAKE i \in 1..c
  <2>1. PICK k : k = (m + n) + i
    OBVIOUS
  <2>2. k \in 1..(m + (n + c)) /\ ~(k <= m) /\ k - m = n + i
    BY <2>1
  <2>. QED  BY <1>9, <2>1, <2>2
<1>13. s = t
  <2>1. s \in Seq(CipherBytes) /\ t \in Seq(CipherBytes) /\ Len(s) = c /\ Len(t) = c
    BY <1>4, <1>5, <1>7 DEF Texts
  <2>2. \A i \in 1..c : s[i] = t[i]
    BY ONLY <1>10, <1>11, <1>12
  <2>. QED  BY <2>1, <2>2, SeqEqual
<1>. QED  BY <1>1, <1>2, <1>13

\* encrypt() pads the rest of a text and nothing else: in ecb mode what end()
\* returns follows the whole blocks, and in cbc mode it is all when there are none.
LEMMA EcbEnd ==
    ASSUME NEW x \in Texts, NEW c, c.mode = "ecb", c.buf = Rest(x)
    PROVE  EncryptBlocks("ecb", IV, x) \o CipherEnd(c) = Encrypt("ecb", x)
<1>1. PICK f, s : f = Front(x) /\ s = Rest(x)
  OBVIOUS
<1>2. Whole(f, WholeBlocks(x)) /\ f \in Texts /\ s \in Texts /\ x = f \o s
  BY <1>1, FrontIs DEF Whole
<1>3. PICK p \in 1..B : p = B - Len(s) /\ Padded(x) = x \o Padding(p) /\ Padding(p) \in Texts
  BY <1>1, PaddedIs
<1>4. PICK d : d = Padding(p)
  OBVIOUS
<1>5. (f \o s) \o d = f \o (s \o d) /\ s \o d \in Texts
  <2>1. Associates(f, s, d)
    BY <1>2, <1>3, <1>4, JoinsAssociate
  <2>2. (f \o s) \o d = f \o (s \o d)
    BY ONLY <2>1 DEF Associates
  <2>3. s \o d \in Texts
    BY <1>2, <1>3, <1>4, JoinIs
  <2>. QED  BY <2>2, <2>3
<1>6. EncryptBlocks("ecb", IV, f \o (s \o d)) = EncryptBlocks("ecb", IV, f) \o EncryptBlocks("ecb", IV, s \o d)
  BY <1>2, <1>5, EcbJoin
<1>7. CipherEnd(c) = EncryptBlocks("ecb", IV, s \o d)
  BY <1>1, <1>3, <1>4, CipherSizes DEF CipherEnd
<1>8. Encrypt("ecb", x) = EncryptBlocks("ecb", IV, f \o (s \o d))
  BY <1>2, <1>3, <1>4, <1>5 DEF Encrypt
<1>. QED  BY <1>1, <1>6, <1>7, <1>8, RestIs

LEMMA CbcEnd ==
    ASSUME NEW x \in Texts, WholeBlocks(x) = 0, NEW c, c.mode = "cbc", c.buf = Rest(x)
    PROVE  CipherEnd(c) = Encrypt("cbc", x)
<1>1. Rest(x) = x
  BY ShortIs
<1>2. PICK p \in 1..B : p = B - Len(Rest(x)) /\ Padded(x) = x \o Padding(p)
  BY PaddedIs
<1>. QED  BY <1>1, <1>2, CipherSizes DEF CipherEnd, Encrypt

\* With an empty buffer update() enciphers its chunk and keeps the rest.
Keeping(mode, buf) == [mode |-> mode, dir |-> "encrypt", buf |-> buf]
LEMMA FreshUpdate ==
    ASSUME NEW mode, NEW chunk
    PROVE  CipherUpdate(Keeping(mode, <<>>), chunk)
             = [out |-> EncryptBlocks(mode, IV, chunk), next |-> Keeping(mode, Rest(chunk))]
BY DEF CipherUpdate, Processed, Keeping

\* One block at a time, ecb mode returns what encrypt() does.
Fed(out, buf) == [out |-> out, next |-> Keeping("ecb", buf)]
Turn(before, chunk) ==
    LET u == CipherUpdate(before.next, chunk) IN [u EXCEPT !.out = before.out \o @]

LEMMA TurnIs ==
    ASSUME NEW out, NEW chunk
    PROVE  Turn(Fed(out, <<>>), chunk) = Fed(out \o EncryptBlocks("ecb", IV, chunk), Rest(chunk))
<1>1. CipherUpdate(Fed(out, <<>>).next, chunk)
        = [out |-> EncryptBlocks("ecb", IV, chunk), next |-> Keeping("ecb", Rest(chunk))]
  BY FreshUpdate DEF Fed
<1>2. Fed(out, <<>>).out = out
  BY DEF Fed
<1>3. PICK u, e, k : /\ u = CipherUpdate(Fed(out, <<>>).next, chunk)
                     /\ e = EncryptBlocks("ecb", IV, chunk) /\ k = Keeping("ecb", Rest(chunk))
  OBVIOUS
<1>4. Turn(Fed(out, <<>>), chunk) = [u EXCEPT !.out = out \o @]
  BY <1>2, <1>3 DEF Turn
<1>5. u = [out |-> e, next |-> k]
  BY <1>1, <1>3
<1>6. [u EXCEPT !.out = out \o @] = [out |-> out \o e, next |-> k]
  <2>1. PICK j : j = out \o e
    OBVIOUS
  <2>2. u.out = e
    BY ONLY <1>5
  <2>3. [u EXCEPT !.out = out \o @] = [u EXCEPT !.out = j]
    BY ONLY <2>1, <2>2
  <2>4. [[out |-> e, next |-> k] EXCEPT !.out = j] = [out |-> j, next |-> k]
    OBVIOUS
  <2>. QED  BY <1>5, <2>1, <2>3, <2>4
<1>. QED  BY <1>3, <1>4, <1>6 DEF Fed

\* The first i blocks of a text.
Upto(x, i) == SubSeq(x, 1, i * CipherBlock)
LEMMA UptoIs ==
    ASSUME NEW x \in Texts, NEW i \in 0..WholeBlocks(x)
    PROVE  /\ Whole(Upto(x, i), i) /\ Upto(x, 0) = <<>>
           /\ i # 0 => /\ Upto(x, i) = Upto(x, i - 1) \o BlockOf(x, i)
                       /\ Whole(BlockOf(x, i), 1) /\ Rest(BlockOf(x, i)) = <<>>
<1>1. PICK q \in Nat : q = WholeBlocks(x) /\ q * B <= Len(x) /\ i \in Nat /\ i <= q
  <2>1. PICK q, r : q = WholeBlocks(x) /\ r = Len(Rest(x))
    OBVIOUS
  <2>2. q \in Nat /\ r \in 0..(B - 1) /\ Len(x) = q * B + r
    BY <2>1, FrontIs
  <2>3. q * B \in Nat
    BY <2>2, CipherSizes
  <2>. QED  BY <2>1, <2>2, <2>3, CipherSizes
<1>2. PICK n \in Nat : n = i * B /\ n = i * CipherBlock /\ n <= q * B
  <2>1. i * B \in Nat /\ (q - i) * B \in Nat /\ q * B = i * B + (q - i) * B
    <3>1. q - i \in Nat
      BY <1>1
    <3>2. i * B \in Nat /\ (q - i) * B \in Nat
      BY <1>1, <3>1, CipherSizes
    <3>3. q * B = i * B + (q - i) * B
      BY <1>1, CipherSizes
    <3>. QED  BY <3>2, <3>3
  <2>2. PICK a \in Nat, b \in Nat : a = i * B /\ b = (q - i) * B /\ q * B = a + b
    BY <2>1
  <2>. QED  BY <2>2, CipherSizes
<1>3. Upto(x, i) = SubSeq(x, 1, n) /\ n <= Len(x)
  BY <1>1, <1>2, CipherSizes DEF Upto, Texts
<1>4. /\ Upto(x, i) \in Texts /\ Len(Upto(x, i)) = n
      /\ \A k \in 1..n : Upto(x, i)[k] = x[k]
  BY <1>3, HeadIs
<1>5. Whole(Upto(x, i), i)
  BY <1>1, <1>2, <1>4 DEF Whole
<1>6. Upto(x, 0) = <<>>
  <2>1. 0 * CipherBlock = 0
    BY CipherSizes
  <2>. QED  BY <2>1, SubSeqEmpty DEF Upto
<1>7. ASSUME i # 0
      PROVE  /\ Upto(x, i) = Upto(x, i - 1) \o BlockOf(x, i)
             /\ Whole(BlockOf(x, i), 1) /\ Rest(BlockOf(x, i)) = <<>>
  <2>1. PICK m \in Nat : m = (i - 1) * B /\ m = (i - 1) * CipherBlock /\ n = m + B
    <3>1. i \in 1..q
      BY <1>1, <1>7
    <3>. QED  BY <1>2, <3>1, BlockPlace, CipherSizes
  <2>2. PICK u, b : u = Upto(x, i - 1) /\ b = BlockOf(x, i)
    OBVIOUS
  <2>3. u = SubSeq(x, 1, m) /\ m <= Len(x) /\ b = SubSeq(x, m + 1, m + B) /\ m + B <= Len(x) /\ B \in Nat
    BY <1>1, <1>2, <2>1, <2>2, CipherSizes DEF Upto, BlockOf, Texts
  <2>4. /\ u \in Texts /\ Len(u) = m /\ \A k \in 1..m : u[k] = x[k]
    BY <2>3, HeadIs
  <2>5. b \in Texts /\ Len(b) = B /\ \A k \in 1..B : b[k] = x[m + k]
    BY <2>3, PartIs
  <2>6. u \o b = Upto(x, i)
    <3>1. /\ u \o b \in Texts /\ Len(u \o b) = m + B
          /\ \A k \in 1..(m + B) : (u \o b)[k] = IF k <= m THEN u[k] ELSE b[k - m]
      BY <2>4, <2>5, JoinIs
    <3>2. \A k \in 1..n : (u \o b)[k] = Upto(x, i)[k]
      <4>. TAKE k \in 1..n
      <4>1. CASE k <= m
        <5>1. k \in 1..m
          BY <4>1
        <5>. QED  BY <1>4, <2>1, <2>4, <3>1, <4>1, <5>1
      <4>2. CASE ~(k <= m)
        <5>1. k - m \in 1..B /\ m + (k - m) = k
          BY <2>1, <4>2, CipherSizes
        <5>. QED  BY <1>4, <2>1, <2>5, <3>1, <4>2, <5>1
      <4>. QED  BY <4>1, <4>2
    <3>. QED  BY <1>4, <2>1, <3>1, <3>2, SeqEqual DEF Texts
  <2>7. Whole(b, 1)
    BY <2>5, CipherSizes DEF Whole
  <2>8. Rest(b) = <<>>
    <3>1. WholeBlocks(b) = 1
      BY <2>7, WholeIs
    <3>2. Rest(b) = SubSeq(b, B + 1, B)
      BY <2>5, <3>1, CipherSizes DEF Rest
    <3>. QED  BY <3>2, SubSeqEmpty, CipherSizes
  <2>. QED  BY <2>2, <2>6, <2>7, <2>8
<1>. QED  BY <1>5, <1>6, <1>7

LEMMA StreamedIs == ASSUME NEW x \in Texts PROVE StreamedThrough("ecb", "encrypt", x) = Encrypt("ecb", x)
<1>. DEFINE n == WholeBlocks(x)
            Chunk(i) == IF i <= n THEN BlockOf(x, i) ELSE Rest(x)
            Step(f) == [i \in 0..(n + 1) |-> IF i = 0 THEN [out |-> <<>>, next |-> NewCipher("ecb", "encrypt")]
                                             ELSE Turn(f[i - 1], Chunk(i))]
            read == CHOOSE f : f = Step(f)
            told == [i \in 0..(n + 1) |-> IF i <= n THEN Fed(EncryptBlocks("ecb", IV, Upto(x, i)), <<>>)
                                          ELSE Fed(EncryptBlocks("ecb", IV, x), Rest(x))]
<1>1. StreamedThrough("ecb", "encrypt", x) = read[n + 1].out \o CipherEnd(read[n + 1].next)
  BY DEF StreamedThrough, Turn
<1>2. n \in Nat
  BY FrontIs
<1>. HIDE DEF n
<1>3. Upto(x, n) = Front(x)
  BY DEF Upto, Front, n
<1>4. told[0] = [out |-> <<>>, next |-> NewCipher("ecb", "encrypt")]
  <2>1. Upto(x, 0) = <<>> /\ 0 \in 0..n
    BY <1>2, UptoIs DEF n
  <2>2. <<>> \in Texts /\ Len(<<>>) = 0
    BY EmptySeq DEF Texts
  <2>3. WholeBlocks(<<>>) = 0
    <3>1. 0 \in 0..(B - 1) /\ 0 * B + 0 = 0
      BY CipherSizes
    <3>2. 0 \div B = 0
      BY <3>1, Quotient
    <3>. QED  BY <2>2, <3>2, CipherSizes DEF WholeBlocks
  <2>4. EncryptBlocks("ecb", IV, <<>>) = <<>>
    BY <2>2, <2>3, ShortIs
  <2>5. told[0] = Fed(EncryptBlocks("ecb", IV, Upto(x, 0)), <<>>)
    BY <1>2
  <2>. QED  BY <2>1, <2>4, <2>5 DEF Fed, NewCipher, Keeping
<1>5. ASSUME NEW i \in 1..(n + 1) PROVE told[i] = Turn(told[i - 1], Chunk(i))
  <2>1. i \in Nat /\ i - 1 \in 0..n /\ i - 1 \in 0..(n + 1) /\ i \in 0..(n + 1) /\ i # 0
    BY <1>2
  <2>2. told[i - 1] = Fed(EncryptBlocks("ecb", IV, Upto(x, i - 1)), <<>>)
    BY <1>2, <2>1
  <2>3. Turn(told[i - 1], Chunk(i))
          = Fed(EncryptBlocks("ecb", IV, Upto(x, i - 1)) \o EncryptBlocks("ecb", IV, Chunk(i)), Rest(Chunk(i)))
    <3>. HIDE DEF told, Chunk
    <3>. QED  BY <2>2, TurnIs
  <2>4. CASE i <= n
    <3>1. i \in 0..n /\ Chunk(i) = BlockOf(x, i)
      BY <2>1, <2>4
    <3>2. told[i] = Fed(EncryptBlocks("ecb", IV, Upto(x, i)), <<>>)
      BY <2>1, <2>4
    <3>3. /\ Whole(Upto(x, i - 1), i - 1) /\ Upto(x, i) = Upto(x, i - 1) \o BlockOf(x, i)
          /\ BlockOf(x, i) \in Texts /\ Rest(BlockOf(x, i)) = <<>>
      BY <2>1, <3>1, UptoIs DEF n, Whole
    <3>4. EncryptBlocks("ecb", IV, Upto(x, i))
            = EncryptBlocks("ecb", IV, Upto(x, i - 1)) \o EncryptBlocks("ecb", IV, BlockOf(x, i))
      BY <3>3, EcbJoin
    <3>. QED  BY <2>3, <3>1, <3>2, <3>3, <3>4
  <2>5. CASE ~(i <= n)
    <3>1. i - 1 = n /\ Chunk(i) = Rest(x)
      BY <1>2, <2>1, <2>5
    <3>2. told[i] = Fed(EncryptBlocks("ecb", IV, x), Rest(x))
      BY <2>1, <2>5
    <3>3. /\ Whole(Front(x), n) /\ Rest(x) \in Texts /\ x = Front(x) \o Rest(x) /\ Rest(Rest(x)) = Rest(x)
      BY FrontIs, RestIs DEF n
    <3>4. EncryptBlocks("ecb", IV, x) = EncryptBlocks("ecb", IV, Front(x)) \o EncryptBlocks("ecb", IV, Rest(x))
      BY <3>3, EcbJoin
    <3>. QED  BY <1>3, <2>3, <3>1, <3>2, <3>3, <3>4
  <2>. QED  BY <2>4, <2>5
<1>6. told = Step(told)
  <2>1. \A i \in 0..(n + 1) : told[i] = Step(told)[i]
    <3>. TAKE i \in 0..(n + 1)
    <3>1. CASE i = 0
      BY <1>4, <3>1
    <3>2. CASE i # 0
      <4>1. i \in 1..(n + 1)
        BY <1>2, <3>2
      <4>2. told[i] = Turn(told[i - 1], Chunk(i))
        BY <1>5, <4>1
      <4>. HIDE DEF told, Chunk
      <4>. QED  BY <3>2, <4>2
    <3>. QED  BY <3>1, <3>2
  <2>. HIDE DEF Step
  <2>2. DOMAIN told = 0..(n + 1) /\ DOMAIN Step(told) = 0..(n + 1)
    BY DEF Step
  <2>3. told = [i \in 0..(n + 1) |-> told[i]] /\ Step(told) = [i \in 0..(n + 1) |-> Step(told)[i]]
    BY DEF Step
  <2>. QED  BY <2>1, <2>3
<1>. HIDE DEF told, Step
<1>7. read = Step(read)
  BY <1>6
<1>. HIDE DEF read
<1>8. \A i \in 0..(n + 1) : read[i] = told[i]
  <2>. DEFINE Bad == {i \in 0..(n + 1) : read[i] # told[i]}
  <2> SUFFICES ASSUME Bad # {} PROVE FALSE
    OBVIOUS
  <2>1. PICK i \in Bad : \A m \in Bad : ~(m < i)
    <3>1. Bad \subseteq Nat
      BY <1>2
    <3>. HIDE DEF Bad
    <3>. QED  BY <3>1, LeastOf
  <2>2. i \in 0..(n + 1) /\ read[i] # told[i]
    BY <2>1
  <2>3. i # 0 => i - 1 \in 0..(n + 1) /\ i - 1 < i
    BY <1>2, <2>2
  <2>4. i # 0 => read[i - 1] = told[i - 1]
    BY <2>1, <2>3
  <2>5. \A f : Step(f)[i] = IF i = 0 THEN [out |-> <<>>, next |-> NewCipher("ecb", "encrypt")]
                            ELSE Turn(f[i - 1], Chunk(i))
    BY <2>2 DEF Step
  <2>6. Step(read)[i] = Step(told)[i]
    <3>. HIDE DEF Chunk
    <3>. QED  BY <2>4, <2>5
  <2>. QED  BY <1>6, <1>7, <2>2, <2>6
<1>9. read[n + 1] = Fed(EncryptBlocks("ecb", IV, x), Rest(x))
  <2>1. n + 1 \in 0..(n + 1) /\ ~(n + 1 <= n)
    BY <1>2
  <2>. QED  BY <1>8, <2>1 DEF told
<1>10. /\ read[n + 1].out = EncryptBlocks("ecb", IV, x)
       /\ read[n + 1].next.mode = "ecb" /\ read[n + 1].next.buf = Rest(x)
  BY <1>9 DEF Fed, Keeping
<1>. QED  BY <1>1, <1>10, EcbEnd

-----------------------------------------------------------------------------
(* The invariant. *)

\* The types, and what a stream knows that has never met a part of a block.
Knows ==
    /\ cipher.buf = Rest(plain)
    /\ cipher.mode = "ecb" => enciphered = EncryptBlocks("ecb", IV, plain)
    /\ cipher.mode = "cbc" /\ enciphered = <<>> => WholeBlocks(plain) = 0
CipherInv ==
    /\ plain \in Texts /\ enciphered \in Texts
    /\ \E mode \in Modes, buf \in Texts : cipher = Keeping(mode, buf) /\ Len(buf) < B
    /\ ~met => Knows

LEMMA NothingIs == <<>> \in Texts /\ Len(<<>>) = 0 /\ WholeBlocks(<<>>) = 0 /\ Rest(<<>>) = <<>>
<1>1. <<>> \in Texts /\ Len(<<>>) = 0
  BY EmptySeq DEF Texts
<1>2. 0 \in 0..(B - 1) /\ 0 * B + 0 = 0
  BY CipherSizes
<1>3. 0 \div B = 0
  BY <1>2, Quotient
<1>. QED  BY <1>1, <1>3, CipherSizes, ShortIs DEF WholeBlocks

LEMMA InitCipherInv == CipherInit => CipherInv
<1>1. SUFFICES ASSUME CipherInit PROVE CipherInv
  OBVIOUS
<1>2. PICK mode \in Modes : cipher = Keeping(mode, <<>>)
  BY <1>1 DEF CipherInit, NewCipher, Keeping
<1>3. plain = <<>> /\ enciphered = <<>> /\ met = FALSE
  BY <1>1 DEF CipherInit
<1>4. cipher.buf = <<>> /\ Len(<<>>) < B
  BY <1>2, NothingIs, CipherSizes DEF Keeping
<1>5. EncryptBlocks("ecb", IV, <<>>) = <<>>
  BY NothingIs, ShortIs
<1>. QED  BY <1>2, <1>3, <1>4, <1>5, NothingIs DEF CipherInv, Knows

\* update() returns a text and keeps less than a block.
LEMMA UpdateIs ==
    ASSUME NEW mode \in Modes, NEW buf \in Texts, Len(buf) < B, NEW chunk \in Texts,
           NEW u, u = CipherUpdate(Keeping(mode, buf), chunk)
    PROVE  u.out \in Texts /\ \E rest \in Texts : u.next = Keeping(mode, rest) /\ Len(rest) < B
<1>1. Len(buf) \in Nat /\ Len(chunk) \in Nat
  BY DEF Texts
<1>2. Keeping(mode, buf).buf = buf /\ Keeping(mode, buf).mode = mode /\ Keeping(mode, buf).dir = "encrypt"
  BY DEF Keeping
<1>3. CASE buf # <<>> /\ Len(buf) + Len(chunk) < CipherBlock
  <2>1. u.out = <<>> /\ u.next = Keeping(mode, buf \o chunk)
    BY <1>2, <1>3 DEF CipherUpdate, Keeping
  <2>2. buf \o chunk \in Texts /\ Len(buf \o chunk) = Len(buf) + Len(chunk)
    BY ConcatProperties DEF Texts
  <2>. QED  BY <1>3, <2>1, <2>2, NothingIs, CipherSizes
<1>4. CASE ~(buf # <<>> /\ Len(buf) + Len(chunk) < CipherBlock)
  <2>1. PICK bytes : bytes = Processed(buf, chunk)
    OBVIOUS
  <2>2. u = [out |-> EncryptBlocks(mode, IV, bytes), next |-> Keeping(mode, Rest(bytes))]
    BY <1>2, <1>4, <2>1 DEF CipherUpdate, Keeping
  <2>3. bytes \in Texts
    <3>1. CASE buf = <<>>
      BY <2>1, <3>1 DEF Processed
    <3>2. CASE buf # <<>>
      <4>1. PICK m \in Nat : m = CipherBlock - Len(buf) /\ m <= Len(chunk)
        BY <1>1, <1>4, <3>2, CipherSizes
      <4>3. SubSeq(chunk, 1, m) \in Texts
        BY <4>1, HeadIs
      <4>4. bytes = buf \o SubSeq(chunk, 1, m) \o chunk
        BY <2>1, <3>2, <4>1 DEF Processed
      <4>. QED  BY <4>3, <4>4, ConcatProperties DEF Texts
    <3>. QED  BY <3>1, <3>2
  <2>4. EncryptBlocks(mode, IV, bytes) \in Texts
    BY <2>3, IVIsBlock, EncryptedIs DEF IsEnciphered, Whole
  <2>5. Rest(bytes) \in Texts /\ Len(Rest(bytes)) < B
    <3>1. Rest(bytes) \in Texts /\ Len(Rest(bytes)) \in 0..(B - 1)
      BY <2>3, FrontIs
    <3>. QED  BY <3>1, CipherSizes
  <2>. QED  BY <2>2, <2>4, <2>5
<1>. QED  BY <1>3, <1>4

LEMMA NextCipherInv == CipherInv /\ [CipherNext]_cipherVars => CipherInv'
<1>1. SUFFICES ASSUME CipherInv, [CipherNext]_cipherVars PROVE CipherInv'
  OBVIOUS
<1>2. CASE UNCHANGED cipherVars
  BY <1>1, <1>2 DEF cipherVars, CipherInv, Knows
<1>3. CASE CipherNext
  <2>0. PICK n \in 1..CipherBlock :
           \E chunk \in [1..n -> CipherBytes] :
              /\ cipher' = CipherUpdate(cipher, chunk).next
              /\ enciphered' = enciphered \o CipherUpdate(cipher, chunk).out
              /\ plain' = plain \o chunk
              /\ met' = (met \/ cipher.buf # <<>>)
    BY <1>3 DEF CipherNext
  <2>1. PICK chunk \in [1..n -> CipherBytes] :
           /\ cipher' = CipherUpdate(cipher, chunk).next
           /\ enciphered' = enciphered \o CipherUpdate(cipher, chunk).out
           /\ plain' = plain \o chunk
           /\ met' = (met \/ cipher.buf # <<>>)
    BY <2>0
  <2>2. chunk \in Texts
    BY CipherSizes DEF Texts
  <2>3. PICK mode \in Modes, buf \in Texts : cipher = Keeping(mode, buf) /\ Len(buf) < B
    BY <1>1 DEF CipherInv
  <2>4. PICK u : u = CipherUpdate(Keeping(mode, buf), chunk)
    OBVIOUS
  <2>5. cipher' = u.next /\ enciphered' = enciphered \o u.out /\ cipher.buf = buf /\ cipher.mode = mode
    BY <2>1, <2>3, <2>4 DEF Keeping
  <2>6. u.out \in Texts /\ \E rest \in Texts : u.next = Keeping(mode, rest) /\ Len(rest) < B
    BY <2>2, <2>3, <2>4, UpdateIs
  <2>7. plain \in Texts /\ enciphered \in Texts
    BY <1>1 DEF CipherInv
  <2>8. plain' \in Texts /\ enciphered' \in Texts
    BY <2>1, <2>2, <2>5, <2>6, <2>7, ConcatProperties DEF Texts
  <2>9. ASSUME ~met' PROVE Knows'
    <3>1. ~met /\ buf = <<>> /\ Knows
      BY <1>1, <2>1, <2>5, <2>9 DEF CipherInv
    <3>2. u = [out |-> EncryptBlocks(mode, IV, chunk), next |-> Keeping(mode, Rest(chunk))]
      BY <2>4, <3>1, FreshUpdate
    <3>3. /\ cipher'.buf = Rest(chunk) /\ cipher'.mode = mode
          /\ enciphered' = enciphered \o EncryptBlocks(mode, IV, chunk)
      BY <2>5, <3>2 DEF Keeping
    <3>4. PICK q : q = WholeBlocks(plain)
      OBVIOUS
    <3>5. Whole(plain, q)
      <4>1. Rest(plain) = <<>>
        BY <2>5, <3>1 DEF Knows
      <4>2. q \in Nat /\ Len(plain) = q * B + 0
        BY <2>7, <3>4, <4>1, FrontIs, NothingIs
      <4>3. q * B + 0 = q * B
        BY <4>2, CipherSizes
      <4>. QED  BY <2>7, <4>2, <4>3 DEF Whole
    <3>6. Rest(plain \o chunk) = Rest(chunk)
      BY <2>2, <3>5, RestOfJoin
    <3>7. CASE mode = "ecb"
      <4>1. enciphered = EncryptBlocks("ecb", IV, plain)
        BY <2>5, <3>1, <3>7 DEF Knows
      <4>2. EncryptBlocks("ecb", IV, plain \o chunk)
              = EncryptBlocks("ecb", IV, plain) \o EncryptBlocks("ecb", IV, chunk)
        BY <2>2, <3>5, EcbJoin
      <4>. QED  BY <2>1, <3>3, <3>6, <3>7, <4>1, <4>2 DEF Knows
    <3>8. CASE mode = "cbc"
      <4>1. SUFFICES ASSUME enciphered' = <<>> PROVE WholeBlocks(plain') = 0
        BY <2>1, <3>3, <3>6, <3>8 DEF Knows
      <4>2. PICK e : e = EncryptBlocks(mode, IV, chunk)
        OBVIOUS
      <4>3. Whole(e, WholeBlocks(chunk)) /\ e \in Texts
        BY <2>2, <4>2, IVIsBlock, EncryptedIs DEF IsEnciphered, Whole
      <4>4. enciphered = <<>> /\ e = <<>>
        <5>1. PICK d : d = enciphered /\ d \in Seq(CipherBytes) /\ e \in Seq(CipherBytes) /\ d \o e = <<>>
          BY <2>7, <3>3, <4>1, <4>2, <4>3 DEF Texts
        <5>2. d = <<>> /\ e = <<>>
          BY <5>1, ConcatEqualIffEmpty
        <5>. QED  BY <5>1, <5>2
      <4>5. WholeBlocks(chunk) = 0
        BY <4>3, <4>4, WholeIs, NothingIs
      <4>6. q = 0
        BY <2>5, <3>1, <3>4, <3>8, <4>4 DEF Knows
      <4>7. WholeBlocks(plain \o chunk) = q + WholeBlocks(chunk)
        BY <2>2, <3>5, JoinedBlocks
      <4>. QED  BY <2>1, <4>5, <4>6, <4>7
    <3>. QED  BY <3>7, <3>8 DEF Modes
  <2>. QED  BY <2>5, <2>6, <2>8, <2>9 DEF CipherInv
<1>. QED  BY <1>1, <1>2, <1>3

\* decrypt() undoes encrypt() at every length and accepts only what encrypt()
\* makes, and a stream does what encrypt() does: encrypt_stream() in ecb mode, and
\* one whose chunks never met a part of a block, in cbc mode until it has
\* returned a block.
THEOREM CiphersHold == CipherSpec => []CiphersAreInverse
<1>1. CipherInv => CiphersAreInverse
  <2>1. SUFFICES ASSUME CipherInv PROVE CiphersAreInverse
    OBVIOUS
  <2>2. PICK mode \in Modes : cipher.mode = mode
    BY <2>1 DEF CipherInv, Keeping
  <2>3. plain \in Texts /\ enciphered \in Texts
    BY <2>1 DEF CipherInv
  <2>4. DecryptUndoesEncrypt
    BY <2>2, <2>3, EncryptIsUndone DEF DecryptUndoesEncrypt
  <2>5. CiphertextIsCanonical
    BY <2>2, <2>3, DecryptIsUndone DEF CiphertextIsCanonical
  <2>6. StreamIsOneShot
    <3>1. ASSUME ~met, mode = "ecb" \/ enciphered = <<>>
          PROVE  enciphered \o CipherEnd(cipher) = Encrypt(mode, plain)
      <4>1. Knows
        BY <2>1, <3>1 DEF CipherInv
      <4>2. CASE mode = "ecb"
        BY <2>2, <2>3, <4>1, <4>2, EcbEnd DEF Knows
      <4>3. CASE mode = "cbc"
        <5>1. enciphered = <<>> /\ WholeBlocks(plain) = 0
          BY <2>2, <3>1, <4>1, <4>3 DEF Knows
        <5>2. CipherEnd(cipher) = Encrypt("cbc", plain)
          BY <2>2, <2>3, <4>1, <4>3, <5>1, CbcEnd DEF Knows
        <5>3. Encrypt("cbc", plain) \in Texts
          <6>1. Padded(plain) \in Texts
            BY <2>3, PaddedIs DEF Whole
          <6>. QED  BY <6>1, IVIsBlock, EncryptedIs DEF Encrypt, IsEnciphered, Whole
        <5>. QED  BY <4>3, <5>1, <5>2, <5>3, ConcatEmptySeq DEF Texts
      <4>. QED  BY <4>2, <4>3 DEF Modes
    <3>. QED  BY <2>2, <2>3, <3>1, StreamedIs DEF StreamIsOneShot
  <2>. QED  BY <2>4, <2>5, <2>6 DEF CiphersAreInverse
<1>. QED  BY <1>1, InitCipherInv, NextCipherInv, PTL DEF CipherSpec
=============================================================================
