---------------------------- MODULE Bytes_proofs ----------------------------
(***************************************************************************)
(* For words of any size and any items: after any edits, a read that       *)
(* begins where an item begins returns that item, and in an array that was *)
(* cut off the reader gets what is whole and then an error.                *)
(***************************************************************************)
EXTENDS Bytes, SequenceTheorems, WellFoundedInduction, TLAPS

Texts == Seq(ByteRange)

\* A set of numbers has a least one.
LEMMA LeastOf ==
    ASSUME NEW S, S \subseteq Nat, S # {}
    PROVE  \E n \in S : \A m \in S : ~(m < n)
<1>1. PICK n \in S : \A m \in S : ~(<<m, n>> \in OpToRel(<, Nat))
  BY NatLessThanWellFounded, WFMin
<1>. QED  BY <1>1 DEF OpToRel

-----------------------------------------------------------------------------
(* Functions by recursion: step[i] makes the i-th value from the one before. *)

Steps(S) == [Nat -> [S -> S]]
Follows(S, a, step, f) ==
    f \in [Nat -> S] /\ f[0] = a /\ \A i \in Nat \ {0} : f[i] = step[i][f[i - 1]]

\* Up to n, h is such a function as long as its values are in S.
Recurs(S, a, step, n, h) ==
    h[0] = a /\ \A i \in 1..n : h[i - 1] \in S => h[i] = step[i][h[i - 1]]

\* There is one.
LEMMA RecursAlike ==
    ASSUME NEW S, NEW a \in S, NEW step \in Steps(S), NEW n \in Nat, NEW h, NEW g,
           Recurs(S, a, step, n, h), Recurs(S, a, step, n, g)
    PROVE  \A i \in 0..n : h[i] = g[i] /\ h[i] \in S
<1>. DEFINE Bad == {i \in 0..n : ~(h[i] = g[i] /\ h[i] \in S)}
<1> SUFFICES ASSUME Bad # {}
             PROVE  FALSE
  OBVIOUS
<1>1. PICK i \in Bad : \A m \in Bad : ~(m < i)
  <2>1. Bad \subseteq Nat
    OBVIOUS
  <2>. HIDE DEF Bad
  <2>. QED  BY <2>1, LeastOf
<1>2. i # 0
  BY <1>1 DEF Recurs
<1>3. i \in 1..n /\ i - 1 \in 0..n /\ i - 1 < i
  BY <1>1, <1>2
<1>4. h[i - 1] = g[i - 1] /\ h[i - 1] \in S
  BY <1>1, <1>3
<1>5. h[i] = step[i][h[i - 1]] /\ g[i] = step[i][g[i - 1]]
  BY <1>3, <1>4 DEF Recurs
<1>6. step[i][h[i - 1]] \in S
  BY <1>3, <1>4 DEF Steps
<1>. QED  BY <1>1, <1>4, <1>5, <1>6

LEMMA RecursUpto ==
    ASSUME NEW S, NEW a \in S, NEW step \in Steps(S), NEW n \in Nat
    PROVE  \E h : Recurs(S, a, step, n, h)
<1>. DEFINE Bad == {i \in Nat : ~ \E h : Recurs(S, a, step, i, h)}
<1> SUFFICES ASSUME Bad # {}
             PROVE  FALSE
  OBVIOUS
<1>1. PICK i \in Bad : \A m \in Bad : ~(m < i)
  <2>1. Bad \subseteq Nat
    OBVIOUS
  <2>. HIDE DEF Bad
  <2>. QED  BY <2>1, LeastOf
<1>2. CASE i = 0
  <2>1. Recurs(S, a, step, 0, [m \in {0} |-> a])
    BY DEF Recurs
  <2>. QED  BY <1>1, <1>2, <2>1
<1>3. CASE i # 0
  <2>1. i - 1 \in Nat /\ i - 1 < i
    BY <1>1, <1>3
  <2>2. PICK h : Recurs(S, a, step, i - 1, h)
    BY <1>1, <2>1
  <2>. DEFINE g == [m \in 0..i |-> IF m = i THEN step[i][h[i - 1]] ELSE h[m]]
  <2>3. \A m \in 0..i : m # i => g[m] = h[m]
    OBVIOUS
  <2>4. g[i] = step[i][h[i - 1]] /\ g[i - 1] = h[i - 1]
    BY <2>1
  <2>5. g[0] = a
    BY <1>3, <2>2 DEF Recurs
  <2>6. ASSUME NEW m \in 1..i, g[m - 1] \in S PROVE g[m] = step[m][g[m - 1]]
    <3>1. CASE m = i
      BY <2>4, <3>1
    <3>2. CASE m # i
      <4>1. m \in 1..(i - 1) /\ m - 1 \in 0..i /\ m - 1 # i /\ m \in 0..i
        BY <3>2
      <4>2. g[m] = h[m] /\ g[m - 1] = h[m - 1]
        BY <2>3, <3>2, <4>1
      <4>. QED  BY <2>2, <2>6, <4>1, <4>2 DEF Recurs
    <3>. QED  BY <3>1, <3>2
  <2>. HIDE DEF g
  <2>7. Recurs(S, a, step, i, g)
    BY <2>5, <2>6 DEF Recurs
  <2>. QED  BY <1>1, <2>7
<1>. QED  BY <1>2, <1>3

LEMMA Recursion ==
    ASSUME NEW S, NEW a \in S, NEW step \in Steps(S)
    PROVE  \E f : Follows(S, a, step, f)
<1>. DEFINE H(n) == CHOOSE h : Recurs(S, a, step, n, h)
            f == [n \in Nat |-> H(n)[n]]
<1>1. \A n \in Nat : Recurs(S, a, step, n, H(n))
  BY RecursUpto
<1>. HIDE DEF H
<1>2. ASSUME NEW n \in Nat PROVE H(n)[n] \in S
  <2>1. n \in 0..n
    OBVIOUS
  <2>. QED  BY <1>1, <2>1, RecursAlike
<1>3. f[0] = a
  BY <1>1 DEF Recurs
<1>4. ASSUME NEW i \in Nat \ {0} PROVE H(i)[i] = step[i][H(i - 1)[i - 1]]
  <2>1. i - 1 \in Nat /\ i - 1 \in 0..(i - 1) /\ i - 1 \in 0..i /\ i \in 1..i /\ \A m \in 1..(i - 1) : m \in 1..i
    OBVIOUS
  <2>2. Recurs(S, a, step, i - 1, H(i))
    BY <1>1, <2>1 DEF Recurs
  <2>3. H(i)[i - 1] = H(i - 1)[i - 1] /\ H(i)[i - 1] \in S
    BY <1>1, <2>1, <2>2, RecursAlike
  <2>. QED  BY <1>1, <2>1, <2>3 DEF Recurs
<1>5. \A i \in Nat \ {0} : i - 1 \in Nat
  OBVIOUS
<1>6. f \in [Nat -> S] /\ \A i \in Nat \ {0} : f[i] = step[i][f[i - 1]]
  BY <1>2, <1>4, <1>5
<1>. HIDE DEF f
<1>. QED  BY <1>3, <1>6 DEF Follows

\* What a definition by recursion up to n says.
LEMMA Recursive ==
    ASSUME NEW S, NEW a \in S, NEW step \in Steps(S), NEW n \in Nat, NEW h,
           NEW f, Follows(S, a, step, f), Recurs(S, a, step, n, h)
    PROVE  h[n] = f[n]
<1>1. Recurs(S, a, step, n, f)
  BY DEF Recurs, Follows
<1>2. n \in 0..n
  OBVIOUS
<1>. QED  BY <1>1, <1>2, RecursAlike

-----------------------------------------------------------------------------
(* Numbers and their bytes. *)

LEMMA AboveIs ==
    ASSUME NEW n \in Nat
    PROVE  /\ Above(n, 0) = n
           /\ \A i \in Nat : Above(n, i) \in Nat
           /\ \A i \in Nat \ {0} : Above(n, i) = Above(n, i - 1) \div 256
<1>. DEFINE step == [i \in Nat |-> [x \in Nat |-> x \div 256]]
<1>0. step \in Steps(Nat)
  BY DEF Steps
<1>1. \A i, x \in Nat : step[i][x] = x \div 256
  OBVIOUS
<1>. HIDE DEF step
<1>2a. PICK f : Follows(Nat, n, step, f)
  BY <1>0, Recursion
<1>2. f \in [Nat -> Nat] /\ f[0] = n /\ \A i \in Nat \ {0} : f[i] = step[i][f[i - 1]]
  BY <1>2a DEF Follows
<1>3. ASSUME NEW i \in Nat \ {0} PROVE i - 1 \in Nat /\ f[i] = f[i - 1] \div 256
  <2>1. i - 1 \in Nat /\ i \in Nat
    OBVIOUS
  <2>2. f[i] = step[i][f[i - 1]] /\ f[i - 1] \in Nat
    BY <1>2, <2>1
  <2>. QED  BY <1>1, <2>1, <2>2
<1>4. ASSUME NEW c \in Nat PROVE Above(n, c) = f[c]
  <2>. DEFINE Is(g) == g = [i \in 0..c |-> IF i = 0 THEN n ELSE g[i - 1] \div 256]
              left == CHOOSE g : Is(g)
  <2>1. Above(n, c) = left[c]
    BY DEF Above
  <2>2. Is([i \in 0..c |-> f[i]])
    <3>1. ASSUME NEW i \in 0..c, i # 0 PROVE i - 1 \in 0..c /\ i \in Nat \ {0}
      BY <3>1
    <3>2. \A i \in 0..c : f[i] = IF i = 0 THEN n ELSE [m \in 0..c |-> f[m]][i - 1] \div 256
      BY <1>2, <1>3, <3>1
    <3>. QED  BY <3>2
  <2>3. Is(left)
    BY <2>2
  <2>. HIDE DEF left
  <2>4. left[0] = n /\ \A i \in 1..c : left[i] = left[i - 1] \div 256
    <3>1. 0 \in 0..c /\ \A i \in 1..c : i \in 0..c /\ i # 0
      OBVIOUS
    <3>2. \A i \in 0..c : left[i] = IF i = 0 THEN n ELSE left[i - 1] \div 256
      BY <2>3
    <3>. QED  BY <3>1, <3>2
  <2>5. ASSUME NEW i \in 1..c, left[i - 1] \in Nat PROVE left[i] = step[i][left[i - 1]]
    <3>1. i \in Nat
      OBVIOUS
    <3>2. step[i][left[i - 1]] = left[i - 1] \div 256
      BY <1>1, <2>5, <3>1
    <3>. QED  BY <2>4, <3>2
  <2>6. Recurs(Nat, n, step, c, left)
    BY <2>4, <2>5 DEF Recurs
  <2>7. left[c] = f[c]
    BY <1>0, <1>2a, <2>6, Recursive
  <2>. QED  BY <2>1, <2>7
<1>. QED  BY <1>2, <1>3, <1>4

LEMMA NativeIs ==
    ASSUME NEW n \in Nat, NEW size \in Nat
    PROVE  /\ Native(n, size) \in Texts /\ Len(Native(n, size)) = size
           /\ \A i \in 1..size : Native(n, size)[i] = Above(n, i - 1) % 256
<1>1. \A i \in 1..size : i - 1 \in Nat
  OBVIOUS
<1>2. ASSUME NEW i \in 1..size PROVE Above(n, i - 1) % 256 \in ByteRange
  <2>1. PICK u \in Nat : u = Above(n, i - 1)
    BY <1>1, AboveIs
  <2>2. u % 256 \in 0..255
    OBVIOUS
  <2>. QED  BY <2>1, <2>2 DEF ByteRange
<1>3. Native(n, size) \in [1..size -> ByteRange] /\ \A i \in 1..size : Native(n, size)[i] = Above(n, i - 1) % 256
  BY <1>2 DEF Native
<1>. HIDE DEF Native
<1>. QED  BY <1>3 DEF Texts

\* The sum that Number() makes, from the highest byte.
LEMMA NumberIs ==
    ASSUME NEW x \in Texts
    PROVE  \E f \in [Nat -> Nat] :
              /\ f[0] = 0 /\ Number(x) = f[Len(x)]
              /\ \A i \in 1..Len(x) : f[i] = 256 * f[i - 1] + x[Len(x) + 1 - i]
<1>0. PICK c \in Nat : c = Len(x)
  BY DEF Texts
<1>. DEFINE At(i) == IF i \in 1..c THEN x[c + 1 - i] ELSE 0
            step == [i \in Nat |-> [s \in Nat |-> 256 * s + At(i)]]
<1>1. \A i \in 1..c : c + 1 - i \in 1..c
  BY <1>0
<1>2. ASSUME NEW i \in Nat PROVE At(i) \in Nat
  <2>1. CASE i \in 1..c
    <3>1. PICK u \in ByteRange : u = x[c + 1 - i]
      BY <1>0, <1>1, <2>1 DEF Texts
    <3>2. u \in Nat
      BY DEF ByteRange
    <3>. QED  BY <2>1, <3>1, <3>2
  <2>2. CASE i \notin 1..c
    BY <2>2
  <2>. QED  BY <2>1, <2>2
<1>. HIDE DEF At
<1>3a. ASSUME NEW i \in Nat, NEW s \in Nat PROVE 256 * s + At(i) \in Nat
  <2>1. PICK u \in Nat : u = At(i)
    BY <1>2
  <2>2. 256 * s + u \in Nat
    OBVIOUS
  <2>. QED  BY <2>1, <2>2
<1>3b. step \in Steps(Nat)
  BY <1>3a DEF Steps
<1>3. \A i, s \in Nat : step[i][s] = 256 * s + At(i)
  OBVIOUS
<1>. HIDE DEF step
<1>4a. PICK f : Follows(Nat, 0, step, f)
  BY <1>3b, Recursion
<1>4. f \in [Nat -> Nat] /\ f[0] = 0 /\ \A i \in Nat \ {0} : f[i] = step[i][f[i - 1]]
  BY <1>4a DEF Follows
<1>5. \A i \in 1..c : i \in Nat \ {0} /\ i - 1 \in Nat /\ i - 1 \in 0..c /\ i \in 0..c /\ At(i) = x[c + 1 - i]
  BY <1>0 DEF At
<1>6. ASSUME NEW i \in 1..c PROVE f[i] = 256 * f[i - 1] + x[c + 1 - i]
  <2>1. i \in Nat \ {0} /\ i \in Nat /\ i - 1 \in Nat /\ At(i) = x[c + 1 - i]
    BY <1>5
  <2>2. f[i] = step[i][f[i - 1]] /\ f[i - 1] \in Nat
    BY <1>4, <2>1
  <2>3. step[i][f[i - 1]] = 256 * f[i - 1] + At(i)
    BY <1>3, <2>1, <2>2
  <2>. QED  BY <2>1, <2>2, <2>3
<1>7. Number(x) = f[c]
  <2>. DEFINE Is(g) == g = [i \in 0..c |-> IF i = 0 THEN 0 ELSE 256 * g[i - 1] + x[c + 1 - i]]
              sum == CHOOSE g : Is(g)
  <2>1. Number(x) = sum[c]
    BY <1>0 DEF Number
  <2>2. Is([i \in 0..c |-> f[i]])
    <3>1. \A i \in 0..c : i # 0 => i \in 1..c
      BY <1>0
    <3>2. \A i \in 0..c : f[i] = IF i = 0 THEN 0 ELSE 256 * [m \in 0..c |-> f[m]][i - 1] + x[c + 1 - i]
      BY <1>4, <1>5, <1>6, <3>1
    <3>. QED  BY <3>2
  <2>3. Is(sum)
    BY <2>2
  <2>. HIDE DEF sum
  <2>4. sum[0] = 0 /\ \A i \in 1..c : sum[i] = 256 * sum[i - 1] + x[c + 1 - i]
    <3>1. 0 \in 0..c /\ \A i \in 1..c : i \in 0..c /\ i # 0
      BY <1>0
    <3>2. \A i \in 0..c : sum[i] = IF i = 0 THEN 0 ELSE 256 * sum[i - 1] + x[c + 1 - i]
      BY <2>3
    <3>. QED  BY <3>1, <3>2
  <2>5. ASSUME NEW i \in 1..c, sum[i - 1] \in Nat PROVE sum[i] = step[i][sum[i - 1]]
    <3>1. i \in Nat /\ At(i) = x[c + 1 - i]
      BY <1>5
    <3>2. step[i][sum[i - 1]] = 256 * sum[i - 1] + At(i)
      BY <1>3, <2>5, <3>1
    <3>3. sum[i] = 256 * sum[i - 1] + x[c + 1 - i]
      BY <2>4
    <3>. HIDE DEF At, step
    <3>. QED  BY <3>1, <3>2, <3>3
  <2>6. Recurs(Nat, 0, step, c, sum)
    BY <2>4, <2>5 DEF Recurs
  <2>7. sum[c] = f[c]
    <3>1. 0 \in Nat
      OBVIOUS
    <3>. HIDE DEF Is
    <3>. QED  BY <3>1, <1>3b, <1>4a, <2>6, Recursive
  <2>. QED  BY <2>1, <2>7
<1>8. /\ f[0] = 0 /\ Number(x) = f[Len(x)]
      /\ \A i \in 1..Len(x) : f[i] = 256 * f[i - 1] + x[Len(x) + 1 - i]
  BY ONLY <1>0, <1>4, <1>6, <1>7
<1>. QED  BY ONLY <1>4, <1>8

LEMMA NumberType == ASSUME NEW x \in Texts PROVE Number(x) \in Nat
BY NumberIs DEF Texts

\* A number comes back from its bytes when they have room for it.
LEMMA NumberOfNative ==
    ASSUME NEW n \in Nat, NEW size \in Nat, Above(n, size) = 0
    PROVE  Number(Native(n, size)) = n
<1>. DEFINE x == Native(n, size)
<1>1. x \in Texts /\ Len(x) = size /\ \A i \in 1..size : x[i] = Above(n, i - 1) % 256
  BY NativeIs
<1>. HIDE DEF x
<1>2. PICK f \in [Nat -> Nat] : /\ f[0] = 0 /\ Number(x) = f[Len(x)]
                                /\ \A i \in 1..Len(x) : f[i] = 256 * f[i - 1] + x[Len(x) + 1 - i]
  BY ONLY <1>1, NumberIs
<1>. DEFINE Bad == {i \in 0..size : f[i] # Above(n, size - i)}
<1>3. ASSUME Bad # {} PROVE FALSE
  <2>1. PICK i \in Bad : \A m \in Bad : ~(m < i)
    <3>1. Bad \subseteq Nat
      OBVIOUS
    <3>. HIDE DEF Bad
    <3>. QED  BY <1>3, <3>1, LeastOf
  <2>2. i # 0
    <3>1. size - 0 = size
      OBVIOUS
    <3>. QED  BY <1>2, <2>1, <3>1
  <2>3. /\ i \in 1..size /\ i - 1 \in 0..size /\ i - 1 < i
        /\ size - (i - 1) \in Nat \ {0} /\ (size - (i - 1)) - 1 = size - i
        /\ size + 1 - i \in 1..size /\ (size + 1 - i) - 1 = size - i /\ size - i \in Nat
    BY <2>1, <2>2
  <2>4. f[i - 1] = Above(n, size - (i - 1))
    BY <2>1, <2>3
  <2>5. Above(n, size - (i - 1)) = Above(n, size - i) \div 256
    BY <2>3, AboveIs
  <2>6. f[i] = 256 * f[i - 1] + (Above(n, size - i) % 256)
    <3>1. f[i] = 256 * f[i - 1] + x[size + 1 - i]
      BY <1>1, <1>2, <2>3
    <3>2. x[size + 1 - i] = (Above(n, (size + 1 - i) - 1) % 256)
      BY <1>1, <2>3
    <3>3. Above(n, (size + 1 - i) - 1) = Above(n, size - i)
      BY <2>3
    <3>. QED  BY ONLY <3>1, <3>2, <3>3
  <2>7. PICK u \in Nat : u = Above(n, size - i)
    BY <2>3, AboveIs
  <2>8. 256 * (u \div 256) + (u % 256) = u
    OBVIOUS
  <2>9. f[i] = Above(n, size - i)
    BY <2>4, <2>5, <2>6, <2>7, <2>8
  <2>. QED  BY <2>1, <2>9
<1>4. size \in 0..size /\ size - size = 0
  OBVIOUS
<1>5. f[size] = Above(n, 0)
  BY <1>3, <1>4
<1>6. Number(x) = n
  BY <1>1, <1>2, <1>5, AboveIs
<1>. QED  BY <1>6 DEF x

-----------------------------------------------------------------------------
(* Texts, joined and cut. *)

Joined(S, x, y, z) ==
    /\ z \in Seq(S) /\ Len(z) = Len(x) + Len(y) /\ Len(x) \in Nat /\ Len(y) \in Nat
    /\ \A i \in 1..Len(x) : z[i] = x[i]
    /\ \A i \in 1..Len(y) : z[Len(x) + i] = y[i]
LEMMA Joins == ASSUME NEW S, NEW x \in Seq(S), NEW y \in Seq(S) PROVE Joined(S, x, y, x \o y)
<1>1. x \o y \in Seq(S)
  BY ConcatProperties
<1>2. Len(x) \in Nat /\ Len(y) \in Nat
  OBVIOUS
<1>. QED  BY <1>1, <1>2, ConcatProperties DEF Joined

LEMMA JoinIs ==
    ASSUME NEW S, NEW x \in Seq(S), NEW y \in Seq(S)
    PROVE  /\ x \o y \in Seq(S) /\ Len(x \o y) = Len(x) + Len(y)
           /\ Len(x) \in Nat /\ Len(y) \in Nat
           /\ \A i \in 1..Len(x) : (x \o y)[i] = x[i]
           /\ \A i \in 1..Len(y) : (x \o y)[Len(x) + i] = y[i]
<1>1. x \o y \in Seq(S)
  BY ConcatProperties
<1>2. Len(x) \in Nat /\ Len(y) \in Nat
  OBVIOUS
<1>. QED  BY <1>1, <1>2, ConcatProperties

LEMMA PartIs ==
    ASSUME NEW S, NEW x \in Seq(S), NEW m \in Nat, NEW n \in Nat, m + n <= Len(x)
    PROVE  /\ SubSeq(x, m + 1, m + n) \in Seq(S) /\ Len(SubSeq(x, m + 1, m + n)) = n
           /\ \A i \in 1..n : SubSeq(x, m + 1, m + n)[i] = x[m + i]
<1>1. \A k \in (m + 1)..(m + n) : x[k] \in S
  OBVIOUS
<1>2. /\ SubSeq(x, m + 1, m + n) \in Seq(S)
      /\ Len(SubSeq(x, m + 1, m + n)) = IF m + 1 <= m + n THEN (m + n) - (m + 1) + 1 ELSE 0
      /\ \A i \in 1..((m + n) - (m + 1) + 1) : SubSeq(x, m + 1, m + n)[i] = x[(m + 1) + i - 1]
  BY <1>1, SubSeqProperties
<1>3. (m + n) - (m + 1) + 1 = n /\ \A i \in 1..n : (m + 1) + i - 1 = m + i
  OBVIOUS
<1>. QED  BY <1>2, <1>3

Associates(x, y, z) == (x \o y) \o z = x \o (y \o z)
LEMMA JoinsAssociate ==
    ASSUME NEW S, NEW x \in Seq(S), NEW y \in Seq(S), NEW z \in Seq(S) PROVE Associates(x, y, z)
BY ConcatAssociative DEF Associates

LEMMA NothingJoins ==
    ASSUME NEW S, NEW x \in Seq(S) PROVE <<>> \in Seq(S) /\ x \o <<>> = x /\ <<>> \o x = x
BY ConcatEmptySeq, EmptySeq

\* FlattenSeq() one text after the other.
LEMMA FlatIs ==
    ASSUME NEW s \in Seq(Texts)
    PROVE  \E f \in [Nat -> Texts] :
              /\ f[0] = <<>> /\ FlattenSeq(s) = f[Len(s)]
              /\ \A i \in 1..Len(s) : f[i] = f[i - 1] \o s[i]
<1>0. PICK c \in Nat : c = Len(s)
  OBVIOUS
<1>. DEFINE At(i) == IF i \in 1..c THEN s[i] ELSE <<>>
            step == [i \in Nat |-> [x \in Texts |-> x \o At(i)]]
<1>1. <<>> \in Texts
  BY EmptySeq DEF Texts
<1>2. ASSUME NEW i \in Nat PROVE At(i) \in Texts
  BY <1>0, <1>1
<1>3. \A i \in 1..c : i \in Nat \ {0} /\ i \in Nat /\ i - 1 \in Nat /\ At(i) = s[i]
  OBVIOUS
<1>. HIDE DEF At
<1>4. ASSUME NEW i \in Nat, NEW x \in Texts PROVE x \o At(i) \in Texts
  BY <1>2, JoinIs DEF Texts
<1>5. step \in Steps(Texts)
  BY <1>4 DEF Steps
<1>6. \A i \in Nat, x \in Texts : step[i][x] = x \o At(i)
  OBVIOUS
<1>. HIDE DEF step
<1>7. PICK f : Follows(Texts, <<>>, step, f)
  BY <1>1, <1>5, Recursion
<1>8. f \in [Nat -> Texts] /\ f[0] = <<>> /\ \A i \in Nat \ {0} : f[i] = step[i][f[i - 1]]
  BY <1>7 DEF Follows
<1>9. ASSUME NEW i \in 1..c PROVE f[i] = f[i - 1] \o s[i]
  <2>1. f[i] = step[i][f[i - 1]] /\ f[i - 1] \in Texts
    BY <1>3, <1>8
  <2>. QED  BY <1>3, <1>6, <2>1
<1>10. FlattenSeq(s) = f[c]
  <2>1. CASE c = 0
    <3>1. FlattenSeq(s) = s
      BY <1>0, <2>1 DEF FlattenSeq
    <3>2. s = <<>>
      BY <1>0, <2>1, EmptySeq
    <3>. QED  BY <1>8, <2>1, <3>1, <3>2
  <2>2. CASE c # 0
    <3>. DEFINE Is(g) == g = [i \in 1..c |-> IF i = 1 THEN s[i] ELSE g[i - 1] \o s[i]]
                flatten == CHOOSE g : Is(g)
                h == [i \in 0..c |-> IF i = 0 THEN <<>> ELSE flatten[i]]
    <3>1. FlattenSeq(s) = flatten[c]
      BY <1>0, <2>2 DEF FlattenSeq
    <3>2. f[0] \o s[1] = s[1]
      <4>1. s[1] \in Texts
        BY <1>0, <2>2
      <4>. QED  BY <1>8, <4>1, NothingJoins DEF Texts
    <3>2a. f[1] = s[1]
      <4>1. 1 \in 1..c /\ 1 - 1 = 0
        BY <2>2
      <4>2. f[1] = f[1 - 1] \o s[1]
        BY <1>9, <4>1
      <4>. QED  BY <3>2, <4>1, <4>2
    <3>3. Is([i \in 1..c |-> f[i]])
      <4>1. ASSUME NEW i \in 1..c
            PROVE  f[i] = IF i = 1 THEN s[i] ELSE [m \in 1..c |-> f[m]][i - 1] \o s[i]
        <5>1. CASE i = 1
          BY <3>2a, <5>1
        <5>2. CASE i # 1
          <6>1. i - 1 \in 1..c
            BY <5>2
          <6>. QED  BY <1>9, <5>2, <6>1
        <5>. QED  BY <5>1, <5>2
      <4>. QED  BY <4>1
    <3>4. Is(flatten)
      BY <3>3
    <3>. HIDE DEF flatten
    <3>5. \A i \in 1..c : flatten[i] = IF i = 1 THEN s[i] ELSE flatten[i - 1] \o s[i]
      BY <3>4
    <3>6. ASSUME NEW i \in 1..c, h[i - 1] \in Texts PROVE h[i] = step[i][h[i - 1]]
      <4>1. step[i][h[i - 1]] = h[i - 1] \o s[i]
        BY <1>3, <1>6, <3>6
      <4>2. h[i] = flatten[i]
        <5>1. i \in 0..c /\ i # 0
          OBVIOUS
        <5>. QED  BY <5>1
      <4>3. CASE i = 1
        <5>1. h[i - 1] = <<>>
          BY <4>3
        <5>. HIDE DEF h
        <5>. QED  BY <1>8, <3>2, <3>5, <4>1, <4>2, <4>3, <5>1
      <4>4. CASE i # 1
        <5>1. i - 1 \in 0..c /\ i - 1 # 0
          BY <4>4
        <5>2. h[i - 1] = flatten[i - 1]
          BY <5>1
        <5>. HIDE DEF h
        <5>. QED  BY <3>5, <4>1, <4>2, <4>4, <5>2
      <4>. QED  BY <4>3, <4>4
    <3>7. h[0] = <<>> /\ h[c] = flatten[c]
      BY <2>2
    <3>. HIDE DEF h, Is
    <3>8. Recurs(Texts, <<>>, step, c, h)
      BY <3>6, <3>7 DEF Recurs
    <3>9. h[c] = f[c]
      BY <1>1, <1>5, <1>7, <3>8, Recursive
    <3>. QED  BY <3>1, <3>7, <3>9
  <2>. QED  BY <2>1, <2>2
<1>. QED  BY <1>0, <1>8, <1>9, <1>10

LEMMA FlatType == ASSUME NEW s \in Seq(Texts) PROVE FlattenSeq(s) \in Texts
<1>1. PICK f \in [Nat -> Texts] : FlattenSeq(s) = f[Len(s)]
  BY FlatIs
<1>2. Len(s) \in Nat
  OBVIOUS
<1>. QED  BY <1>1, <1>2

LEMMA FlatOne == ASSUME NEW x \in Texts PROVE FlattenSeq(<<x>>) = x
<1>1. PICK s : s = <<x>>
  OBVIOUS
<1>2. s \in Seq(Texts) /\ Len(s) = 1 /\ s[1] = x
  BY <1>1
<1>3. PICK f \in [Nat -> Texts] : /\ f[0] = <<>> /\ FlattenSeq(s) = f[Len(s)]
                                  /\ \A i \in 1..Len(s) : f[i] = f[i - 1] \o s[i]
  BY <1>2, FlatIs
<1>4. 1 \in 1..Len(s) /\ 1 - 1 = 0
  BY <1>2
<1>5. f[1] = f[1 - 1] \o s[1]
  BY <1>3, <1>4
<1>6. f[1] = <<>> \o x
  BY <1>2, <1>3, <1>4, <1>5
<1>. QED  BY <1>1, <1>2, <1>3, <1>6, NothingJoins DEF Texts

LEMMA FlatJoin ==
    ASSUME NEW s \in Seq(Texts), NEW t \in Seq(Texts)
    PROVE  FlattenSeq(s \o t) = FlattenSeq(s) \o FlattenSeq(t)
<1>1. PICK m \in Nat, n \in Nat : m = Len(s) /\ n = Len(t)
  OBVIOUS
<1>2. /\ s \o t \in Seq(Texts) /\ Len(s \o t) = m + n
      /\ \A i \in 1..m : (s \o t)[i] = s[i]
      /\ \A i \in 1..n : (s \o t)[m + i] = t[i]
  BY <1>1, JoinIs
<1>3. PICK f \in [Nat -> Texts] : /\ f[0] = <<>> /\ FlattenSeq(s) = f[Len(s)]
                                  /\ \A i \in 1..Len(s) : f[i] = f[i - 1] \o s[i]
  BY FlatIs
<1>4. PICK g \in [Nat -> Texts] : /\ g[0] = <<>> /\ FlattenSeq(t) = g[Len(t)]
                                  /\ \A i \in 1..Len(t) : g[i] = g[i - 1] \o t[i]
  BY FlatIs
<1>5. PICK h \in [Nat -> Texts] : /\ h[0] = <<>> /\ FlattenSeq(s \o t) = h[Len(s \o t)]
                                  /\ \A i \in 1..Len(s \o t) : h[i] = h[i - 1] \o (s \o t)[i]
  BY <1>2, FlatIs
<1>6. h[m] = f[m]
  <2>. DEFINE Bad == {i \in 0..m : h[i] # f[i]}
  <2>1. ASSUME Bad # {} PROVE FALSE
    <3>1. PICK i \in Bad : \A k \in Bad : ~(k < i)
      <4>1. Bad \subseteq Nat
        OBVIOUS
      <4>. HIDE DEF Bad
      <4>. QED  BY <2>1, <4>1, LeastOf
    <3>2. i # 0
      BY <1>3, <1>5, <3>1
    <3>3. i \in 1..m /\ i \in 1..(m + n) /\ i - 1 \in 0..m /\ i - 1 < i
      BY <3>1, <3>2
    <3>4. h[i - 1] = f[i - 1]
      BY <3>1, <3>3
    <3>5. h[i] = h[i - 1] \o (s \o t)[i] /\ f[i] = f[i - 1] \o s[i] /\ (s \o t)[i] = s[i]
      BY <1>1, <1>2, <1>3, <1>5, <3>3
    <3>. QED  BY <3>1, <3>4, <3>5
  <2>2. m \in 0..m
    OBVIOUS
  <2>. QED  BY <2>1, <2>2
<1>7. h[m + n] = f[m] \o g[n]
  <2>. DEFINE Bad == {i \in 0..n : h[m + i] # f[m] \o g[i]}
  <2>1. ASSUME Bad # {} PROVE FALSE
    <3>1. PICK i \in Bad : \A k \in Bad : ~(k < i)
      <4>1. Bad \subseteq Nat
        OBVIOUS
      <4>. HIDE DEF Bad
      <4>. QED  BY <2>1, <4>1, LeastOf
    <3>2. i # 0
      <4>1. f[m] \in Texts
        OBVIOUS
      <4>2. h[m + 0] = f[m] \o g[0]
        BY <1>4, <1>6, <4>1, NothingJoins DEF Texts
      <4>. QED  BY <3>1, <4>2
    <3>3. /\ i \in 1..n /\ m + i \in 1..(m + n) /\ i - 1 \in 0..n /\ i - 1 < i
          /\ i \in Nat /\ (m + i) - 1 = m + (i - 1)
      BY <3>1, <3>2
    <3>4. h[m + (i - 1)] = f[m] \o g[i - 1]
      BY <3>1, <3>3
    <3>5. h[m + i] = h[(m + i) - 1] \o (s \o t)[m + i]
      BY <1>2, <1>5, <3>3
    <3>6. g[i] = g[i - 1] \o t[i] /\ (s \o t)[m + i] = t[i]
      BY <1>1, <1>2, <1>4, <3>3
    <3>7. f[m] \in Texts /\ g[i - 1] \in Texts /\ t[i] \in Texts
      BY <1>1, <3>3
    <3>8. Associates(f[m], g[i - 1], t[i])
      BY <3>7, JoinsAssociate DEF Texts
    <3>9. h[m + i] = (f[m] \o g[i - 1]) \o t[i]
      BY <3>3, <3>4, <3>5, <3>6
    <3>10. h[m + i] = f[m] \o g[i]
      BY <3>6, <3>8, <3>9 DEF Associates
    <3>. QED  BY <3>1, <3>10
  <2>2. n \in 0..n
    OBVIOUS
  <2>. QED  BY <2>1, <2>2
<1>. QED  BY <1>1, <1>2, <1>3, <1>4, <1>5, <1>6, <1>7

\* Texts of one length.
LEMMA FlatLength ==
    ASSUME NEW s \in Seq(Texts), NEW w \in Nat, \A i \in 1..Len(s) : Len(s[i]) = w
    PROVE  Len(FlattenSeq(s)) = Len(s) * w
<1>1. PICK f \in [Nat -> Texts] : /\ f[0] = <<>> /\ FlattenSeq(s) = f[Len(s)]
                                  /\ \A i \in 1..Len(s) : f[i] = f[i - 1] \o s[i]
  BY FlatIs
<1>2. PICK n \in Nat : n = Len(s)
  OBVIOUS
<1>. DEFINE Bad == {i \in 0..n : Len(f[i]) # i * w}
<1>3. ASSUME Bad # {} PROVE FALSE
  <2>1. PICK i \in Bad : \A k \in Bad : ~(k < i)
    <3>1. Bad \subseteq Nat
      OBVIOUS
    <3>. HIDE DEF Bad
    <3>. QED  BY <1>3, <3>1, LeastOf
  <2>2. i # 0
    <3>1. 0 * w = 0 /\ Len(<<>>) = 0
      OBVIOUS
    <3>. QED  BY <1>1, <2>1, <3>1
  <2>3. i \in 1..n /\ i - 1 \in 0..n /\ i - 1 < i /\ i \in Nat /\ i - 1 \in Nat
    BY <2>1, <2>2
  <2>4. Len(f[i - 1]) = (i - 1) * w
    BY <2>1, <2>3
  <2>5. f[i] = f[i - 1] \o s[i] /\ Len(s[i]) = w
    BY <1>1, <1>2, <2>3
  <2>5a. f[i - 1] \in Seq(ByteRange) /\ s[i] \in Seq(ByteRange)
    <3>1. f[i - 1] \in Texts
      BY <2>3
    <3>2. s[i] \in Texts
      BY <1>2, <2>3
    <3>. QED  BY <3>1, <3>2 DEF Texts
  <2>5b. Len(f[i - 1] \o s[i]) = Len(f[i - 1]) + Len(s[i])
    BY <2>5a, JoinIs
  <2>6. Len(f[i]) = (i - 1) * w + w
    BY <2>4, <2>5, <2>5b
  <2>7. (i - 1) * w + w = i * w
    BY <2>3
  <2>. QED  BY <2>1, <2>6, <2>7
<1>4. n \in 0..n
  OBVIOUS
<1>. QED  BY <1>1, <1>2, <1>3, <1>4

-----------------------------------------------------------------------------
(* What is read where a text begins. *)

\* The text x begins behind the first `at` bytes of c, which may end before x does.
Starts(c, at, x) ==
    at \in Nat /\ at <= Len(c) /\ \A j \in 1..Len(x) : at + j <= Len(c) => c[at + j] = x[j]

LEMMA StartsBoth ==
    ASSUME NEW c \in Texts, NEW at, NEW x \in Texts, NEW y \in Texts, Starts(c, at, x \o y)
    PROVE  Starts(c, at, x) /\ (at + Len(x) <= Len(c) => Starts(c, at + Len(x), y))
<1>1. PICK m \in Nat, n \in Nat : m = Len(x) /\ n = Len(y)
  BY DEF Texts
<1>2. Len(x \o y) = m + n /\ (\A i \in 1..m : (x \o y)[i] = x[i]) /\ \A i \in 1..n : (x \o y)[m + i] = y[i]
  BY <1>1, JoinIs DEF Texts
<1>3. at \in Nat /\ at <= Len(c) /\ \A j \in 1..(m + n) : at + j <= Len(c) => c[at + j] = (x \o y)[j]
  BY <1>2 DEF Starts
<1>4. ASSUME NEW j \in 1..m, at + j <= Len(c) PROVE c[at + j] = x[j]
  BY <1>2, <1>3, <1>4
<1>5. ASSUME NEW j \in 1..n, (at + m) + j <= Len(c) PROVE c[(at + m) + j] = y[j]
  <2>1. m + j \in 1..(m + n) /\ at + (m + j) = (at + m) + j
    BY <1>3
  <2>. QED  BY <1>2, <1>3, <1>5, <2>1
<1>6. Starts(c, at, x)
  BY <1>1, <1>3, <1>4 DEF Starts
<1>7. ASSUME at + m <= Len(c) PROVE Starts(c, at + m, y)
  <2>1. at + m \in Nat
    BY <1>3
  <2>. QED  BY <1>1, <1>5, <1>7, <2>1 DEF Starts
<1>. QED  BY <1>1, <1>6, <1>7

LEMMA PartFound ==
    ASSUME NEW c \in Texts, NEW at, NEW x \in Texts, Starts(c, at, x), at + Len(x) <= Len(c)
    PROVE  Part(c, at, at + Len(x)) = x
<1>1. PICK n \in Nat : n = Len(x)
  BY DEF Texts
<1>2. at \in Nat /\ at + n <= Len(c) /\ \A j \in 1..n : at + j <= Len(c) => c[at + j] = x[j]
  BY <1>1 DEF Starts
<1>3. Len(c) \in Nat
  BY DEF Texts
<1>4. Part(c, at, at + n) = SubSeq(c, at + 1, at + n)
  BY <1>2, <1>3 DEF Part
<1>5. /\ SubSeq(c, at + 1, at + n) \in Texts /\ Len(SubSeq(c, at + 1, at + n)) = n
      /\ \A i \in 1..n : SubSeq(c, at + 1, at + n)[i] = c[at + i]
  BY <1>2, PartIs DEF Texts
<1>6. \A i \in 1..n : SubSeq(c, at + 1, at + n)[i] = x[i]
  <2>. TAKE i \in 1..n
  <2>1. at + i <= Len(c)
    BY <1>2, <1>3
  <2>. QED  BY <1>2, <1>5, <2>1
<1>. QED  BY <1>1, <1>4, <1>5, <1>6, SeqEqual DEF Texts

IsArray(a) ==
    /\ a.content \in Texts /\ a.r \in Nat /\ a.w \in Nat
    /\ a = [content |-> a.content, r |-> a.r, w |-> a.w]

LEMMA MovedIs ==
    ASSUME NEW a, IsArray(a), NEW n \in Nat
    PROVE  IsArray(Moved(a, n)) /\ Moved(a, n).content = a.content /\ Moved(a, n).r = a.r + n
<1>1. a.r + n \in Nat
  BY DEF IsArray
<1>2. Moved(a, n) = [content |-> a.content, r |-> a.r + n, w |-> a.w]
  BY DEF IsArray, Moved
<1>. QED  BY <1>1, <1>2 DEF IsArray

LEMMA MovedTwice ==
    ASSUME NEW a, IsArray(a), NEW m \in Nat, NEW n \in Nat
    PROVE  Moved(Moved(a, m), n) = Moved(a, m + n)
<1>1. (a.r + m) + n = a.r + (m + n)
  BY DEF IsArray
<1>2. Moved(a, m) = [content |-> a.content, r |-> a.r + m, w |-> a.w]
  BY DEF IsArray, Moved
<1>3. Moved(a, m + n) = [content |-> a.content, r |-> a.r + (m + n), w |-> a.w]
  BY DEF IsArray, Moved
<1>4. Moved(Moved(a, m), n) = [content |-> a.content, r |-> (a.r + m) + n, w |-> a.w]
  <2>1. PICK b : b = Moved(a, m)
    OBVIOUS
  <2>2. b = [content |-> a.content, r |-> a.r + m, w |-> a.w]
    BY <1>2, <2>1
  <2>3. Moved(b, n) = [content |-> a.content, r |-> (a.r + m) + n, w |-> a.w]
    BY <2>2 DEF Moved
  <2>. QED  BY <2>1, <2>3
<1>. QED  BY <1>1, <1>3, <1>4

\* What a read of x, which means value, has to return.
IsReadOf(a, x, value, read) ==
    IF a.r + Len(x) <= Len(a.content) THEN read = Read(value, Moved(a, Len(x)))
    ELSE read.value = OutOfRange

LEMMA ReadBytesIs ==
    ASSUME NEW a, IsArray(a), NEW x \in Texts, Starts(a.content, a.r, x)
    PROVE  IsReadOf(a, x, x, ReadBytes(a, Len(x)))
<1>1. ASSUME a.r + Len(x) <= Len(a.content) PROVE ReadBytes(a, Len(x)) = Read(x, Moved(a, Len(x)))
  <2>1. Part(a.content, a.r, a.r + Len(x)) = x
    BY <1>1, PartFound DEF IsArray
  <2>. QED  BY <1>1, <2>1 DEF ReadBytes, Available, Next0
<1>2. ASSUME ~(a.r + Len(x) <= Len(a.content)) PROVE ReadBytes(a, Len(x)).value = OutOfRange
  BY <1>2 DEF ReadBytes, Available, Read
<1>. QED  BY <1>1, <1>2 DEF IsReadOf

LEMMA WordIs ==
    ASSUME NEW n, IsWord(n)
    PROVE  n \in Nat /\ Word(n) \in Texts /\ Len(Word(n)) = WordSize /\ Number(Word(n)) = n
<1>1. WordSize \in Nat /\ n \in Nat /\ Above(n, WordSize) = 0
  BY BytesAssumption DEF BytesAssumption, IsWord
<1>. QED  BY <1>1, NativeIs, NumberOfNative DEF Word

LEMMA SizeIs == WordSize \in Nat /\ WordSize > 0
BY BytesAssumption DEF BytesAssumption

LEMMA ReadNumberIs ==
    ASSUME NEW a, IsArray(a), NEW n, IsWord(n), Starts(a.content, a.r, Word(n))
    PROVE  IsReadOf(a, Word(n), <<n>>, ReadNumber(a))
<1>1. Word(n) \in Texts /\ Len(Word(n)) = WordSize /\ Number(Word(n)) = n
  BY WordIs
<1>2. ASSUME a.r + WordSize <= Len(a.content) PROVE ReadNumber(a) = Read(<<n>>, Moved(a, WordSize))
  <2>1. Part(a.content, a.r, a.r + WordSize) = Word(n)
    BY <1>1, <1>2, PartFound DEF IsArray
  <2>. QED  BY <1>1, <1>2, <2>1 DEF ReadNumber, ReadNative, Available, Next0
<1>3. ASSUME ~(a.r + WordSize <= Len(a.content)) PROVE ReadNumber(a).value = OutOfRange
  BY <1>3 DEF ReadNumber, ReadNative, Available, Read
<1>. QED  BY <1>1, <1>2, <1>3 DEF IsReadOf

\* A sequence is what is before an element, the element, and what is behind.
Before(s, i) == SubSeq(s, 1, i - 1)
Behind(s, i) == SubSeq(s, i + 1, Len(s))
Split(S, s, i, b, e, d) ==
    /\ b \in Seq(S) /\ Len(b) = i - 1 /\ \A k \in 1..(i - 1) : b[k] = s[k]
    /\ d \in Seq(S) /\ Len(d) = Len(s) - i
    /\ e = <<s[i]>> /\ s[i] \in S /\ e \in Seq(S)
    /\ s = (b \o e) \o d
LEMMA Splits ==
    ASSUME NEW S, NEW s \in Seq(S), NEW i \in 1..Len(s)
    PROVE  Split(S, s, i, Before(s, i), <<s[i]>>, Behind(s, i))
<1>1. PICK n \in Nat : n = Len(s)
  OBVIOUS
<1>2. i \in 1..n /\ i - 1 \in Nat /\ i \in Nat /\ n - i \in Nat /\ i + (n - i) = n /\ 0 + (i - 1) = i - 1
  BY <1>1
<1>3. /\ SubSeq(s, 0 + 1, 0 + (i - 1)) \in Seq(S) /\ Len(SubSeq(s, 0 + 1, 0 + (i - 1))) = i - 1
      /\ \A k \in 1..(i - 1) : SubSeq(s, 0 + 1, 0 + (i - 1))[k] = s[0 + k]
  BY <1>1, <1>2, PartIs
<1>4. Before(s, i) \in Seq(S) /\ Len(Before(s, i)) = i - 1 /\ \A k \in 1..(i - 1) : Before(s, i)[k] = s[k]
  <2>1. \A k \in 1..(i - 1) : 0 + k = k
    OBVIOUS
  <2>2. SubSeq(s, 0 + 1, 0 + (i - 1)) = Before(s, i)
    BY <1>2 DEF Before
  <2>. QED  BY <1>3, <2>1, <2>2
<1>5. /\ SubSeq(s, i + 1, i + (n - i)) \in Seq(S) /\ Len(SubSeq(s, i + 1, i + (n - i))) = n - i
      /\ \A k \in 1..(n - i) : SubSeq(s, i + 1, i + (n - i))[k] = s[i + k]
  BY <1>1, <1>2, PartIs
<1>6. Behind(s, i) \in Seq(S) /\ Len(Behind(s, i)) = n - i /\ \A k \in 1..(n - i) : Behind(s, i)[k] = s[i + k]
  BY <1>1, <1>2, <1>5 DEF Behind
<1>7. s[i] \in S /\ <<s[i]>> \in Seq(S)
  OBVIOUS
<1>8. PICK b, e, d : b = Before(s, i) /\ e = <<s[i]>> /\ d = Behind(s, i)
  OBVIOUS
<1>9. /\ b \in Seq(S) /\ Len(b) = i - 1 /\ \A k \in 1..(i - 1) : b[k] = s[k]
      /\ d \in Seq(S) /\ Len(d) = n - i /\ \A k \in 1..(n - i) : d[k] = s[i + k]
      /\ e \in Seq(S) /\ Len(e) = 1 /\ e[1] = s[i]
  BY <1>4, <1>6, <1>7, <1>8
<1>10. /\ b \o e \in Seq(S) /\ Len(b \o e) = i
       /\ (\A k \in 1..(i - 1) : (b \o e)[k] = s[k]) /\ (b \o e)[i] = s[i]
  <2>1. Joined(S, b, e, b \o e)
    BY <1>9, Joins
  <2>2. (i - 1) + 1 = i /\ 1 \in 1..1
    BY <1>2
  <2>3. Len(b) = i - 1 /\ Len(e) = 1 /\ e[1] = s[i] /\ \A k \in 1..(i - 1) : b[k] = s[k]
    BY <1>9
  <2>4. Len(b \o e) = i /\ (b \o e)[i] = e[1] /\ \A k \in 1..(i - 1) : (b \o e)[k] = b[k]
    BY <2>1, <2>2, <2>3 DEF Joined
  <2>. QED  BY <2>1, <2>3, <2>4 DEF Joined
<1>11. PICK h : h = b \o e
  OBVIOUS
<1>12. /\ h \o d \in Seq(S) /\ Len(h \o d) = i + (n - i)
       /\ \A k \in 1..i : (h \o d)[k] = h[k]
       /\ \A k \in 1..(n - i) : (h \o d)[i + k] = d[k]
  <2>1. Joined(S, h, d, h \o d)
    BY <1>9, <1>10, <1>11, Joins
  <2>. QED  BY <1>9, <1>10, <1>11, <2>1 DEF Joined
<1>13. ASSUME NEW k \in 1..n PROVE (h \o d)[k] = s[k]
  <2>1. CASE k < i
    BY <1>2, <1>10, <1>11, <1>12, <2>1
  <2>2. CASE k = i
    BY <1>2, <1>10, <1>11, <1>12, <2>2
  <2>3. CASE k > i
    <3>1. k - i \in 1..(n - i) /\ i + (k - i) = k
      BY <1>2, <2>3
    <3>2. (h \o d)[i + (k - i)] = d[k - i]
      BY <1>12, <3>1
    <3>3. d[k - i] = s[i + (k - i)]
      BY <1>9, <3>1
    <3>. QED  BY <3>1, <3>2, <3>3
  <2>4. k < i \/ k = i \/ k > i
    BY <1>2
  <2>. QED  BY <2>1, <2>2, <2>3, <2>4
<1>14. h \o d = s
  BY <1>1, <1>2, <1>12, <1>13, SeqEqual
<1>. QED  BY <1>1, <1>4, <1>6, <1>7, <1>8, <1>11, <1>14 DEF Split

LEMMA FlatSplit ==
    ASSUME NEW s \in Seq(Texts), NEW i \in 1..Len(s)
    PROVE  /\ FlattenSeq(s) = (FlattenSeq(Before(s, i)) \o s[i]) \o FlattenSeq(Behind(s, i))
           /\ FlattenSeq(Before(s, i)) \in Texts /\ s[i] \in Texts /\ FlattenSeq(Behind(s, i)) \in Texts
<1>1. PICK b, e, d : b = Before(s, i) /\ e = <<s[i]>> /\ d = Behind(s, i)
  OBVIOUS
<1>2. b \in Seq(Texts) /\ e \in Seq(Texts) /\ d \in Seq(Texts) /\ s = (b \o e) \o d /\ s[i] \in Texts
  <2>1. Split(Texts, s, i, b, e, d)
    BY <1>1, Splits
  <2>. QED  BY <2>1 DEF Split
<1>3. b \o e \in Seq(Texts)
  BY <1>2, JoinIs
<1>4. FlattenSeq(s) = FlattenSeq(b \o e) \o FlattenSeq(d)
  BY <1>2, <1>3, FlatJoin
<1>5. FlattenSeq(b \o e) = FlattenSeq(b) \o FlattenSeq(e)
  BY <1>2, FlatJoin
<1>6. FlattenSeq(e) = s[i]
  BY <1>1, <1>2, FlatOne
<1>. QED  BY <1>1, <1>2, <1>4, <1>5, <1>6, FlatType

\* In a join the middle begins where the front ends.
LEMMA MiddleStarts ==
    ASSUME NEW f \in Texts, NEW x \in Texts, NEW b \in Texts
    PROVE  /\ (f \o x) \o b \in Texts /\ Starts((f \o x) \o b, Len(f), x)
           /\ Len((f \o x) \o b) = Len(f) + Len(x) + Len(b)
           /\ Len(f) \in Nat /\ Len(x) \in Nat /\ Len(b) \in Nat
<1>1. PICK m \in Nat, n \in Nat, l \in Nat : m = Len(f) /\ n = Len(x) /\ l = Len(b)
  BY DEF Texts
<1>2. PICK h : h = f \o x
  OBVIOUS
<1>3. h \in Texts /\ Len(h) = m + n /\ \A i \in 1..n : h[m + i] = x[i]
  BY <1>1, <1>2, JoinIs DEF Texts
<1>4. h \o b \in Texts /\ Len(h \o b) = m + n + l /\ \A i \in 1..(m + n) : (h \o b)[i] = h[i]
  <2>1. Joined(ByteRange, h, b, h \o b)
    BY <1>3, Joins DEF Texts
  <2>. QED  BY <1>1, <1>3, <2>1 DEF Joined, Texts
<1>5. ASSUME NEW j \in 1..n PROVE (h \o b)[m + j] = x[j]
  <2>1. m + j \in 1..(m + n)
    OBVIOUS
  <2>. QED  BY <1>3, <1>4, <2>1
<1>6. Starts(h \o b, m, x)
  BY <1>1, <1>4, <1>5 DEF Starts
<1>. QED  BY <1>1, <1>2, <1>4, <1>6

LEMMA FlatPart ==
    ASSUME NEW s \in Seq(Texts), NEW w \in Nat, \A i \in 1..Len(s) : Len(s[i]) = w, NEW i \in 1..Len(s)
    PROVE  Part(FlattenSeq(s), (i - 1) * w, i * w) = s[i]
<1>1. PICK f \in Texts, x \in Texts, b \in Texts : /\ f = FlattenSeq(Before(s, i)) /\ x = s[i]
                                                  /\ FlattenSeq(s) = (f \o x) \o b
  BY FlatSplit
<1>2. /\ i \in Nat /\ i - 1 \in Nat /\ Before(s, i) \in Seq(Texts) /\ Len(Before(s, i)) = i - 1
      /\ \A k \in 1..(i - 1) : Before(s, i)[k] = s[k]
  <2>1. Split(Texts, s, i, Before(s, i), <<s[i]>>, Behind(s, i))
    BY Splits
  <2>. QED  BY <2>1 DEF Split
<1>3. \A k \in 1..(i - 1) : Len(Before(s, i)[k]) = w
  <2>1. \A k \in 1..(i - 1) : k \in 1..Len(s)
    BY <1>2
  <2>. QED  BY <1>2, <2>1
<1>4. Len(f) = (i - 1) * w
  BY <1>1, <1>2, <1>3, FlatLength
<1>5. Len(x) = w /\ (i - 1) * w + w = i * w
  BY <1>1, <1>2
<1>6. PICK c : c = (f \o x) \o b
  OBVIOUS
<1>7. c \in Texts /\ Starts(c, Len(f), x) /\ Len(f) + Len(x) <= Len(c)
  BY <1>6, MiddleStarts
<1>8. Part(c, Len(f), Len(f) + Len(x)) = x
  BY <1>7, PartFound
<1>. QED  BY <1>1, <1>4, <1>5, <1>6, <1>8

-----------------------------------------------------------------------------
(* An item is read as what was appended. *)

LEMMA ReadNumberType ==
    ASSUME NEW a, IsArray(a)
    PROVE  IF Available(a, WordSize) THEN \E n \in Nat : ReadNumber(a) = Read(<<n>>, Moved(a, WordSize))
           ELSE ReadNumber(a).value = OutOfRange /\ ReadNumber(a).next = a
<1>1. CASE Available(a, WordSize)
  <2>1. a.r \in Nat /\ a.content \in Texts /\ a.r + WordSize <= Len(a.content) /\ WordSize \in Nat
    BY <1>1, SizeIs DEF IsArray, Available
  <2>2. Next0(a, WordSize) \in Texts
    <3>1. Len(a.content) \in Nat
      BY <2>1 DEF Texts
    <3>2. Next0(a, WordSize) = SubSeq(a.content, a.r + 1, a.r + WordSize)
      <4>1. PICK to \in Nat : to = a.r + WordSize
        BY <2>1
      <4>2. (IF to < Len(a.content) THEN to ELSE Len(a.content)) = to
        BY <2>1, <3>1, <4>1
      <4>. QED  BY <4>1, <4>2 DEF Next0, Part
    <3>. QED  BY <2>1, <3>2, PartIs DEF Texts
  <2>3. Number(Next0(a, WordSize)) \in Nat
    BY <2>2, NumberType
  <2>. QED  BY <1>1, <2>3 DEF ReadNumber, ReadNative
<1>2. CASE ~Available(a, WordSize)
  BY <1>2 DEF ReadNumber, ReadNative, Read
<1>. QED  BY <1>1, <1>2

\* Whatever is there, a read leaves the content as it is.
Onwards(a, b) == IsArray(b) /\ b.content = a.content
LEMMA ReadBytesType ==
    ASSUME NEW a, IsArray(a), NEW n \in Nat
    PROVE  Onwards(a, ReadBytes(a, n).next)
<1>1. CASE Available(a, n)
  BY <1>1, MovedIs DEF ReadBytes, Read, Onwards
<1>2. CASE ~Available(a, n)
  BY <1>2 DEF ReadBytes, Read, Onwards
<1>. QED  BY <1>1, <1>2

LEMMA ReadNumberNext ==
    ASSUME NEW a, IsArray(a) PROVE Onwards(a, ReadNumber(a).next)
<1>1. CASE \E n \in Nat : ReadNumber(a) = Read(<<n>>, Moved(a, WordSize))
  <2>1. ReadNumber(a).next = Moved(a, WordSize)
    BY <1>1 DEF Read
  <2>2. IsArray(Moved(a, WordSize)) /\ Moved(a, WordSize).content = a.content
    BY MovedIs, SizeIs
  <2>. QED  BY <2>1, <2>2 DEF Onwards
<1>2. CASE ReadNumber(a).next = a
  BY <1>2 DEF Onwards
<1>. QED  BY <1>1, <1>2, ReadNumberType

LEMMA ReadStringNext ==
    ASSUME NEW a, IsArray(a) PROVE Onwards(a, ReadString(a).next)
<1>1. CASE ~Available(a, WordSize)
  BY <1>1 DEF ReadString, Read, Onwards
<1>2. CASE Available(a, WordSize)
  <2>1. PICK n \in Nat : ReadNumber(a) = Read(<<n>>, Moved(a, WordSize))
    BY <1>2, ReadNumberType
  <2>2. PICK b : b = Moved(a, WordSize) /\ IsArray(b) /\ b.content = a.content
    BY MovedIs, SizeIs
  <2>3. ReadNumber(a).value = <<n>> /\ ReadNumber(a).next = b
    BY <2>1, <2>2 DEF Read
  <2>4. CASE n = 0
    <3>1. ReadString(a) = Read(<<>>, b)
      BY <1>2, <2>3, <2>4 DEF ReadString
    <3>. QED  BY <2>2, <3>1 DEF Read, Onwards
  <2>5. CASE n # 0
    <3>1. <<n>>[1] = n /\ <<n>> # <<0>>
      BY <2>5
    <3>2. ReadString(a) = ReadBytes(b, n)
      BY <1>2, <2>3, <3>1 DEF ReadString
    <3>. QED  BY <2>2, <3>2, ReadBytesType DEF Onwards
  <2>. QED  BY <2>4, <2>5
<1>. QED  BY <1>1, <1>2

LEMMA WrappedType == ASSUME NEW n \in Nat PROVE Wrapped(n) \in Nat
<1>1. Native(n, WordSize) \in Texts
  BY NativeIs, SizeIs
<1>. QED  BY <1>1, NumberType DEF Wrapped, Word

LEMMA ReadContainerNext ==
    ASSUME NEW a, IsArray(a) PROVE Onwards(a, ReadContainer(a).next)
<1>1. CASE ~Available(a, WordSize)
  BY <1>1 DEF ReadContainer, Read, Onwards
<1>2. CASE Available(a, WordSize)
  <2>. DEFINE count == ReadNumber(a)
              size == ReadNumber(count.next)
              all == ReadBytes(size.next, Wrapped(count.value[1] * size.value[1]))
              value == [i \in 1..count.value[1] |-> Number(Part(all.value, (i - 1) * WordSize, i * WordSize))]
  <2>1. ReadContainer(a) = IF count.value = <<0>> THEN Read(<<>>, count.next)
                           ELSE IF size.value = OutOfRange THEN size
                           ELSE IF size.value /= <<WordSize>> THEN Read(Mismatch, size.next)
                           ELSE IF all.value = OutOfRange THEN all
                           ELSE Read(value, all.next)
    BY <1>2 DEF ReadContainer
  <2>2. PICK n \in Nat : count = Read(<<n>>, Moved(a, WordSize))
    BY <1>2, ReadNumberType
  <2>3. count.value[1] = n /\ Onwards(a, count.next)
    <3>1. count.value = <<n>>
      BY <2>2 DEF Read
    <3>2. <<n>>[1] = n
      OBVIOUS
    <3>. QED  BY <3>1, <3>2, ReadNumberNext
  <2>4. Onwards(count.next, size.next)
    <3>1. IsArray(count.next)
      BY <2>3 DEF Onwards
    <3>. HIDE DEF count
    <3>. QED  BY <3>1, ReadNumberNext
  <2>5. CASE size.value = <<WordSize>>
    <3>1. <<WordSize>>[1] = WordSize
      OBVIOUS
    <3>2. Wrapped(count.value[1] * size.value[1]) \in Nat
      <4>1. n * WordSize \in Nat
        BY SizeIs
      <4>2. Wrapped(n * WordSize) \in Nat
        BY <4>1, WrappedType
      <4>. HIDE DEF count, size
      <4>. QED  BY <2>3, <2>5, <3>1, <4>2
    <3>3. Onwards(size.next, all.next)
      <4>. HIDE DEF count, size
      <4>. QED  BY <2>4, <3>2, ReadBytesType DEF Onwards
    <3>. HIDE DEF count, size, all, value
    <3>. QED  BY <2>1, <2>3, <2>4, <3>3 DEF Onwards, Read
  <2>6. CASE size.value # <<WordSize>>
    <3>. HIDE DEF count, size, all, value
    <3>. QED  BY <2>1, <2>3, <2>4, <2>6 DEF Onwards, Read
  <2>. QED  BY <2>5, <2>6
<1>. QED  BY <1>1, <1>2

LEMMA KindsAre ==
    ASSUME NEW item, IsItem(item)
    PROVE  item.kind \in {"number", "string", "raw", "container"}
BY DEF IsItem

LEMMA ReadItemNext ==
    ASSUME NEW a, IsArray(a), NEW item, IsItem(item)
    PROVE  Onwards(a, ReadItem(a, item).next)
<1>1. CASE item.kind = "number"
  BY <1>1, ReadNumberNext DEF ReadItem
<1>2. CASE item.kind = "string"
  BY <1>2, ReadStringNext DEF ReadItem
<1>3. CASE item.kind = "raw"
  <2>1. Len(item.value) \in Nat
    BY <1>3 DEF IsItem
  <2>. QED  BY <1>3, <2>1, ReadBytesType DEF ReadItem
<1>4. CASE item.kind = "container"
  BY <1>4, ReadContainerNext DEF ReadItem
<1>. QED  BY <1>1, <1>2, <1>3, <1>4, KindsAre

\* Of two joined texts: a read that fails in the first fails in both.
LEMMA JoinedLength ==
    ASSUME NEW x \in Texts, NEW y \in Texts
    PROVE  /\ x \o y \in Texts /\ Len(x \o y) = Len(x) + Len(y) /\ Len(x) \in Nat /\ Len(y) \in Nat
BY JoinIs DEF Texts

LEMMA StringRead ==
    ASSUME NEW a, IsArray(a), NEW v \in Texts, IsWord(Len(v)), Starts(a.content, a.r, Word(Len(v)) \o v)
    PROVE  IsReadOf(a, Word(Len(v)) \o v, v, ReadString(a))
<1>1. PICK n : n = Len(v) /\ IsWord(n)
  OBVIOUS
<1>2. n \in Nat /\ Word(n) \in Texts /\ Len(Word(n)) = WordSize
  BY <1>1, WordIs
<1>3. PICK x : x = Word(n) \o v
  OBVIOUS
<1>4. x \in Texts /\ Len(x) = WordSize + n /\ Len(a.content) \in Nat /\ a.r \in Nat /\ a.content \in Texts
  BY <1>1, <1>2, <1>3, JoinedLength DEF IsArray, Texts
<1>5. Starts(a.content, a.r, Word(n)) /\ (a.r + WordSize <= Len(a.content) => Starts(a.content, a.r + WordSize, v))
  BY <1>1, <1>2, <1>4, StartsBoth
<1>6. CASE ~(a.r + WordSize <= Len(a.content))
  <2>1. ReadString(a).value = OutOfRange
    BY <1>6 DEF ReadString, Available, Read
  <2>2. ~(a.r + Len(x) <= Len(a.content))
    BY <1>2, <1>4, <1>6, SizeIs
  <2>. QED  BY <1>1, <1>3, <2>1, <2>2 DEF IsReadOf
<1>7. CASE a.r + WordSize <= Len(a.content)
  <2>1. ReadNumber(a) = Read(<<n>>, Moved(a, WordSize))
    BY <1>1, <1>2, <1>5, <1>7, ReadNumberIs DEF IsReadOf
  <2>2. PICK b : b = Moved(a, WordSize) /\ IsArray(b) /\ b.content = a.content /\ b.r = a.r + WordSize
    BY MovedIs, SizeIs
  <2>3. ReadNumber(a).value = <<n>> /\ ReadNumber(a).next = b
    BY <2>1, <2>2 DEF Read
  <2>4. CASE n = 0
    <3>1. ReadString(a) = Read(<<>>, b)
      BY <1>7, <2>3, <2>4 DEF ReadString, Available
    <3>2. v = <<>>
      BY <1>1, <2>4, EmptySeq DEF Texts
    <3>3. Len(x) = WordSize
      BY <1>4, <2>4, SizeIs
    <3>. QED  BY <1>1, <1>3, <1>7, <2>2, <3>1, <3>2, <3>3 DEF IsReadOf
  <2>5. CASE n # 0
    <3>1. <<n>>[1] = n /\ <<n>> # <<0>>
      BY <2>5
    <3>2. ReadString(a) = ReadBytes(b, n)
      BY <1>7, <2>3, <3>1 DEF ReadString, Available
    <3>3. IsReadOf(b, v, v, ReadBytes(b, n))
      BY <1>1, <1>5, <1>7, <2>2, ReadBytesIs
    <3>4. Moved(b, n) = Moved(a, WordSize + n)
      BY <1>2, <2>2, MovedTwice, SizeIs
    <3>5. b.r + n = a.r + Len(x)
      BY <1>2, <1>4, <2>2, SizeIs
    <3>6. IsReadOf(a, x, v, ReadBytes(b, n))
      BY <1>1, <1>4, <2>2, <3>3, <3>4, <3>5 DEF IsReadOf
    <3>. QED  BY <1>1, <1>3, <3>2, <3>6
  <2>. QED  BY <2>4, <2>5
<1>. QED  BY <1>6, <1>7

\* The words of a container.
Words(v) == [i \in DOMAIN v |-> Word(v[i])]
LEMMA WordsAre ==
    ASSUME NEW v \in Seq(Nat), \A i \in 1..Len(v) : IsWord(v[i])
    PROVE  /\ Words(v) \in Seq(Texts) /\ Len(Words(v)) = Len(v)
           /\ \A i \in 1..Len(v) : Words(v)[i] = Word(v[i]) /\ Len(Words(v)[i]) = WordSize
<1>1. PICK n \in Nat : n = Len(v) /\ DOMAIN v = 1..n
  OBVIOUS
<1>2. \A i \in 1..n : Word(v[i]) \in Texts /\ Len(Word(v[i])) = WordSize
  BY <1>1, WordIs
<1>3. Words(v) \in [1..n -> Texts] /\ \A i \in 1..n : Words(v)[i] = Word(v[i])
  BY <1>1, <1>2 DEF Words
<1>4. Words(v) \in Seq(Texts) /\ Len(Words(v)) = n
  BY <1>3
<1>. QED  BY <1>1, <1>2, <1>3, <1>4

LEMMA WordsBack ==
    ASSUME NEW v \in Seq(Nat), \A i \in 1..Len(v) : IsWord(v[i])
    PROVE  /\ FlattenSeq(Words(v)) \in Texts /\ Len(FlattenSeq(Words(v))) = Len(v) * WordSize
           /\ [i \in 1..Len(v) |-> Number(Part(FlattenSeq(Words(v)), (i - 1) * WordSize, i * WordSize))] = v
<1>1. PICK s : s = Words(v)
  OBVIOUS
<1>2. /\ s \in Seq(Texts) /\ Len(s) = Len(v) /\ \A i \in 1..Len(v) : s[i] = Word(v[i])
      /\ \A i \in 1..Len(s) : Len(s[i]) = WordSize
  BY <1>1, WordsAre
<1>3. FlattenSeq(s) \in Texts /\ Len(FlattenSeq(s)) = Len(s) * WordSize
  BY <1>2, FlatType, FlatLength, SizeIs
<1>4. ASSUME NEW i \in 1..Len(v) PROVE Number(Part(FlattenSeq(s), (i - 1) * WordSize, i * WordSize)) = v[i]
  <2>1. Part(FlattenSeq(s), (i - 1) * WordSize, i * WordSize) = s[i]
    BY <1>2, FlatPart, SizeIs
  <2>. QED  BY <1>2, <2>1, WordIs
<1>5. v = [i \in 1..Len(v) |-> v[i]]
  OBVIOUS
<1>. QED  BY <1>1, <1>2, <1>3, <1>4, <1>5

LEMMA ContainerRead ==
    ASSUME NEW a, IsArray(a), NEW v \in Seq(Nat), \A i \in 1..Len(v) : IsWord(v[i]),
           IsWord(Len(v)), IsWord(WordSize), IsWord(Len(v) * WordSize), NEW x,
           x = Word(Len(v)) \o Word(WordSize) \o FlattenSeq(Words(v)),
           Starts(a.content, a.r, x)
    PROVE  /\ v # <<>> => IsReadOf(a, x, v, ReadContainer(a))
           /\ v = <<>> /\ a.r + Len(x) <= Len(a.content) => ReadContainer(a).value = v
<1>1. PICK n : n = Len(v) /\ IsWord(n)
  OBVIOUS
<1>2. PICK f : f = FlattenSeq(Words(v))
  OBVIOUS
<1>3. /\ f \in Texts /\ Len(f) = n * WordSize /\ n * WordSize \in Nat
      /\ [i \in 1..n |-> Number(Part(f, (i - 1) * WordSize, i * WordSize))] = v
  <2>1. n \in Nat
    BY <1>1
  <2>2. n * WordSize \in Nat
    BY <2>1, SizeIs
  <2>3. /\ FlattenSeq(Words(v)) \in Texts /\ Len(FlattenSeq(Words(v))) = Len(v) * WordSize
        /\ [i \in 1..Len(v) |-> Number(Part(FlattenSeq(Words(v)), (i - 1) * WordSize, i * WordSize))] = v
    BY WordsBack
  <2>. QED  BY <1>1, <1>2, <2>2, <2>3
<1>4. /\ n \in Nat /\ Word(n) \in Texts /\ Len(Word(n)) = WordSize
      /\ Word(WordSize) \in Texts /\ Len(Word(WordSize)) = WordSize
  BY <1>1, WordIs
<1>5. PICK h : h = Word(n) \o Word(WordSize)
  OBVIOUS
<1>6. h \in Texts /\ Len(h) = WordSize + WordSize
  BY <1>4, <1>5, JoinedLength
<1>7. x = h \o f
  BY <1>1, <1>2, <1>5
<1>8. x \in Texts /\ Len(x) = (WordSize + WordSize) + n * WordSize
  BY <1>3, <1>6, <1>7, JoinedLength
<1>9. PICK l \in Nat, r \in Nat, m \in Nat : l = Len(a.content) /\ r = a.r /\ m = n * WordSize
  <2>1. a.r \in Nat /\ a.content \in Texts
    BY DEF IsArray
  <2>2. Len(a.content) \in Nat
    BY <2>1 DEF Texts
  <2>. QED  BY <1>3, <2>1, <2>2
<1>9a. Len(x) = (WordSize + WordSize) + m
  BY <1>8, <1>9
<1>10. a.content \in Texts /\ Starts(a.content, r, h)
       /\ (r + (WordSize + WordSize) <= l => Starts(a.content, r + (WordSize + WordSize), f))
  BY <1>3, <1>6, <1>7, <1>9, StartsBoth DEF IsArray
<1>11. Starts(a.content, r, Word(n)) /\ (r + WordSize <= l => Starts(a.content, r + WordSize, Word(WordSize)))
  BY <1>4, <1>5, <1>9, <1>10, StartsBoth
<1>. DEFINE count == ReadNumber(a)
            size == ReadNumber(count.next)
            all == ReadBytes(size.next, Wrapped(count.value[1] * size.value[1]))
            value == [i \in 1..count.value[1] |-> Number(Part(all.value, (i - 1) * WordSize, i * WordSize))]
<1>12. CASE ~(r + WordSize <= l)
  <2>1. ReadContainer(a).value = OutOfRange
    BY <1>9, <1>12 DEF ReadContainer, Available, Read
  <2>2. ~(r + Len(x) <= l)
    BY <1>9a, <1>12, SizeIs
  <2>. QED  BY <1>9, <2>1, <2>2 DEF IsReadOf
<1>13. CASE r + WordSize <= l
  <2>1. ReadContainer(a) = IF count.value = <<0>> THEN Read(<<>>, count.next)
                           ELSE IF size.value = OutOfRange THEN size
                           ELSE IF size.value /= <<WordSize>> THEN Read(Mismatch, size.next)
                           ELSE IF all.value = OutOfRange THEN all
                           ELSE Read(value, all.next)
    BY <1>9, <1>13 DEF ReadContainer, Available
  <2>2. count = Read(<<n>>, Moved(a, WordSize))
    BY <1>1, <1>4, <1>9, <1>11, <1>13, ReadNumberIs DEF IsReadOf
  <2>3. PICK b : b = Moved(a, WordSize) /\ IsArray(b) /\ b.content = a.content /\ b.r = r + WordSize
    BY <1>9, MovedIs, SizeIs
  <2>4. count.value = <<n>> /\ count.next = b /\ <<n>>[1] = n
    BY <2>2, <2>3 DEF Read
  <2>. HIDE DEF count
  <2>5. CASE n = 0
    <3>1. v = <<>>
      BY <1>1, <2>5, EmptySeq
    <3>2. ReadContainer(a).value = <<>>
      BY <2>1, <2>4, <2>5 DEF Read
    <3>. QED  BY <3>1, <3>2
  <2>6. CASE n # 0
    <3>1. v # <<>> /\ <<n>> # <<0>>
      BY <1>1, <2>6
    <3>2. IsReadOf(b, Word(WordSize), <<WordSize>>, size)
      BY <1>11, <1>13, <2>3, <2>4, ReadNumberIs
    <3>3. CASE ~(r + (WordSize + WordSize) <= l)
      <4>1. size.value = OutOfRange
        BY <1>4, <1>9, <2>3, <3>2, <3>3, SizeIs DEF IsReadOf
      <4>. HIDE DEF size, all, value
      <4>2. ReadContainer(a).value = OutOfRange
        BY <2>1, <2>4, <3>1, <4>1
      <4>3. ~(r + Len(x) <= l)
        BY <1>9a, <3>3, SizeIs
      <4>. QED  BY <1>9, <3>1, <4>2, <4>3 DEF IsReadOf
    <3>4. CASE r + (WordSize + WordSize) <= l
      <4>1. size = Read(<<WordSize>>, Moved(b, WordSize))
        BY <1>4, <1>9, <2>3, <3>2, <3>4, SizeIs DEF IsReadOf
      <4>2. PICK c : /\ c = Moved(b, WordSize) /\ IsArray(c) /\ c.content = a.content
                     /\ c.r = (r + WordSize) + WordSize /\ c = Moved(a, WordSize + WordSize)
        <5>1. IsArray(Moved(b, WordSize)) /\ Moved(b, WordSize).content = b.content
              /\ Moved(b, WordSize).r = b.r + WordSize
          BY <2>3, MovedIs, SizeIs
        <5>2. Moved(b, WordSize) = Moved(a, WordSize + WordSize)
          BY <2>3, MovedTwice, SizeIs
        <5>. QED  BY <2>3, <5>1, <5>2
      <4>3. size.value = <<WordSize>> /\ size.next = c /\ <<WordSize>>[1] = WordSize /\ <<WordSize>> # OutOfRange
        <5>1. <<WordSize>>[1] = WordSize /\ OutOfRange[1] = -1 /\ WordSize # -1
          BY SizeIs DEF OutOfRange
        <5>2. size.value = <<WordSize>> /\ size.next = c
          BY <4>1, <4>2 DEF Read
        <5>. HIDE DEF size
        <5>. QED  BY <5>1, <5>2
      <4>. HIDE DEF size
      <4>4. all = ReadBytes(c, m)
        <5>1. Wrapped(m) = m
          BY <1>1, <1>9, WordIs DEF Wrapped
        <5>. QED  BY <1>9, <2>4, <4>3, <5>1
      <4>5. (r + WordSize) + WordSize = r + (WordSize + WordSize)
        BY SizeIs
      <4>6. IsReadOf(c, f, f, all)
        <5>1. Starts(c.content, c.r, f) /\ Len(f) = m
          BY <1>3, <1>9, <1>10, <3>4, <4>2, <4>5
        <5>. QED  BY <1>3, <4>2, <4>4, <5>1, ReadBytesIs
      <4>7. CASE ~(r + Len(x) <= l)
        <5>1. ~(c.r + Len(f) <= l)
          BY <1>3, <1>9, <1>9a, <4>2, <4>7, SizeIs
        <5>2. all.value = OutOfRange
          BY <1>9, <4>2, <4>6, <5>1 DEF IsReadOf
        <5>. HIDE DEF all, value
        <5>3. ReadContainer(a).value = OutOfRange
          BY <2>1, <2>4, <3>1, <4>3, <5>2
        <5>. QED  BY <1>9, <3>1, <4>7, <5>3 DEF IsReadOf
      <4>8. CASE r + Len(x) <= l
        <5>1. c.r + Len(f) <= l
          BY <1>3, <1>9, <1>9a, <4>2, <4>8, SizeIs
        <5>2. all = Read(f, Moved(c, Len(f)))
          BY <1>9, <4>2, <4>6, <5>1 DEF IsReadOf
        <5>3. all.value = f /\ all.next = Moved(c, Len(f))
          BY <5>2 DEF Read
        <5>4. f # OutOfRange
          <6>1. ASSUME f = OutOfRange PROVE FALSE
            <7>1. 1 \in 1..Len(f) /\ f[1] = -1
              BY <6>1 DEF OutOfRange
            <7>2. f[1] \in ByteRange
              BY <1>3, <7>1 DEF Texts
            <7>. QED  BY <7>1, <7>2 DEF ByteRange
          <6>. QED  BY <6>1
        <5>5. value = v
          <6>. HIDE DEF all
          <6>. QED  BY <1>3, <2>4, <5>3
        <5>6. Moved(c, Len(f)) = Moved(a, Len(x))
          <6>1. PICK k \in Nat : k = WordSize + WordSize
            BY SizeIs
          <6>. QED  BY <1>3, <1>8, <4>2, <6>1, MovedTwice
        <5>. HIDE DEF all, value
        <5>7. ReadContainer(a) = Read(v, Moved(a, Len(x)))
          BY <2>1, <2>4, <3>1, <4>3, <5>3, <5>4, <5>5, <5>6
        <5>. QED  BY <1>9, <3>1, <4>8, <5>7 DEF IsReadOf
      <4>. QED  BY <4>7, <4>8
    <3>. QED  BY <3>3, <3>4
  <2>. QED  BY <2>5, <2>6
<1>. QED  BY <1>12, <1>13

\* An item of each kind.
LEMMA ItemIs ==
    ASSUME NEW item, IsItem(item)
    PROVE  /\ item.kind = "number" => \E n \in Nat : IsWord(n) /\ item.value = <<n>>
           /\ item.kind = "string" => item.value \in Texts /\ IsWord(Len(item.value))
           /\ item.kind = "raw" => item.value \in Texts
           /\ item.kind = "container" =>
                 /\ item.value \in Seq(Nat) /\ IsWord(Len(item.value)) /\ IsWord(WordSize)
                 /\ \A i \in 1..Len(item.value) : IsWord(item.value[i])
<1>1. ASSUME item.kind = "number" PROVE \E n \in Nat : IsWord(n) /\ item.value = <<n>>
  <2>1. /\ item.value \in Seq(Nat) /\ Len(item.value) = 1
        /\ \A i \in 1..Len(item.value) : IsWord(item.value[i])
    BY <1>1 DEF IsItem
  <2>2. PICK n : n = item.value[1]
    OBVIOUS
  <2>3. n \in Nat /\ IsWord(n) /\ item.value = <<n>>
    BY <2>1, <2>2
  <2>. QED  BY <2>3
<1>2. item.kind = "string" => item.value \in Texts /\ IsWord(Len(item.value))
  BY DEF IsItem, Texts
<1>3. item.kind = "raw" => item.value \in Texts
  BY DEF IsItem, Texts
<1>4. item.kind = "container" =>
         /\ item.value \in Seq(Nat) /\ IsWord(Len(item.value)) /\ IsWord(WordSize)
         /\ \A i \in 1..Len(item.value) : IsWord(item.value[i])
  BY DEF IsItem
<1>. QED  BY <1>1, <1>2, <1>3, <1>4

LEMMA EncodedIs ==
    ASSUME NEW item, IsItem(item)
    PROVE  /\ Encoded(item) \in Texts
           /\ item.kind = "container" =>
                 Encoded(item) = Word(Len(item.value)) \o Word(WordSize) \o FlattenSeq(Words(item.value))
<1>1. CASE item.kind = "number"
  <2>1. PICK n \in Nat : IsWord(n) /\ item.value = <<n>>
    BY <1>1, ItemIs
  <2>2. Encoded(item) = Word(n)
    BY <1>1, <2>1 DEF Encoded
  <2>. QED  BY <1>1, <2>1, <2>2, WordIs
<1>2. CASE item.kind = "string"
  <2>1. item.value \in Texts /\ Word(Len(item.value)) \in Texts
    BY <1>2, ItemIs, WordIs
  <2>2. Encoded(item) = Word(Len(item.value)) \o item.value
    BY <1>2 DEF Encoded
  <2>. QED  BY <1>2, <2>1, <2>2, JoinedLength
<1>3. CASE item.kind = "raw"
  <2>1. Encoded(item) = item.value
    BY <1>3 DEF Encoded
  <2>. QED  BY <1>3, <2>1, ItemIs
<1>4. CASE item.kind = "container"
  <2>1. FlattenSeq(Words(item.value)) \in Texts /\ Word(Len(item.value)) \in Texts /\ Word(WordSize) \in Texts
    BY <1>4, ItemIs, WordIs, WordsBack
  <2>2. Encoded(item) = Word(Len(item.value)) \o Word(WordSize) \o FlattenSeq(Words(item.value))
    BY <1>4 DEF Encoded, Words
  <2>3. PICK h : h = Word(Len(item.value)) \o Word(WordSize) /\ h \in Texts
    BY <2>1, JoinedLength
  <2>. QED  BY <2>1, <2>2, <2>3, JoinedLength
<1>. QED  BY <1>1, <1>2, <1>3, <1>4, KindsAre

LEMMA ItemRead ==
    ASSUME NEW a, IsArray(a), NEW item, IsItem(item), Starts(a.content, a.r, Encoded(item)),
           item.kind = "container" => IsWord(Len(item.value) * WordSize)
    PROVE  /\ item # ContainerItem(<<>>) => IsReadOf(a, Encoded(item), item.value, ReadItem(a, item))
           /\ a.r + Len(Encoded(item)) <= Len(a.content) => ReadItem(a, item).value = item.value
<1>1. CASE item.kind = "number"
  <2>1. PICK n \in Nat : IsWord(n) /\ item.value = <<n>>
    BY <1>1, ItemIs
  <2>2. Encoded(item) = Word(n)
    BY <1>1, <2>1 DEF Encoded
  <2>3. ReadItem(a, item) = ReadNumber(a)
    BY <1>1 DEF ReadItem
  <2>4. IsReadOf(a, Encoded(item), item.value, ReadItem(a, item))
    BY <2>1, <2>2, <2>3, ReadNumberIs
  <2>. QED  BY <2>4 DEF IsReadOf, Read
<1>2. CASE item.kind = "string"
  <2>1. item.value \in Texts /\ IsWord(Len(item.value))
    BY <1>2, ItemIs
  <2>2. Encoded(item) = Word(Len(item.value)) \o item.value
    BY <1>2 DEF Encoded
  <2>3. ReadItem(a, item) = ReadString(a)
    BY <1>2 DEF ReadItem
  <2>4. IsReadOf(a, Encoded(item), item.value, ReadItem(a, item))
    BY <2>1, <2>2, <2>3, StringRead
  <2>. QED  BY <2>4 DEF IsReadOf, Read
<1>3. CASE item.kind = "raw"
  <2>1. item.value \in Texts
    BY <1>3, ItemIs
  <2>2. Encoded(item) = item.value
    BY <1>3 DEF Encoded
  <2>3. ReadItem(a, item) = ReadBytes(a, Len(item.value))
    BY <1>3 DEF ReadItem
  <2>4. IsReadOf(a, Encoded(item), item.value, ReadItem(a, item))
    BY <2>1, <2>2, <2>3, ReadBytesIs
  <2>. QED  BY <2>4 DEF IsReadOf, Read
<1>4. CASE item.kind = "container"
  <2>1. PICK v : v = item.value
    OBVIOUS
  <2>2. /\ v \in Seq(Nat) /\ IsWord(Len(v)) /\ IsWord(WordSize) /\ \A i \in 1..Len(v) : IsWord(v[i])
        /\ IsWord(Len(v) * WordSize)
    BY <1>4, <2>1, ItemIs
  <2>3. PICK x : x = Encoded(item) /\ x = Word(Len(v)) \o Word(WordSize) \o FlattenSeq(Words(v))
    BY <1>4, <2>1, EncodedIs
  <2>4. ReadItem(a, item) = ReadContainer(a)
    BY <1>4 DEF ReadItem
  <2>5. /\ v # <<>> => IsReadOf(a, x, v, ReadContainer(a))
        /\ v = <<>> /\ a.r + Len(x) <= Len(a.content) => ReadContainer(a).value = v
    BY <2>2, <2>3, ContainerRead
  <2>6. item # ContainerItem(<<>>) => v # <<>>
    <3>1. item = [kind |-> item.kind, value |-> item.value]
      BY DEF IsItem
    <3>. QED  BY <1>4, <2>1, <3>1 DEF ContainerItem
  <2>7. IsReadOf(a, x, v, ReadContainer(a)) /\ a.r + Len(x) <= Len(a.content) => ReadContainer(a).value = v
    BY DEF IsReadOf, Read
  <2>. QED  BY <2>1, <2>3, <2>4, <2>5, <2>6, <2>7
<1>. QED  BY <1>1, <1>2, <1>3, <1>4, KindsAre

-----------------------------------------------------------------------------
(* The array is its items. *)

Codes(s) == [j \in 1..Len(s) |-> Encoded(s[j])]
Coded(s) == FlattenSeq(Codes(s))

LEMMA ItemsAre == ASSUME NEW item \in Items PROVE IsItem(item)
BY BytesAssumption DEF BytesAssumption

LEMMA CodesAre ==
    ASSUME NEW s \in Seq(Items)
    PROVE  /\ Codes(s) \in Seq(Texts) /\ Len(Codes(s)) = Len(s)
           /\ \A i \in 1..Len(s) : Codes(s)[i] = Encoded(s[i]) /\ s[i] \in Items /\ IsItem(s[i])
           /\ Coded(s) \in Texts
<1>1. PICK n \in Nat : n = Len(s)
  OBVIOUS
<1>2. \A i \in 1..n : s[i] \in Items /\ IsItem(s[i])
  BY <1>1, ItemsAre
<1>3. \A i \in 1..n : Encoded(s[i]) \in Texts
  BY <1>2, EncodedIs
<1>4. Codes(s) \in [1..n -> Texts] /\ \A i \in 1..n : Codes(s)[i] = Encoded(s[i])
  BY <1>1, <1>3 DEF Codes
<1>5. Codes(s) \in Seq(Texts) /\ Len(Codes(s)) = n
  BY <1>4
<1>. QED  BY <1>1, <1>2, <1>4, <1>5, FlatType DEF Coded

LEMMA CodedJoin ==
    ASSUME NEW s \in Seq(Items), NEW t \in Seq(Items)
    PROVE  Coded(s \o t) = Coded(s) \o Coded(t)
<1>1. Joined(Items, s, t, s \o t)
  BY Joins
<1>2. PICK h : h = s \o t
  OBVIOUS
<1>3. h \in Seq(Items)
  BY <1>1, <1>2 DEF Joined
<1>4. PICK b, d, c : b = Codes(s) /\ d = Codes(t) /\ c = Codes(h)
  OBVIOUS
<1>5. /\ b \in Seq(Texts) /\ Len(b) = Len(s) /\ \A i \in 1..Len(s) : b[i] = Encoded(s[i])
      /\ d \in Seq(Texts) /\ Len(d) = Len(t) /\ \A i \in 1..Len(t) : d[i] = Encoded(t[i])
      /\ c \in Seq(Texts) /\ Len(c) = Len(h) /\ \A i \in 1..Len(h) : c[i] = Encoded(h[i])
  BY <1>3, <1>4, CodesAre
<1>6. Joined(Texts, b, d, b \o d)
  BY <1>5, Joins
<1>7. PICK m \in Nat, n \in Nat : m = Len(s) /\ n = Len(t)
  OBVIOUS
<1>8. /\ b \o d \in Seq(Texts) /\ Len(b \o d) = m + n
      /\ (\A i \in 1..m : (b \o d)[i] = b[i]) /\ \A i \in 1..n : (b \o d)[m + i] = d[i]
  BY <1>5, <1>6, <1>7 DEF Joined
<1>9. Len(h) = m + n /\ (\A i \in 1..m : h[i] = s[i]) /\ \A i \in 1..n : h[m + i] = t[i]
  BY <1>1, <1>2, <1>7 DEF Joined
<1>10. ASSUME NEW i \in 1..(m + n) PROVE c[i] = (b \o d)[i]
  <2>1. CASE i <= m
    <3>1. i \in 1..m
      BY <2>1
    <3>. QED  BY <1>5, <1>7, <1>8, <1>9, <3>1
  <2>2. CASE ~(i <= m)
    <3>1. PICK k \in 1..n : i = m + k
      <4>1. i - m \in 1..n /\ i = m + (i - m)
        BY <2>2
      <4>. QED  BY <4>1
    <3>2. c[i] = Encoded(h[i])
      BY <1>5, <1>9
    <3>. QED  BY <1>5, <1>7, <1>8, <1>9, <3>1, <3>2
  <2>. QED  BY <2>1, <2>2
<1>11. c = b \o d
  BY <1>5, <1>8, <1>9, <1>10, SeqEqual
<1>12. FlattenSeq(b \o d) = FlattenSeq(b) \o FlattenSeq(d)
  BY <1>5, FlatJoin
<1>. QED  BY <1>2, <1>4, <1>11, <1>12 DEF Coded

LEMMA CodedOne == ASSUME NEW item \in Items PROVE <<item>> \in Seq(Items) /\ Coded(<<item>>) = Encoded(item)
<1>1. PICK s : s = <<item>>
  OBVIOUS
<1>2. s \in Seq(Items) /\ Len(s) = 1 /\ s[1] = item
  BY <1>1
<1>3. PICK x \in Texts : x = Encoded(item)
  BY ItemsAre, EncodedIs
<1>4. Codes(s) \in Seq(Texts) /\ Len(Codes(s)) = 1 /\ Codes(s)[1] = x
  BY <1>2, <1>3, CodesAre
<1>5. Codes(s) = <<x>>
  BY <1>4
<1>. QED  BY <1>1, <1>2, <1>3, <1>5, FlatOne DEF Coded

\* Both parts of a join are found in it.
LEMMA JoinParts ==
    ASSUME NEW x \in Texts, NEW y \in Texts
    PROVE  Part(x \o y, 0, Len(x)) = x /\ Part(x \o y, Len(x), Len(x \o y)) = y
<1>1. PICK m \in Nat, n \in Nat : m = Len(x) /\ n = Len(y)
  BY DEF Texts
<1>2. PICK z : z = x \o y
  OBVIOUS
<1>3. /\ z \in Texts /\ Len(z) = m + n
      /\ (\A i \in 1..m : z[i] = x[i]) /\ \A i \in 1..n : z[m + i] = y[i]
  BY <1>1, <1>2, JoinIs DEF Texts
<1>4. Starts(z, 0, x)
  <2>1. \A j \in 1..m : 0 + j = j
    OBVIOUS
  <2>. QED  BY <1>1, <1>3, <2>1 DEF Starts
<1>5. Starts(z, m, y)
  BY <1>1, <1>3 DEF Starts
<1>6. Part(z, 0, 0 + Len(x)) = x
  BY <1>1, <1>3, <1>4, PartFound
<1>7. Part(z, m, m + Len(y)) = y
  <2>1. m + Len(y) <= Len(z)
    BY <1>1, <1>3
  <2>. QED  BY <1>3, <1>5, <2>1, PartFound
<1>8. 0 + Len(x) = Len(x) /\ m + Len(y) = Len(z)
  BY <1>1, <1>3
<1>. QED  BY <1>1, <1>2, <1>6, <1>7, <1>8

\* What is in front of an item, the item, and what is behind it.
Held == IsArray(array) /\ items \in Seq(Items) /\ array.content = Coded(items)

LEMMA PlaceIs ==
    ASSUME Held, NEW b \in Seq(Items), NEW i, i = Len(b) + 1, \A k \in 1..Len(b) : b[k] = items[k]
    PROVE  Place(i) = Len(Coded(b))
<1>1. i - 1 = Len(b)
  OBVIOUS
<1>2. [j \in 1..(i - 1) |-> Encoded(items[j])] = Codes(b)
  BY <1>1 DEF Codes
<1>. QED  BY <1>2 DEF Place, Coded

Around3(i, f, x, d) ==
    /\ f \in Texts /\ x \in Texts /\ d \in Texts
    /\ f = Coded(Before(items, i)) /\ x = Encoded(items[i]) /\ d = Coded(Behind(items, i))
    /\ array.content = (f \o x) \o d
    /\ Place(i) = Len(f) /\ Place(i + 1) = Len(f) + Len(x)
LEMMA ItemPlace ==
    ASSUME Held, NEW i \in 1..Len(items)
    PROVE  \E f, x, d : Around3(i, f, x, d)
<1>1. PICK b, e, d : b = Before(items, i) /\ e = <<items[i]>> /\ d = Behind(items, i)
  OBVIOUS
<1>2. Split(Items, items, i, b, e, d)
  BY <1>1, Splits DEF Held
<1>3. /\ b \in Seq(Items) /\ Len(b) = i - 1 /\ \A k \in 1..(i - 1) : b[k] = items[k]
      /\ d \in Seq(Items) /\ e = <<items[i]>> /\ items[i] \in Items /\ e \in Seq(Items)
      /\ items = (b \o e) \o d
  BY <1>2 DEF Split
<1>4. PICK h : h = b \o e
  OBVIOUS
<1>5. Joined(Items, b, e, h)
  BY <1>3, <1>4, Joins
<1>6. Len(e) = 1 /\ e[1] = items[i]
  BY <1>3
<1>7. h \in Seq(Items) /\ Len(h) = i /\ \A k \in 1..i : h[k] = items[k]
  <2>1. h \in Seq(Items) /\ Len(h) = (i - 1) + 1 /\ \A k \in 1..(i - 1) : h[k] = b[k]
    BY <1>3, <1>5, <1>6 DEF Joined
  <2>2. h[(i - 1) + 1] = e[1]
    BY <1>3, <1>5, <1>6 DEF Joined
  <2>3. (i - 1) + 1 = i /\ \A k \in 1..i : k \in 1..(i - 1) \/ k = i
    OBVIOUS
  <2>. QED  BY <1>3, <1>6, <2>1, <2>2, <2>3
<1>8. PICK f, x, g : f = Coded(b) /\ x = Encoded(items[i]) /\ g = Coded(d)
  OBVIOUS
<1>9. f \in Texts /\ x \in Texts /\ g \in Texts
  BY <1>3, <1>8, CodesAre, ItemsAre, EncodedIs
<1>10. Coded(h) = f \o x
  BY <1>3, <1>4, <1>8, CodedJoin, CodedOne
<1>11. Coded(items) = (f \o x) \o g
  <2>1. Coded(h \o d) = Coded(h) \o g
    BY <1>3, <1>7, <1>8, CodedJoin
  <2>. QED  BY <1>3, <1>4, <1>10, <2>1
<1>12. Place(i) = Len(f)
  <2>1. i = Len(b) + 1 /\ \A k \in 1..Len(b) : b[k] = items[k]
    BY <1>3
  <2>. QED  BY <1>3, <1>8, <2>1, PlaceIs
<1>13. Place(i + 1) = Len(f \o x)
  <2>1. i + 1 = Len(h) + 1 /\ \A k \in 1..Len(h) : h[k] = items[k]
    BY <1>7
  <2>. QED  BY <1>7, <1>10, <2>1, PlaceIs
<1>14. Place(i + 1) = Len(f) + Len(x)
  BY <1>9, <1>13, JoinedLength
<1>15. Around3(i, f, x, g)
  BY <1>1, <1>8, <1>9, <1>11, <1>12, <1>14 DEF Around3, Held
<1>. QED  BY <1>15

\* Where an edit cuts the array.
LEMMA ItemParts ==
    ASSUME Held, NEW i \in 1..Len(items), NEW f, NEW x, NEW d, Around3(i, f, x, d)
    PROVE  /\ Part(array.content, 0, Place(i)) = f
           /\ Part(array.content, Place(i), Len(array.content)) = x \o d
           /\ Part(array.content, Place(i) + Len(x), Len(array.content)) = d
<1>1. f \in Texts /\ x \in Texts /\ d \in Texts /\ Place(i) = Len(f) /\ array.content = (f \o x) \o d
  BY DEF Around3
<1>2. f \o x \in Texts /\ x \o d \in Texts /\ Len(f \o x) = Len(f) + Len(x)
  BY <1>1, JoinedLength
<1>3. Associates(f, x, d)
  BY <1>1, JoinsAssociate DEF Texts
<1>4. array.content = f \o (x \o d)
  BY <1>1, <1>3 DEF Associates
<1>5. Part(f \o (x \o d), 0, Len(f)) = f /\ Part(f \o (x \o d), Len(f), Len(f \o (x \o d))) = x \o d
  BY <1>1, <1>2, JoinParts
<1>6. Part((f \o x) \o d, Len(f \o x), Len((f \o x) \o d)) = d
  BY <1>1, <1>2, JoinParts
<1>. QED  BY <1>1, <1>2, <1>4, <1>5, <1>6

\* An edit that leaves the cursor alone.
LEMMA EditHolds ==
    ASSUME IsArray(array), NEW c \in Texts, NEW w \in Nat, NEW s \in Seq(Items), c = Coded(s),
           array' = [content |-> c, r |-> array.r, w |-> w], items' = s
    PROVE  Held'
BY DEF Held, IsArray

LEMMA AppendHolds ==
    ASSUME Held, NEW item \in Items, AppendItem(item)
    PROVE  Held'
<1>1. PICK c \in Texts, e \in Texts : c = array.content /\ c = Coded(items) /\ e = Encoded(item)
  BY ItemsAre, EncodedIs DEF Held, IsArray
<1>2. <<>> \in Texts /\ c \o <<>> = c /\ Len(<<>>) = 0 /\ c \o e \in Texts
  BY <1>1, NothingJoins, JoinedLength DEF Texts
<1>3. Part(c, 0, Len(c)) = c /\ Part(c, Len(c), Len(c)) = <<>>
  <2>1. Part(c \o <<>>, 0, Len(c)) = c /\ Part(c \o <<>>, Len(c), Len(c \o <<>>)) = <<>>
    BY <1>2, JoinParts
  <2>. QED  BY <1>2, <2>1
<1>4. array' = [array EXCEPT !.content = Part(@, 0, Len(c)) \o e \o Part(@, Len(c), Len(@))]
  BY <1>1 DEF AppendItem, Appended, InsertAt0
<1>5. Part(c, 0, Len(c)) \o e \o Part(c, Len(c), Len(c)) = c \o e
  <2>1. (c \o e) \o <<>> = c \o e
    BY <1>2, NothingJoins DEF Texts
  <2>. QED  BY <1>3, <2>1
<1>6. array' = [content |-> c \o e, r |-> array.r, w |-> array.w]
  BY <1>1, <1>4, <1>5 DEF Held, IsArray
<1>6a. IsArray(array) /\ array.w \in Nat
  BY DEF Held, IsArray
<1>7. items' = items \o <<item>> /\ items \in Seq(Items) /\ <<item>> \in Seq(Items)
  BY CodedOne DEF AppendItem, Held
<1>8. items \o <<item>> \in Seq(Items) /\ Coded(items \o <<item>>) = c \o e
  BY <1>1, <1>7, JoinIs, CodedJoin, CodedOne
<1>. QED  BY <1>2, <1>6, <1>6a, <1>7, <1>8, EditHolds

\* The items that follow one another in what an edit makes.
LEMMA CodedThree ==
    ASSUME NEW b \in Seq(Items), NEW item \in Items, NEW d \in Seq(Items)
    PROVE  /\ (b \o <<item>>) \o d \in Seq(Items)
           /\ Coded((b \o <<item>>) \o d) = (Coded(b) \o Encoded(item)) \o Coded(d)
           /\ b \o d \in Seq(Items) /\ Coded(b \o d) = Coded(b) \o Coded(d)
           /\ Coded(b) \in Texts /\ Encoded(item) \in Texts /\ Coded(d) \in Texts
<1>1. PICK e : e = <<item>> /\ e \in Seq(Items) /\ Coded(e) = Encoded(item)
  BY CodedOne
<1>2. PICK h : h = b \o e
  OBVIOUS
<1>3. h \in Seq(Items) /\ Coded(h) = Coded(b) \o Encoded(item)
  BY <1>1, <1>2, JoinIs, CodedJoin
<1>4. h \o d \in Seq(Items) /\ Coded(h \o d) = Coded(h) \o Coded(d)
  BY <1>3, JoinIs, CodedJoin
<1>5. b \o d \in Seq(Items) /\ Coded(b \o d) = Coded(b) \o Coded(d)
  BY JoinIs, CodedJoin
<1>. QED  BY <1>1, <1>2, <1>3, <1>4, <1>5, CodesAre, ItemsAre, EncodedIs

\* A sequence is what is before an element and what begins with it.
LEMMA SplitsAt ==
    ASSUME NEW S, NEW s \in Seq(S), NEW i \in 1..Len(s)
    PROVE  /\ SubSeq(s, i, Len(s)) \in Seq(S) /\ Before(s, i) \in Seq(S)
           /\ s = Before(s, i) \o SubSeq(s, i, Len(s))
<1>1. PICK n \in Nat : n = Len(s)
  OBVIOUS
<1>2. i - 1 \in Nat /\ n - (i - 1) \in Nat /\ (i - 1) + (n - (i - 1)) = n /\ (i - 1) + 1 = i
  BY <1>1
<1>3. PICK d : d = SubSeq(s, i, n)
  OBVIOUS
<1>4. /\ SubSeq(s, (i - 1) + 1, (i - 1) + (n - (i - 1))) \in Seq(S)
      /\ Len(SubSeq(s, (i - 1) + 1, (i - 1) + (n - (i - 1)))) = n - (i - 1)
      /\ \A k \in 1..(n - (i - 1)) : SubSeq(s, (i - 1) + 1, (i - 1) + (n - (i - 1)))[k] = s[(i - 1) + k]
  BY <1>1, <1>2, PartIs
<1>5. d \in Seq(S) /\ Len(d) = n - (i - 1) /\ \A k \in 1..(n - (i - 1)) : d[k] = s[(i - 1) + k]
  BY <1>2, <1>3, <1>4
<1>6. PICK b : b = Before(s, i)
  OBVIOUS
<1>7. b \in Seq(S) /\ Len(b) = i - 1 /\ \A k \in 1..(i - 1) : b[k] = s[k]
  <2>1. Split(S, s, i, b, <<s[i]>>, Behind(s, i))
    BY <1>6, Splits
  <2>. QED  BY <2>1 DEF Split
<1>8. Joined(S, b, d, b \o d)
  BY <1>5, <1>7, Joins
<1>9. /\ b \o d \in Seq(S) /\ Len(b \o d) = n
      /\ (\A k \in 1..(i - 1) : (b \o d)[k] = s[k])
      /\ \A k \in 1..(n - (i - 1)) : (b \o d)[(i - 1) + k] = s[(i - 1) + k]
  BY <1>2, <1>5, <1>7, <1>8 DEF Joined
<1>10. ASSUME NEW k \in 1..n PROVE (b \o d)[k] = s[k]
  <2>1. CASE k <= i - 1
    <3>1. k \in 1..(i - 1)
      BY <1>2, <2>1
    <3>. QED  BY <1>9, <3>1
  <2>2. CASE ~(k <= i - 1)
    <3>1. k - (i - 1) \in 1..(n - (i - 1)) /\ (i - 1) + (k - (i - 1)) = k
      BY <1>2, <2>2
    <3>. QED  BY <1>9, <3>1
  <2>. QED  BY <2>1, <2>2
<1>11. b \o d = s
  BY <1>1, <1>9, <1>10, SeqEqual
<1>. QED  BY <1>1, <1>3, <1>5, <1>6, <1>7, <1>11

LEMMA InsertHolds ==
    ASSUME Held, NEW i \in 1..Len(items), NEW item \in Items, InsertItem(i, item)
    PROVE  Held'
<1>1. PICK f, x, d : Around3(i, f, x, d)
  BY ItemPlace
<1>2. PICK c, p, e, b, t : /\ c = array.content /\ p = Place(i) /\ e = Encoded(item)
                           /\ b = Before(items, i) /\ t = SubSeq(items, i, Len(items))
  OBVIOUS
<1>3. b \in Seq(Items) /\ t \in Seq(Items) /\ items = b \o t
  BY <1>2, SplitsAt DEF Held
<1>4. f = Coded(b) /\ p = Len(f) /\ c = Coded(b) \o Coded(t) /\ Coded(t) \in Texts /\ f \in Texts
  BY <1>1, <1>2, <1>3, CodedJoin, CodesAre DEF Around3, Held
<1>5. Part(c, 0, p) = f /\ Part(c, p, Len(c)) = Coded(t)
  BY <1>4, JoinParts
<1>6. array' = InsertAt0([array EXCEPT !.w = p], p, e)
  BY <1>2 DEF InsertItem
<1>7. array' = [content |-> (f \o e) \o Coded(t), r |-> array.r, w |-> p]
  BY <1>2, <1>5, <1>6 DEF InsertAt0, Held, IsArray
<1>8. items' = (b \o <<item>>) \o t
  BY <1>2 DEF InsertItem, InsertAt, Before
<1>9. items' \in Seq(Items) /\ (f \o e) \o Coded(t) = Coded(items')
  BY <1>2, <1>3, <1>4, <1>8, CodedThree
<1>10. (f \o e) \o Coded(t) \in Texts
  BY <1>9, CodesAre
<1>11. IsArray(array) /\ p \in Nat
  BY <1>4 DEF Held, Texts
<1>. QED  BY <1>7, <1>8, <1>9, <1>10, <1>11, EditHolds

LEMMA EraseHolds ==
    ASSUME Held, NEW i \in 1..Len(items), EraseItem(i)
    PROVE  Held'
<1>1. PICK f, x, d : Around3(i, f, x, d)
  BY ItemPlace
<1>2. PICK c, p, b, t : c = array.content /\ p = Place(i) /\ b = Before(items, i) /\ t = Behind(items, i)
  OBVIOUS
<1>3. Split(Items, items, i, b, <<items[i]>>, t)
  BY <1>2, Splits DEF Held
<1>4. b \in Seq(Items) /\ t \in Seq(Items) /\ items[i] \in Items
  BY <1>3 DEF Split
<1>5. Part(c, 0, p) = f /\ Part(c, p + Len(x), Len(c)) = d
  BY <1>1, <1>2, ItemParts
<1>6. array' = Erased(array, p, Len(x))
  BY <1>1, <1>2 DEF EraseItem, Around3
<1>7. array' = [content |-> f \o d, r |-> array.r, w |-> array.w]
  BY <1>2, <1>5, <1>6 DEF Erased, Held, IsArray
<1>8. items' = b \o t
  BY <1>2 DEF EraseItem, RemoveAt, Before, Behind
<1>9. b \o t \in Seq(Items) /\ f \o d = Coded(b \o t)
  BY <1>1, <1>2, <1>4, CodedThree DEF Around3
<1>10. f \o d \in Texts
  BY <1>9, CodesAre
<1>11. IsArray(array) /\ array.w \in Nat
  BY DEF Held, IsArray
<1>. QED  BY <1>7, <1>8, <1>9, <1>10, <1>11, EditHolds

LEMMA ReplaceHolds ==
    ASSUME Held, NEW i \in 1..Len(items), NEW item \in Items, ReplaceItem(i, item)
    PROVE  Held'
<1>1. PICK f, x, d : Around3(i, f, x, d)
  BY ItemPlace
<1>2. PICK c, p, e, b, t : /\ c = array.content /\ p = Place(i) /\ e = Encoded(item)
                           /\ b = Before(items, i) /\ t = Behind(items, i)
  OBVIOUS
<1>3. Split(Items, items, i, b, <<items[i]>>, t)
  BY <1>2, Splits DEF Held
<1>4. b \in Seq(Items) /\ Len(b) = i - 1 /\ t \in Seq(Items) /\ items = (b \o <<items[i]>>) \o t
  BY <1>3 DEF Split
<1>5. Part(c, 0, p) = f /\ Part(c, p + Len(x), Len(c)) = d
  BY <1>1, <1>2, ItemParts
<1>6. array' = Replaced0(array, p, Len(x), e)
  BY <1>1, <1>2 DEF ReplaceItem, Around3
<1>7. array' = [content |-> (f \o e) \o d, r |-> array.r, w |-> array.w]
  BY <1>2, <1>5, <1>6 DEF Replaced0, Held, IsArray
<1>8. PICK s : s = [items EXCEPT ![i] = item]
  OBVIOUS
<1>9. items' = s
  BY <1>8 DEF ReplaceItem, ReplaceAt
<1>10. s \in Seq(Items) /\ Len(s) = Len(items) /\ s[i] = item /\ \A k \in 1..Len(items) : k # i => s[k] = items[k]
  BY <1>8 DEF Held
<1>11. Before(s, i) = b
  <2>1. Split(Items, s, i, Before(s, i), <<s[i]>>, Behind(s, i))
    BY <1>10, Splits
  <2>2. Before(s, i) \in Seq(Items) /\ Len(Before(s, i)) = i - 1 /\ \A k \in 1..(i - 1) : Before(s, i)[k] = s[k]
    BY <2>1 DEF Split
  <2>3. \A k \in 1..(i - 1) : b[k] = items[k]
    BY <1>3 DEF Split
  <2>4. \A k \in 1..(i - 1) : k \in 1..Len(items) /\ k # i
    BY DEF Held
  <2>5. \A k \in 1..(i - 1) : Before(s, i)[k] = b[k]
    BY <1>10, <2>2, <2>3, <2>4
  <2>. QED  BY <1>4, <2>2, <2>5, SeqEqual
<1>12. Behind(s, i) = t
  <2>1. PICK n \in Nat : n = Len(items) /\ n = Len(s)
    BY <1>10 DEF Held
  <2>2. i \in Nat /\ n - i \in Nat /\ i + (n - i) = n
    BY <2>1
  <2>3. /\ SubSeq(s, i + 1, i + (n - i)) \in Seq(Items) /\ Len(SubSeq(s, i + 1, i + (n - i))) = n - i
        /\ \A k \in 1..(n - i) : SubSeq(s, i + 1, i + (n - i))[k] = s[i + k]
    BY <1>10, <2>1, <2>2, PartIs
  <2>4. /\ SubSeq(items, i + 1, i + (n - i)) \in Seq(Items) /\ Len(SubSeq(items, i + 1, i + (n - i))) = n - i
        /\ \A k \in 1..(n - i) : SubSeq(items, i + 1, i + (n - i))[k] = items[i + k]
    <3>1. items \in Seq(Items)
      BY DEF Held
    <3>2. i + (n - i) <= Len(items)
      BY <2>1, <2>2
    <3>. QED  BY ONLY <2>2, <3>1, <3>2, PartIs
  <2>5. \A k \in 1..(n - i) : i + k \in 1..Len(items) /\ i + k # i
    BY <2>1, <2>2
  <2>6. \A k \in 1..(n - i) : s[i + k] = items[i + k]
    BY <1>10, <2>5
  <2>7. SubSeq(s, i + 1, i + (n - i)) = SubSeq(items, i + 1, i + (n - i))
    BY <2>3, <2>4, <2>6, SeqEqual
  <2>. QED  BY <1>2, <2>1, <2>2, <2>7 DEF Behind
<1>13. s = (b \o <<item>>) \o t
  <2>1. Split(Items, s, i, Before(s, i), <<s[i]>>, Behind(s, i))
    BY <1>10, Splits
  <2>. QED  BY <1>10, <1>11, <1>12, <2>1 DEF Split
<1>14. (f \o e) \o d = Coded(s)
  BY <1>1, <1>2, <1>4, <1>13, CodedThree DEF Around3
<1>15. (f \o e) \o d \in Texts
  BY <1>10, <1>14, CodesAre
<1>16. IsArray(array) /\ array.w \in Nat
  BY DEF Held, IsArray
<1>. QED  BY <1>7, <1>9, <1>10, <1>14, <1>15, <1>16, EditHolds

-----------------------------------------------------------------------------
(* The invariant. *)

\* What the last read has left behind: it was one read of its item, from where
\* it began.
ReadFrom(a, i) ==
    /\ IsArray(a) /\ a.content = array.content /\ a.r = outcome.began /\ i \in 1..Len(items)
    /\ outcome.item = i /\ outcome.value = ReadItem(a, items[i]).value /\ array = ReadItem(a, items[i]).next
Remembers == outcome = Nothing \/ \E a, i : ReadFrom(a, i)
BytesInv == Held /\ Remembers

LEMMA InitBytesInv == BytesInit => BytesInv
<1> SUFFICES ASSUME BytesInit PROVE Held
  BY DEF BytesInit, BytesInv, Remembers
<1>1. array = [content |-> <<>>, r |-> 0, w |-> 0] /\ items = <<>>
  BY DEF BytesInit, EmptyBytes, Bytes
<1>2. <<>> \in Seq(Items) /\ <<>> \in Texts /\ <<>> \in Seq(Texts)
  BY EmptySeq DEF Texts
<1>3. Coded(<<>>) = <<>>
  <2>1. Codes(<<>>) \in Seq(Texts) /\ Len(Codes(<<>>)) = 0
    BY <1>2, CodesAre
  <2>2. Codes(<<>>) = <<>>
    BY <2>1, EmptySeq
  <2>. QED  BY <2>2 DEF Coded, FlattenSeq
<1>. QED  BY <1>1, <1>2, <1>3 DEF Held, IsArray

LEMMA ReadHolds ==
    ASSUME Held, ReadNext
    PROVE  Held' /\ Remembers'
<1>1. PICK i : i = next /\ i \in 1..Len(items) /\ items \in Seq(Items) /\ items' = items
  BY DEF ReadNext, Held
<1>2. PICK a : a = array /\ IsArray(a) /\ a.content = Coded(items)
  BY DEF Held
<1>3. PICK read : read = ReadItem(a, items[i])
  OBVIOUS
<1>4. array' = read.next /\ outcome' = [item |-> i, value |-> read.value, began |-> a.r]
  BY <1>1, <1>2, <1>3 DEF ReadNext
<1>5. IsItem(items[i])
  BY <1>1, CodesAre
<1>6. Onwards(a, read.next)
  BY <1>2, <1>3, <1>5, ReadItemNext
<1>7. Held'
  BY <1>1, <1>2, <1>4, <1>6 DEF Held, Onwards, IsArray
<1>8. outcome'.item = i /\ outcome'.value = read.value /\ outcome'.began = a.r /\ array'.content = a.content
  BY <1>4, <1>6 DEF Onwards
<1>9. ReadFrom(a, i)'
  BY <1>1, <1>2, <1>3, <1>4, <1>8 DEF ReadFrom
<1>. QED  BY <1>7, <1>9 DEF Remembers

LEMMA NextBytesInv == BytesInv /\ [BytesNext]_bytesVars => BytesInv'
<1> SUFFICES ASSUME BytesInv, [BytesNext]_bytesVars PROVE BytesInv'
  OBVIOUS
<1>0. Held
  BY DEF BytesInv
<1>1. CASE UNCHANGED bytesVars
  BY <1>1 DEF bytesVars, BytesInv, Held, Remembers, ReadFrom
<1>2. CASE ReadNext
  BY <1>0, <1>2, ReadHolds DEF BytesInv
<1>3. ASSUME outcome' = Nothing, NEW item \in Items, AppendItem(item) PROVE BytesInv'
  BY <1>0, <1>3, AppendHolds DEF BytesInv, Remembers
<1>4. DOMAIN items = 1..Len(items)
  BY <1>0 DEF Held
<1>5. ASSUME outcome' = Nothing, NEW i \in DOMAIN items, EraseItem(i) PROVE BytesInv'
  BY <1>0, <1>4, <1>5, EraseHolds DEF BytesInv, Remembers
<1>6. ASSUME outcome' = Nothing, NEW i \in DOMAIN items, NEW item \in Items, InsertItem(i, item) PROVE BytesInv'
  BY <1>0, <1>4, <1>6, InsertHolds DEF BytesInv, Remembers
<1>7. ASSUME outcome' = Nothing, NEW i \in DOMAIN items, NEW item \in Items, ReplaceItem(i, item) PROVE BytesInv'
  BY <1>0, <1>4, <1>7, ReplaceHolds DEF BytesInv, Remembers
<1>8. CASE outcome' = Nothing /\ Rewind
  <2>1. array' = [content |-> array.content, r |-> 0, w |-> array.w] /\ items' = items
    BY <1>0, <1>8 DEF Rewind, Held, IsArray
  <2>2. Held'
    BY <1>0, <2>1 DEF Held, IsArray
  <2>. QED  BY <1>8, <2>2 DEF BytesInv, Remembers
<1>9. CASE outcome' = Nothing /\ ClearBytes
  <2>1. array' = [content |-> <<>>, r |-> 0, w |-> 0] /\ items' = <<>>
    BY <1>9 DEF ClearBytes, EmptyBytes, Bytes
  <2>2. <<>> \in Seq(Items) /\ <<>> \in Texts
    BY EmptySeq DEF Texts
  <2>3. Coded(<<>>) = <<>>
    <3>1. Codes(<<>>) \in Seq(Texts) /\ Len(Codes(<<>>)) = 0
      BY <2>2, CodesAre
    <3>2. Codes(<<>>) = <<>>
      BY <3>1, EmptySeq
    <3>. QED  BY <3>2 DEF Coded, FlattenSeq
  <2>4. Held'
    BY <2>1, <2>2, <2>3 DEF Held, IsArray
  <2>. QED  BY <1>9, <2>4 DEF BytesInv, Remembers
<1>. QED  BY <1>1, <1>2, <1>3, <1>5, <1>6, <1>7, <1>8, <1>9 DEF BytesNext

-----------------------------------------------------------------------------
(* What it says of reads. *)

\* Item i is where the items before it end.
LEMMA ItemStarts ==
    ASSUME Held, NEW i \in 1..Len(items)
    PROVE  /\ Starts(array.content, Place(i), Encoded(items[i])) /\ IsItem(items[i])
           /\ Place(i + 1) = Place(i) + Len(Encoded(items[i]))
           /\ Place(i + 1) <= Len(array.content)
           /\ Place(i) \in Nat /\ Place(i + 1) \in Nat /\ Len(Encoded(items[i])) \in Nat
<1>1. PICK f, x, d : Around3(i, f, x, d)
  BY ItemPlace
<1>2. /\ f \in Texts /\ x \in Texts /\ d \in Texts /\ x = Encoded(items[i])
      /\ array.content = (f \o x) \o d /\ Place(i) = Len(f) /\ Place(i + 1) = Len(f) + Len(x)
  BY <1>1 DEF Around3
<1>3. PICK c : c = (f \o x) \o d
  OBVIOUS
<1>4. /\ Starts(c, Len(f), x) /\ Len(c) = Len(f) + Len(x) + Len(d)
      /\ Len(f) \in Nat /\ Len(x) \in Nat /\ Len(d) \in Nat
  BY <1>2, <1>3, MiddleStarts
<1>5. Len(f) + Len(x) <= Len(c) /\ Len(f) + Len(x) \in Nat
  BY <1>4
<1>6. IsItem(items[i])
  BY CodesAre DEF Held
<1>. QED  BY <1>2, <1>3, <1>4, <1>5, <1>6

LEMMA ReadsFind == ContainersFit /\ BytesInv => ReadsFindTheirItems
<1> SUFFICES ASSUME ContainersFit, BytesInv, outcome /= Nothing, outcome.began = Place(outcome.item)
             PROVE  /\ outcome.value = items[outcome.item].value
                    /\ items[outcome.item] /= ContainerItem(<<>>) => array.r = Place(outcome.item + 1)
  BY DEF ReadsFindTheirItems
<1>1. PICK a, i : ReadFrom(a, i)
  BY DEF BytesInv, Remembers
<1>2. /\ IsArray(a) /\ a.content = array.content /\ a.r = Place(i) /\ i \in 1..Len(items) /\ outcome.item = i
      /\ outcome.value = ReadItem(a, items[i]).value /\ array = ReadItem(a, items[i]).next
  BY <1>1 DEF ReadFrom
<1>3. /\ Starts(a.content, a.r, Encoded(items[i])) /\ IsItem(items[i])
      /\ Place(i + 1) = a.r + Len(Encoded(items[i]))
      /\ a.r + Len(Encoded(items[i])) <= Len(a.content) /\ Len(Encoded(items[i])) \in Nat
  BY <1>2, ItemStarts DEF BytesInv
<1>3a. items[i].kind = "container" => IsWord(Len(items[i].value) * WordSize)
  <2>1. items[i] \in Items
    BY <1>2, CodesAre DEF BytesInv, Held
  <2>. QED  BY <2>1 DEF ContainersFit
<1>4. /\ items[i] # ContainerItem(<<>>) => IsReadOf(a, Encoded(items[i]), items[i].value, ReadItem(a, items[i]))
      /\ ReadItem(a, items[i]).value = items[i].value
  BY <1>2, <1>3, <1>3a, ItemRead
<1>5. ASSUME items[i] # ContainerItem(<<>>) PROVE array.r = Place(i + 1)
  <2>1. ReadItem(a, items[i]) = Read(items[i].value, Moved(a, Len(Encoded(items[i]))))
    BY <1>3, <1>4, <1>5 DEF IsReadOf
  <2>2. array = Moved(a, Len(Encoded(items[i])))
    BY <1>2, <2>1 DEF Read
  <2>. QED  BY <1>2, <1>3, <2>2, MovedIs
<1>. QED  BY <1>2, <1>4, <1>5

\* What CutOffIsNoticed says of one length n.
Turn(read, item) ==
    IF read.value = item.value THEN read.next
    ELSE [read.next EXCEPT !.r = IF read.value = OutOfRange THEN -1 ELSE -2]
After(n, i, before) ==
    IF i = 0 THEN Cut(array, n) ELSE IF before.r < 0 THEN before ELSE Turn(ReadItem(before, items[i]), items[i])

\* The reader after i items of the first n bytes: where item i + 1 begins, or stopped.
Reads(n, i, a) ==
    IF i = 0 \/ Place(i + 1) <= n
    THEN a = [content |-> SubSeq(array.content, 1, n), r |-> Place(i + 1), w |-> array.w]
    ELSE a.r = -1

LEMMA ValuesAre ==
    ASSUME NEW item, IsItem(item) PROVE item.value # OutOfRange
<1>1. ASSUME item.value = OutOfRange PROVE FALSE
  <2>1. Len(item.value) = 1 /\ item.value[1] = -1
    BY <1>1 DEF OutOfRange
  <2>2. item.value \in Seq(ByteRange) \/ item.value \in Seq(Nat)
    BY DEF IsItem
  <2>3. item.value[1] \in ByteRange \/ item.value[1] \in Nat
    BY <2>1, <2>2
  <2>. QED  BY <2>1, <2>3 DEF ByteRange
<1>. QED  BY <1>1

LEMMA ReaderTurns ==
    ASSUME ContainersFit, Held, array.r = 0, NEW n \in 0..(Len(array.content) - 1), NEW i \in 1..Len(items),
           items[i] # ContainerItem(<<>>), NEW a, Reads(n, i - 1, a)
    PROVE  Reads(n, i, After(n, i, a))
<1>1. /\ Starts(array.content, Place(i), Encoded(items[i])) /\ IsItem(items[i])
      /\ Place(i + 1) = Place(i) + Len(Encoded(items[i]))
      /\ Place(i) \in Nat /\ Place(i + 1) \in Nat /\ Len(Encoded(items[i])) \in Nat
  BY ItemStarts
<1>2. i # 0 /\ (i - 1) + 1 = i /\ n \in Nat
  BY DEF Held
<1>3. CASE ~(i - 1 = 0 \/ Place(i) <= n)
  <2>1. a.r = -1
    BY <1>2, <1>3 DEF Reads
  <2>2. After(n, i, a) = a
    BY <1>2, <2>1 DEF After
  <2>3. ~(Place(i + 1) <= n)
    BY <1>1, <1>2, <1>3
  <2>. QED  BY <1>2, <2>1, <2>2, <2>3 DEF Reads
<1>4. CASE i - 1 = 0 \/ Place(i) <= n
  <2>1. PICK c : c = SubSeq(array.content, 1, n)
    OBVIOUS
  <2>2. a = [content |-> c, r |-> Place(i), w |-> array.w]
    BY <1>2, <1>4, <2>1 DEF Reads
  <2>3. array.content \in Texts /\ Len(array.content) \in Nat
    BY DEF Held, IsArray, Texts
  <2>4. c \in Texts /\ Len(c) = n /\ \A k \in 1..n : c[k] = array.content[k]
    <3>1. /\ SubSeq(array.content, 0 + 1, 0 + n) \in Texts /\ Len(SubSeq(array.content, 0 + 1, 0 + n)) = n
          /\ \A k \in 1..n : SubSeq(array.content, 0 + 1, 0 + n)[k] = array.content[0 + k]
      <4>1. 0 + n <= Len(array.content) /\ 0 \in Nat
        BY <1>2, <2>3
      <4>. QED  BY <1>2, <2>3, <4>1, PartIs DEF Texts
    <3>2. 0 + n = n /\ 0 + 1 = 1 /\ \A k \in 1..n : 0 + k = k
      BY <1>2
    <3>. QED  BY <2>1, <3>1, <3>2
  <2>5. Place(i) <= n
    <3>1. CASE i - 1 = 0
      <4>1. PICK f, x, d : Around3(i, f, x, d)
        BY ItemPlace
      <4>2. Split(Items, items, i, Before(items, i), <<items[i]>>, Behind(items, i))
        BY Splits DEF Held
      <4>3. Before(items, i) \in Seq(Items) /\ Len(Before(items, i)) = 0
        BY <3>1, <4>2 DEF Split
      <4>4. Codes(Before(items, i)) \in Seq(Texts) /\ Len(Codes(Before(items, i))) = 0
        BY <4>3, CodesAre
      <4>5. Coded(Before(items, i)) = Codes(Before(items, i))
        BY <4>4 DEF Coded, FlattenSeq
      <4>6. Place(i) = 0
        BY <4>1, <4>4, <4>5 DEF Around3
      <4>. QED  BY <1>2, <4>6
    <3>. QED  BY <1>4, <3>1
  <2>6. IsArray(a) /\ a.content = c /\ a.r = Place(i) /\ a.w = array.w /\ ~(a.r < 0)
    <3>1. array.w \in Nat
      BY DEF Held, IsArray
    <3>. QED  BY <1>1, <2>2, <2>4, <3>1 DEF IsArray
  <2>7. Starts(c, Place(i), Encoded(items[i]))
    <3>1. ASSUME NEW j \in 1..Len(Encoded(items[i])), Place(i) + j <= n
          PROVE  c[Place(i) + j] = Encoded(items[i])[j]
      <4>1. array.content[Place(i) + j] = Encoded(items[i])[j]
        <5>1. Place(i) + j <= Len(array.content)
          BY <1>1, <1>2, <2>3, <3>1
        <5>. QED  BY <1>1, <5>1 DEF Starts
      <4>2. Place(i) + j \in 1..n
        BY <1>1, <1>2, <3>1
      <4>. QED  BY <2>4, <4>1, <4>2
    <3>. QED  BY <1>1, <2>4, <2>5, <3>1 DEF Starts
  <2>8. PICK read : read = ReadItem(a, items[i])
    OBVIOUS
  <2>9. IsReadOf(a, Encoded(items[i]), items[i].value, read)
    <3>1. items[i] \in Items
      BY CodesAre DEF Held
    <3>2. items[i].kind = "container" => IsWord(Len(items[i].value) * WordSize)
      BY <3>1 DEF ContainersFit
    <3>. QED  BY <1>1, <2>6, <2>7, <2>8, <3>2, ItemRead
  <2>10. After(n, i, a) = Turn(read, items[i])
    BY <1>2, <2>6, <2>8 DEF After
  <2>11. CASE Place(i + 1) <= n
    <3>1. read = Read(items[i].value, Moved(a, Len(Encoded(items[i]))))
      BY <1>1, <2>4, <2>6, <2>9, <2>11 DEF IsReadOf
    <3>2. Turn(read, items[i]) = Moved(a, Len(Encoded(items[i])))
      BY <3>1 DEF Turn, Read
    <3>3. Moved(a, Len(Encoded(items[i]))) = [content |-> c, r |-> Place(i + 1), w |-> array.w]
      BY <1>1, <2>2 DEF Moved
    <3>. QED  BY <2>1, <2>10, <2>11, <3>2, <3>3 DEF Reads
  <2>12. CASE ~(Place(i + 1) <= n)
    <3>1. read.value = OutOfRange
      BY <1>1, <2>4, <2>6, <2>9, <2>12 DEF IsReadOf
    <3>2. IsArray(read.next)
      BY <1>1, <2>6, <2>8, ReadItemNext DEF Onwards
    <3>3. items[i].value # OutOfRange
      BY <1>1, ValuesAre
    <3>4. Turn(read, items[i]) = [read.next EXCEPT !.r = -1]
      BY <3>1, <3>3 DEF Turn
    <3>5. [read.next EXCEPT !.r = -1].r = -1
      BY <3>2 DEF IsArray
    <3>. QED  BY <1>2, <2>10, <2>12, <3>4, <3>5 DEF Reads
  <2>. QED  BY <2>11, <2>12
<1>. QED  BY <1>3, <1>4

Readers == [content : Texts, r : Int, w : Nat]
LEMMA AfterIs ==
    ASSUME Held, NEW i \in 1..Len(items), NEW n, NEW a \in Readers
    PROVE  After(n, i, a) \in Readers
<1>1. i # 0
  OBVIOUS
<1>2. CASE a.r < 0
  BY <1>1, <1>2 DEF After
<1>3. CASE ~(a.r < 0)
  <2>1. IsArray(a)
    BY <1>3 DEF Readers, IsArray
  <2>2. IsItem(items[i])
    BY CodesAre DEF Held
  <2>3. PICK read : read = ReadItem(a, items[i])
    OBVIOUS
  <2>4. IsArray(read.next)
    BY <2>1, <2>2, <2>3, ReadItemNext DEF Onwards
  <2>5. read.next \in Readers
    BY <2>4 DEF IsArray, Readers
  <2>6. \A k \in Int : [read.next EXCEPT !.r = k] \in Readers
    BY <2>5 DEF Readers
  <2>7. Turn(read, items[i]) \in Readers
    <3>1. (IF read.value = OutOfRange THEN -1 ELSE -2) \in Int
      OBVIOUS
    <3>. QED  BY <2>5, <2>6, <3>1 DEF Turn
  <2>. QED  BY <1>1, <1>3, <2>3, <2>7 DEF After
<1>. QED  BY <1>2, <1>3

LEMMA CutOff == ContainersFit /\ BytesInv => CutOffIsNoticed
<1> SUFFICES ASSUME ContainersFit, BytesInv, array.r = 0, ContainerItem(<<>>) \notin ToSet(items),
                    NEW n \in 0..(Len(array.content) - 1)
             PROVE  LET reader[i \in 0..Len(items)] ==
                            IF i = 0 THEN Cut(array, n)
                            ELSE IF reader[i - 1].r < 0 THEN reader[i - 1]
                            ELSE LET read == ReadItem(reader[i - 1], items[i])
                                 IN IF read.value = items[i].value THEN read.next
                                    ELSE [read.next EXCEPT !.r = IF read.value = OutOfRange THEN -1 ELSE -2]
                    IN reader[Len(items)].r = -1
  BY DEF CutOffIsNoticed
<1>1. PICK c \in Nat : c = Len(items)
  BY DEF BytesInv, Held
<1>2. Held /\ items \in Seq(Items) /\ array.content \in Texts /\ Len(array.content) \in Nat
      /\ IsArray(array) /\ array.content = Coded(items)
  BY DEF BytesInv, Held, IsArray, Texts
<1>. DEFINE Is(g) == g = [i \in 0..c |-> After(n, i, g[i - 1])]
            reader == CHOOSE g : Is(g)
<1> SUFFICES reader[c].r = -1
  BY <1>1 DEF After, Turn
<1>3. PICK a : a = Cut(array, n)
  OBVIOUS
<1>4. n \in Nat /\ n < Len(array.content) /\ n <= Len(array.content)
  BY <1>2
<1>5. a = [content |-> SubSeq(array.content, 1, n), r |-> 0, w |-> array.w]
  <2>1. Part(array.content, 0, n) = SubSeq(array.content, 1, n)
    <3>1. 0 + 1 = 1 /\ (IF n < Len(array.content) THEN n ELSE Len(array.content)) = n
      BY <1>4
    <3>. QED  BY <3>1 DEF Part
  <2>. QED  BY <1>2, <1>3, <2>1 DEF Cut, IsArray
<1>6. a \in Readers
  <2>1. SubSeq(array.content, 0 + 1, 0 + n) \in Texts
    <3>1. 0 \in Nat /\ 0 + n <= Len(array.content)
      BY <1>4
    <3>. QED  BY <1>2, <1>4, <3>1, PartIs DEF Texts
  <2>2. 0 + 1 = 1 /\ 0 + n = n
    BY <1>4
  <2>. QED  BY <1>2, <1>5, <2>1, <2>2 DEF Readers, IsArray
<1>7. \A b : After(n, 0, b) = a
  BY <1>3 DEF After
<1>8. PICK f : /\ f[0] = a /\ f \in [Nat -> Readers]
               /\ \A i \in 1..c : f[i] = After(n, i, f[i - 1])
  <2>. DEFINE At(i, b) == IF i \in 1..c THEN After(n, i, b) ELSE b
              step == [i \in Nat |-> [b \in Readers |-> At(i, b)]]
  <2>1. ASSUME NEW i \in Nat, NEW b \in Readers PROVE At(i, b) \in Readers
    BY <1>1, <1>2, AfterIs
  <2>2. \A i \in 1..c : i \in Nat \ {0} /\ i \in Nat /\ i - 1 \in Nat /\ \A b : At(i, b) = After(n, i, b)
    OBVIOUS
  <2>. HIDE DEF At
  <2>3. step \in Steps(Readers)
    BY <2>1 DEF Steps
  <2>4. \A i \in Nat, b \in Readers : step[i][b] = At(i, b)
    OBVIOUS
  <2>. HIDE DEF step
  <2>5. PICK f : Follows(Readers, a, step, f)
    BY <1>6, <2>3, Recursion
  <2>6. f \in [Nat -> Readers] /\ f[0] = a /\ \A i \in Nat \ {0} : f[i] = step[i][f[i - 1]]
    BY <2>5 DEF Follows
  <2>7. ASSUME NEW i \in 1..c PROVE f[i] = After(n, i, f[i - 1])
    <3>1. f[i] = step[i][f[i - 1]] /\ f[i - 1] \in Readers
      BY <2>2, <2>6
    <3>. QED  BY <2>2, <2>4, <3>1
  <2>. QED  BY <2>6, <2>7
<1>9. Is([i \in 0..c |-> f[i]])
  <2>1. ASSUME NEW i \in 0..c PROVE f[i] = After(n, i, [k \in 0..c |-> f[k]][i - 1])
    <3>1. CASE i = 0
      BY <1>7, <1>8, <3>1
    <3>2. CASE i # 0
      <4>1. i \in 1..c /\ i - 1 \in 0..c
        BY <3>2
      <4>. QED  BY <1>8, <4>1
    <3>. QED  BY <3>1, <3>2
  <2>. QED  BY <2>1
<1>10. Is(reader)
  BY <1>9
<1>. HIDE DEF reader
<1>11. reader[0] = a /\ \A i \in 1..c : reader[i] = After(n, i, reader[i - 1])
  <2>1. \A i \in 0..c : reader[i] = After(n, i, reader[i - 1])
    BY <1>10
  <2>2. 0 \in 0..c /\ \A i \in 1..c : i \in 0..c
    OBVIOUS
  <2>. QED  BY <1>7, <2>1, <2>2
<1>. HIDE DEF Is
<1>12. \A i \in 1..c : items[i] # ContainerItem(<<>>)
  BY <1>1, <1>2 DEF ToSet
<1>13. Coded(<<>>) = <<>> /\ <<>> \in Seq(Items) /\ Len(<<>>) = 0
  <2>1. <<>> \in Seq(Items) /\ <<>> \in Seq(Texts) /\ Len(<<>>) = 0
    BY EmptySeq
  <2>2. Codes(<<>>) \in Seq(Texts) /\ Len(Codes(<<>>)) = 0
    BY <2>1, CodesAre
  <2>. QED  BY <2>1, <2>2, EmptySeq DEF Coded, FlattenSeq
<1>14. Place(1) = 0
  <2>1. 1 = Len(<<>>) + 1 /\ \A k \in 1..Len(<<>>) : <<>>[k] = items[k]
    BY <1>13
  <2>. QED  BY <1>2, <1>13, <2>1, PlaceIs
<1>15. Place(c + 1) = Len(array.content)
  <2>1. c + 1 = Len(items) + 1
    BY <1>1
  <2>. QED  BY <1>2, <2>1, PlaceIs
<1>16. \A i \in 0..c : Reads(n, i, reader[i])
  <2>. DEFINE Bad == {i \in 0..c : ~Reads(n, i, reader[i])}
  <2>1. ASSUME Bad # {} PROVE FALSE
    <3>1. PICK i \in Bad : \A k \in Bad : ~(k < i)
      <4>1. Bad \subseteq Nat
        OBVIOUS
      <4>. HIDE DEF Bad
      <4>. QED  BY <2>1, <4>1, LeastOf
    <3>2. i # 0
      <4>1. Reads(n, 0, reader[0])
        <5>1. 0 + 1 = 1
          OBVIOUS
        <5>. QED  BY <1>5, <1>11, <1>14, <5>1 DEF Reads
      <4>. QED  BY <3>1, <4>1
    <3>3. i \in 1..c /\ i - 1 \in 0..c /\ i - 1 < i
      BY <3>1, <3>2
    <3>4. Reads(n, i - 1, reader[i - 1])
      BY <3>1, <3>3
    <3>5. Reads(n, i, After(n, i, reader[i - 1]))
      BY <1>1, <1>2, <1>12, <3>3, <3>4, ReaderTurns
    <3>6. Reads(n, i, reader[i])
      BY <1>11, <3>3, <3>5
    <3>. QED  BY <3>1, <3>6
  <2>. QED  BY <2>1
<1>17. c # 0
  <2>1. ASSUME c = 0 PROVE FALSE
    <3>1. Place(c + 1) = 0
      BY <1>14, <2>1
    <3>. QED  BY <1>4, <1>15, <3>1
  <2>. QED  BY <2>1
<1>18. ~(Place(c + 1) <= n) /\ c \in 0..c
  BY <1>4, <1>15
<1>. QED  BY <1>16, <1>17, <1>18 DEF Reads

\* Words of any size and any items, of which no container takes more bytes than
\* a word counts, appended, inserted, replaced and erased in any order: a read
\* that begins where an item begins returns the item and ends where it ends, but
\* for an empty container, and of an array that is cut off anywhere a reader gets
\* the items that are whole and then an error.
THEOREM ItemsAreFound ==
    ASSUME ContainersFit
    PROVE  BytesSpec => []BytesAreFound
<1>1. BytesInv => BytesAreFound
  BY ReadsFind, CutOff DEF BytesAreFound
<1>. QED  BY <1>1, InitBytesInv, NextBytesInv, PTL DEF BytesSpec
=============================================================================
