---------------------------- MODULE KeyDB_proofs ----------------------------
(***************************************************************************)
(* For any number of programs, keys, values and calls: when no caller puts *)
(* WriteLock into a constructor's policy, no header ever carries it; all   *)
(* that keydb keeps has its type; what the destructor writes is read back; *)
(* of a new file what has been saved outlives its process; and what one    *)
(* program that is not killed sees in its sessions is one map, changed     *)
(* only by the calls that store and delete.                                *)
(***************************************************************************)
EXTENDS KeyDBRefinement, FiniteSetTheorems, SequenceTheorems, NaturalsInduction,
        WellFoundedInduction, TLAPS

NoLockPolicy == \A pol \in Policies : "WriteLock" \notin pol

IsSequence(f) == \E S : f \in Seq(S)

GoodChunk(c) ==
    \/ /\ c = [kind |-> "hdr", pol |-> c.pol, count |-> c.count]
       /\ "WriteLock" \notin c.pol
    \/ c = [kind |-> "rec", key |-> c.key, val |-> c.val, del |-> c.del]
    \/ c = Junk

\* What lies on disk or in a buffer.
Good(f) ==
    /\ IsSequence(f)
    /\ \A i \in DOMAIN f : GoodChunk(f[i])

StreamOK(s) ==
    /\ s = [mode |-> s.mode, st |-> s.st, pos |-> s.pos, buf |-> s.buf]
    /\ s.pos \in Nat \ {0}
    /\ Good(s.buf)

IInv ==
    /\ Good(file)
    /\ m_file = [p \in Procs |-> m_file[p]]
    /\ m_policy = [p \in Procs |-> m_policy[p]]
    /\ \A p \in Procs : StreamOK(m_file[p]) /\ "WriteLock" \notin m_policy[p]

\* Between the two halves of lock() the stream cannot write.
CannotWrite ==
    /\ up = [p \in Procs |-> up[p]]
    /\ busy = [p \in Procs |-> busy[p]]
    /\ \A p \in Procs : busy[p] = "lock" => up[p] = "up" /\ ~Writable(m_file[p])

-----------------------------------------------------------------------------
(* Sequences. *)

LEMMA GoodRecord ==
    ASSUME NEW k, NEW v, NEW d
    PROVE  GoodChunk([kind |-> "rec", key |-> k, val |-> v, del |-> d])
<1>. DEFINE c == [kind |-> "rec", key |-> k, val |-> v, del |-> d]
<1>1. c = [kind |-> "rec", key |-> c.key, val |-> c.val, del |-> c.del]
  OBVIOUS
<1>. HIDE DEF c
<1>. QED  BY <1>1 DEF GoodChunk

LEMMA FunIsSequence ==
    ASSUME NEW n \in Nat, NEW f, f = [i \in 1..n |-> f[i]]
    PROVE  IsSequence(f) /\ Len(f) = n /\ DOMAIN f = 1..n
<1>. DEFINE S == {f[i] : i \in 1..n}
<1>1. f \in [1..n -> S]
  OBVIOUS
<1>2. f \in Seq(S)
  BY <1>1, IsASeq
<1>3. Len(f) = n
  BY <1>1, <1>2, LenProperties
<1>. QED  BY <1>1, <1>2, <1>3 DEF IsSequence

LEMMA SequenceFacts ==
    ASSUME NEW f, IsSequence(f)
    PROVE  Len(f) \in Nat /\ DOMAIN f = 1..Len(f) /\ f = [i \in 1..Len(f) |-> f[i]]
BY LenProperties DEF IsSequence

LEMMA GoodEmpty == Good(<<>>)
<1>1. <<>> \in Seq({}) /\ DOMAIN <<>> = {}
  OBVIOUS
<1>. QED  BY <1>1 DEF Good, IsSequence

LEMMA GoodOverlay ==
    ASSUME NEW f, NEW s, NEW pos \in Nat \ {0}, Good(f), Good(s)
    PROVE  Good(Overlay(f, pos, s))
<1>. DEFINE last == pos - 1 + Len(s)
            n == IF last > Len(f) THEN last ELSE Len(f)
            g == Overlay(f, pos, s)
<1>1. /\ Len(f) \in Nat /\ DOMAIN f = 1..Len(f)
      /\ Len(s) \in Nat /\ DOMAIN s = 1..Len(s)
  BY SequenceFacts DEF Good
<1>2. n \in Nat
  BY <1>1
<1>3. g = [i \in 1..n |-> IF i \in pos..last THEN s[i - pos + 1]
                          ELSE IF i <= Len(f) THEN f[i] ELSE Junk]
  BY DEF Overlay
<1>4. g = [i \in 1..n |-> g[i]]
  BY <1>3
<1>5. IsSequence(g) /\ DOMAIN g = 1..n
  <2>. HIDE DEF g, n
  <2>. QED  BY <1>2, <1>4, FunIsSequence
<1>6. ASSUME NEW i \in 1..n  PROVE GoodChunk(g[i])
  <2>1. CASE i \in pos..last
    <3>1. i - pos + 1 \in DOMAIN s /\ g[i] = s[i - pos + 1]
      BY <1>1, <1>3, <2>1
    <3>. QED  BY <3>1 DEF Good
  <2>2. CASE i \notin pos..last /\ i <= Len(f)
    BY <1>1, <1>3, <2>2 DEF Good
  <2>3. CASE i \notin pos..last /\ ~(i <= Len(f))
    BY <1>3, <2>3 DEF GoodChunk
  <2>. QED  BY <2>1, <2>2, <2>3
<1>. QED  BY <1>5, <1>6 DEF Good

LEMMA GoodConcat ==
    ASSUME NEW f, NEW g, Good(f), Good(g)
    PROVE  Good(f \o g)
<1>1. PICK S : f \in Seq(S)
  BY DEF Good, IsSequence
<1>2. PICK T : g \in Seq(T)
  BY DEF Good, IsSequence
<1>3. f \in Seq(S \cup T) /\ g \in Seq(S \cup T)
  BY <1>1, <1>2, SeqMonotonic
<1>4. /\ f \o g \in Seq(S \cup T)
      /\ DOMAIN (f \o g) = 1..(Len(f) + Len(g))
      /\ \A i \in 1..(Len(f) + Len(g)) :
            (f \o g)[i] = IF i <= Len(f) THEN f[i] ELSE g[i - Len(f)]
  BY <1>3, ConcatProperties, LenProperties
<1>5. /\ Len(f) \in Nat /\ DOMAIN f = 1..Len(f)
      /\ Len(g) \in Nat /\ DOMAIN g = 1..Len(g)
  BY SequenceFacts DEF Good
<1>6. ASSUME NEW i \in 1..(Len(f) + Len(g))
      PROVE  GoodChunk((f \o g)[i])
  <2>1. CASE i <= Len(f)
    BY <1>4, <1>5, <2>1 DEF Good
  <2>2. CASE ~(i <= Len(f))
    <3>1. i - Len(f) \in DOMAIN g
      BY <1>5, <2>2
    <3>. QED  BY <1>4, <2>2, <3>1 DEF Good
  <2>. QED  BY <2>1, <2>2
<1>. QED  BY <1>4, <1>6 DEF Good, IsSequence

LEMMA GoodSubSeq ==
    ASSUME NEW f, Good(f), NEW a \in 1..(Len(f) + 1), NEW b \in 0..Len(f)
    PROVE  Good(SubSeq(f, a, b))
<1>1. PICK S : f \in Seq(S)
  BY DEF Good, IsSequence
<1>2. Len(f) \in Nat /\ DOMAIN f = 1..Len(f)
  BY <1>1, LenProperties
<1>3. CASE a <= b
  <2>1. /\ SubSeq(f, a, b) \in Seq(S)
        /\ DOMAIN SubSeq(f, a, b) = 1..(b - a + 1)
        /\ \A i \in 1..(b - a + 1) : SubSeq(f, a, b)[i] = f[a + i - 1]
    BY <1>1, <1>2, <1>3, SubSeqProperties, LenProperties
  <2>2. \A i \in 1..(b - a + 1) : a + i - 1 \in DOMAIN f
    BY <1>2, <1>3
  <2>. QED  BY <2>1, <2>2 DEF Good, IsSequence
<1>4. CASE ~(a <= b)
  <2>1. SubSeq(f, a, b) = <<>>
    BY <1>1, <1>2, <1>4, SubSeqEmpty
  <2>. QED  BY <2>1, GoodEmpty
<1>. QED  BY <1>2, <1>3, <1>4

LEMMA GoodMarked ==
    ASSUME NEW f, NEW offs, Good(f)
    PROVE  Good(Marked(f, offs))
<1>. DEFINE g == [i \in DOMAIN f |-> IF i \notin offs THEN f[i]
                                     ELSE IF f[i].kind = "rec"
                                     THEN DeletedRecord(f[i].key, f[i].val) ELSE Junk]
<1>1. Len(f) \in Nat /\ DOMAIN f = 1..Len(f)
  BY SequenceFacts DEF Good
<1>2. g = [i \in 1..Len(f) |-> g[i]]
  BY <1>1
<1>3. IsSequence(g)
  <2>. HIDE DEF g
  <2>. QED  BY <1>1, <1>2, FunIsSequence
<1>4. ASSUME NEW i \in DOMAIN g  PROVE GoodChunk(g[i])
  <2>1. CASE i \notin offs
    BY <2>1 DEF Good
  <2>2. CASE i \in offs /\ f[i].kind = "rec"
    BY <2>2, GoodRecord DEF DeletedRecord
  <2>3. CASE i \in offs /\ f[i].kind # "rec"
    BY <2>3 DEF GoodChunk
  <2>. QED  BY <2>1, <2>2, <2>3
<1>5. Good(g)
  BY <1>3, <1>4 DEF Good
<1>6. Good(<<Junk>>)
  <2>1. <<Junk>> \in Seq({Junk}) /\ DOMAIN <<Junk>> = {1} /\ <<Junk>>[1] = Junk
    OBVIOUS
  <2>. QED  BY <2>1 DEF Good, IsSequence, GoodChunk
<1>7. Append(g, Junk) = g \o <<Junk>>
  <2>. HIDE DEF g
  <2>1. PICK S : g \in Seq(S)
    BY <1>3 DEF IsSequence
  <2>2. g \in Seq(S \cup {Junk})
    BY <2>1, SeqMonotonic
  <2>. QED  BY <2>2, AppendIsConcat
<1>8. Marked(f, offs) \in {g, Append(g, Junk)}
  BY DEF Marked
<1>. QED  BY <1>5, <1>6, <1>7, <1>8, GoodConcat

LEMMA GoodRecords == ASSUME NEW m PROVE Good(RecordsOf(m))
<1>. DEFINE n == Cardinality(Present(m))
            g == RecordsOf(m)
<1>1. n \in Nat
  <2>1. DOMAIN KeyOrder = 1..Len(KeyOrder) /\ Len(KeyOrder) \in Nat
    BY ConstantsAssumption, LenProperties DEF ConstantsAssumption
  <2>2. IsFiniteSet(1..Len(KeyOrder))
    BY <2>1, FS_Interval
  <2>3. IsFiniteSet(Present(m))
    BY <2>1, <2>2, FS_Subset DEF Present
  <2>. QED  BY <2>3, FS_CardinalityType
<1>2. g = [j \in 1..n |-> Record(NthKey(m, j), m[NthKey(m, j)].val)]
  BY DEF RecordsOf
<1>3. IsSequence(g) /\ DOMAIN g = 1..n
  <2>1. g = [j \in 1..n |-> g[j]]
    BY <1>2
  <2>. HIDE DEF g, n
  <2>. QED  BY <1>1, <2>1, FunIsSequence
<1>4. \A j \in 1..n : GoodChunk(g[j])
  BY <1>2, GoodRecord DEF Record
<1>. QED  BY <1>3, <1>4 DEF Good

LEMMA GoodHeader ==
    ASSUME NEW pol, NEW n, "WriteLock" \notin pol
    PROVE  Good(<<Header(pol, n)>>)
<1>. DEFINE h == Header(pol, n)
<1>1. h = [kind |-> "hdr", pol |-> h.pol, count |-> h.count] /\ "WriteLock" \notin h.pol
  BY DEF Header
<1>. HIDE DEF h
<1>2. GoodChunk(h)
  BY <1>1 DEF GoodChunk
<1>3. <<h>> \in Seq({h}) /\ DOMAIN <<h>> = {1} /\ <<h>>[1] = h
  OBVIOUS
<1>4. Good(<<h>>)
  BY <1>2, <1>3 DEF Good, IsSequence
<1>. QED  BY <1>4 DEF h

LEMMA GoodImage ==
    ASSUME NEW pol, NEW m, "WriteLock" \notin pol
    PROVE  Good(Image(pol, m))
BY GoodHeader, GoodRecords, GoodConcat DEF Image

-----------------------------------------------------------------------------
(* Streams. *)

LEMMA OpenStreams ==
    /\ \A st : StreamOK(OpenIn(st))
    /\ StreamOK(Closed)
    /\ \A pos \in Nat \ {0} : \A buf : Good(buf) => StreamOK(OpenOut(pos, buf))
BY GoodEmpty DEF OpenIn, OpenOut, Closed, StreamOK, HdrPos

LEMMA GoodFlush ==
    ASSUME NEW f, NEW s, Good(f), StreamOK(s)
    PROVE  Good(FlushedFile(f, s)) /\ StreamOK(FlushedStream(s))
<1>1. Good(FlushedFile(f, s))
  BY GoodOverlay DEF FlushedFile, StreamOK
<1>2. FlushedStream(s) = [mode |-> s.mode, st |-> s.st, pos |-> s.pos, buf |-> <<>>]
  BY DEF FlushedStream, StreamOK
<1>. QED  BY <1>1, <1>2, GoodEmpty DEF StreamOK

LEMMA ReadPolicyStream ==
    ASSUME NEW f, NEW s, StreamOK(s)
    PROVE  /\ StreamOK(AfterReadPolicy(f, s))
           /\ ~Writable(AfterReadPolicy(f, s))
<1>1. CASE s.mode = "closed" \/ ReadsPolicy(f, s)
  BY <1>1 DEF AfterReadPolicy, ReadsPolicy, Writable
<1>2. CASE ~(s.mode = "closed" \/ ReadsPolicy(f, s))
  <2>1. AfterReadPolicy(f, s)
          = [mode |-> s.mode, st |-> "fail", pos |-> s.pos, buf |-> <<>>]
    BY <1>2 DEF AfterReadPolicy, StreamOK
  <2>. QED  BY <2>1, GoodEmpty DEF StreamOK, Writable
<1>. QED  BY <1>1, <1>2

LEMMA WritePolicyStream ==
    ASSUME NEW s, StreamOK(s)
    PROVE  StreamOK(AfterWritePolicy(s))
<1>1. CASE Writable(s)
  BY <1>1, GoodFlush, GoodEmpty DEF AfterWritePolicy
<1>2. CASE ~Writable(s) /\ s.mode = "in" /\ s.st = "good"
  <2>1. AfterWritePolicy(s) = [mode |-> s.mode, st |-> "fail", pos |-> s.pos, buf |-> s.buf]
    BY <1>2 DEF AfterWritePolicy, StreamOK
  <2>. QED  BY <2>1 DEF StreamOK
<1>3. CASE ~Writable(s) /\ ~(s.mode = "in" /\ s.st = "good")
  BY <1>3 DEF AfterWritePolicy
<1>. QED  BY <1>1, <1>2, <1>3

LEMMA WritePolicyFile ==
    ASSUME NEW f, NEW s, NEW pol, Good(f), StreamOK(s),
           Writable(s) => "WriteLock" \notin pol
    PROVE  Good(WrittenPolicy(f, s, pol))
<1>. DEFINE g == FlushedFile(f, s)
<1>1. Good(g)
  BY GoodFlush
<1>. HIDE DEF g
<1>2. CASE ~(Writable(s) /\ HasHeader(g))
  BY <1>1, <1>2 DEF WrittenPolicy, g
<1>3. CASE Writable(s) /\ HasHeader(g)
  <2>1. WrittenPolicy(f, s, pol) = [g EXCEPT ![HdrPos].pol = pol \cap LibFlags]
    BY <1>3 DEF WrittenPolicy, g
  <2>2. Len(g) \in Nat /\ DOMAIN g = 1..Len(g) /\ Len(g) # 0
    <3>1. Len(g) \in Nat /\ DOMAIN g = 1..Len(g)
      BY <1>1, SequenceFacts DEF Good
    <3>2. PICK S : g \in Seq(S)
      BY <1>1 DEF Good, IsSequence
    <3>3. g # <<>>
      BY <1>3 DEF HasHeader
    <3>. QED  BY <3>1, <3>2, <3>3, EmptySeq
  <2>3. g[1].kind = "hdr" /\ GoodChunk(g[1])
    BY <1>1, <1>3, <2>2 DEF HasHeader, HdrPos, Good
  <2>4. g[1] = [kind |-> "hdr", pol |-> g[1].pol, count |-> g[1].count]
    BY <2>3 DEF GoodChunk, Junk
  <2>5. [g[1] EXCEPT !.pol = pol \cap LibFlags] = Header(pol, g[1].count)
    BY <2>4 DEF Header
  <2>6. WrittenPolicy(f, s, pol)
          = [i \in 1..Len(g) |-> IF i = 1 THEN Header(pol, g[1].count) ELSE g[i]]
    BY <2>1, <2>2, <2>5 DEF HdrPos
  <2>. DEFINE w == WrittenPolicy(f, s, pol)
  <2>7. IsSequence(w) /\ DOMAIN w = 1..Len(g)
    <3>1. w = [i \in 1..Len(g) |-> w[i]]
      BY <2>6
    <3>. HIDE DEF w
    <3>. QED  BY <2>2, <3>1, FunIsSequence
  <2>8. GoodChunk(Header(pol, g[1].count))
    <3>1. Good(<<Header(pol, g[1].count)>>)
      BY <1>3, GoodHeader
    <3>. QED  BY <3>1 DEF Good
  <2>9. \A i \in 1..Len(g) : GoodChunk(w[i])
    BY <1>1, <2>2, <2>6, <2>8 DEF Good
  <2>. QED  BY <2>7, <2>9 DEF Good
<1>. QED  BY <1>2, <1>3

-----------------------------------------------------------------------------
(* Actions. *)

LEMMA LoadReadsHeader ==
    ASSUME NEW f, NEW pol, NEW own, NEW o \in LoadOutcomes(f, pol, own), Good(f),
           o.rc \in {"Success", "Corrupted"}
    PROVE  "WriteLock" \notin f[HdrPos].pol
<1>1. HasHeader(f)
  BY DEF LoadOutcomes
<1>2. HdrPos \in DOMAIN f
  <2>1. PICK S : f \in Seq(S)
    BY DEF Good, IsSequence
  <2>2. Len(f) \in Nat /\ DOMAIN f = 1..Len(f) /\ Len(f) # 0
    BY <1>1, <2>1, LenProperties, EmptySeq DEF HasHeader
  <2>. QED  BY <2>2 DEF HdrPos
<1>3. GoodChunk(f[HdrPos])
  BY <1>2 DEF Good
<1>. QED  BY <1>1, <1>3 DEF HasHeader, GoodChunk, Junk

\* The invariant survives a step that writes a good file, gives p a good stream
\* and leaves WriteLock out of its policy.
LEMMA StepOf ==
    ASSUME IInv, NEW p \in Procs, NEW s, NEW pol,
           Good(file'), StreamOK(s), "WriteLock" \notin pol,
           m_file' = [m_file EXCEPT ![p] = s],
           m_policy' = [m_policy EXCEPT ![p] = pol]
    PROVE  IInv'
<1>1. /\ m_file' = [q \in Procs |-> IF q = p THEN s ELSE m_file[q]]
      /\ m_policy' = [q \in Procs |-> IF q = p THEN pol ELSE m_policy[q]]
  BY DEF IInv
<1>2. /\ m_file' = [q \in Procs |-> m_file'[q]]
      /\ m_policy' = [q \in Procs |-> m_policy'[q]]
  BY <1>1
<1>3. \A q \in Procs : StreamOK(m_file'[q]) /\ "WriteLock" \notin m_policy'[q]
  BY <1>1 DEF IInv
<1>. QED  BY <1>2, <1>3 DEF IInv

LEMMA StepOfStream ==
    ASSUME IInv, NEW p \in Procs, NEW s, Good(file'), StreamOK(s),
           m_file' = [m_file EXCEPT ![p] = s], UNCHANGED m_policy
    PROVE  IInv'
<1>1. m_policy' = [m_policy EXCEPT ![p] = m_policy[p]]
  BY DEF IInv
<1>. QED  BY <1>1, StepOf DEF IInv

LEMMA GoneStep ==
    ASSUME IInv, NEW p \in Procs, Gone(p), Good(file')
    PROVE  IInv'
BY StepOf, OpenStreams DEF Gone

LEMMA SaveDataStep ==
    ASSUME IInv, NEW p \in Procs, NEW data, SaveData(p, data), UNCHANGED m_policy
    PROVE  IInv'
<1>. DEFINE img == Image(m_policy[p], data)
<1>1. PICK n \in 0..Len(img) :
        /\ file' = SubSeq(img, 1, n)
        /\ m_file' = [m_file EXCEPT ![p] = OpenOut(n + 1, SubSeq(img, n + 1, Len(img)))]
  BY DEF SaveData
<1>2. Good(img)
  BY GoodImage DEF IInv
<1>3. Len(img) \in Nat
  BY <1>2, SequenceFacts DEF Good
<1>. HIDE DEF img
<1>4. Good(file')
  BY <1>1, <1>2, <1>3, GoodSubSeq
<1>5. Good(SubSeq(img, n + 1, Len(img)))
  BY <1>2, <1>3, GoodSubSeq
<1>6. StreamOK(OpenOut(n + 1, SubSeq(img, n + 1, Len(img))))
  BY <1>3, <1>5, OpenStreams
<1>. QED  BY <1>1, <1>4, <1>6, StepOfStream

LEMMA AutoSaveStep ==
    ASSUME IInv, NEW p \in Procs, NEW data, NEW diff, AutoSave(p, data, diff)
    PROVE  IInv'
<1>. USE DEF AutoSave
<1>1. CASE "AutoSave" \notin m_policy[p]
  BY <1>1 DEF IInv
<1>2. CASE "AutoSave" \in m_policy[p] /\ "FastSave" \in m_policy[p]
  <2>1. FastSaveRecords(p, diff)
    BY <1>2
  <2>2. Good(file) /\ StreamOK(m_file[p])
    BY DEF IInv
  <2>3. CASE Writable(m_file[p])
    <3>. DEFINE f == FlushedFile(file, m_file[p])
                offs == {diff[k].off : k \in {k \in DOMAIN diff : diff[k].del}}
                added == [k \in DOMAIN diff \ {k \in DOMAIN diff : diff[k].del} |-> diff[k]]
    <3>1. /\ file' = Marked(f, offs) \o RecordsOf(added)
          /\ m_file' = [m_file EXCEPT ![p] = FlushedStream(m_file[p])]
      BY <2>1, <2>3 DEF FastSaveRecords
    <3>2. Good(f) /\ StreamOK(FlushedStream(m_file[p]))
      BY <2>2, GoodFlush
    <3>3. Good(file')
      <4>. HIDE DEF f, offs, added
      <4>. QED  BY <3>1, <3>2, GoodMarked, GoodRecords, GoodConcat
    <3>. QED  BY <3>1, <3>2, <3>3, StepOfStream
  <2>4. CASE ~Writable(m_file[p])
    <3>1. file' = file /\ m_file' = [m_file EXCEPT ![p] = AfterWritePolicy(m_file[p])]
      BY <2>1, <2>4 DEF FastSaveRecords
    <3>. QED  BY <2>2, <3>1, WritePolicyStream, StepOfStream
  <2>. QED  BY <2>3, <2>4
<1>3. CASE "AutoSave" \in m_policy[p] /\ "FastSave" \notin m_policy[p]
  BY <1>3, SaveDataStep
<1>. QED  BY <1>1, <1>2, <1>3

LEMMA InitIInv == Init => IInv
<1>. SUFFICES ASSUME Init PROVE IInv
  OBVIOUS
<1>1. Good(file)
  BY GoodEmpty DEF Init
<1>. QED  BY <1>1, OpenStreams DEF Init, IInv

LEMMA NextIInv == NoLockPolicy /\ IInv /\ CannotWrite /\ [Next]_vars => IInv'
<1>. SUFFICES ASSUME NoLockPolicy, IInv, CannotWrite, [Next]_vars PROVE IInv'
  OBVIOUS
<1>0. Good(file) /\ \A p \in Procs : StreamOK(m_file[p]) /\ "WriteLock" \notin m_policy[p]
  BY DEF IInv
<1>1. ASSUME NEW p \in Procs, NEW pol \in Policies, Create(p, pol)  PROVE IInv'
  <2>1. "WriteLock" \notin pol
    BY DEF NoLockPolicy
  <2>2. Good(file')
    BY <1>1, <2>1, GoodHeader DEF Create
  <2>3. StreamOK(OpenOut(HdrPos + 1, <<>>))
    BY OpenStreams, GoodEmpty DEF HdrPos
  <2>. QED  BY <1>1, <2>1, <2>2, <2>3, StepOf DEF Create
<1>2. ASSUME NEW p \in Procs, NEW pol \in Policies, Open(p, pol)  PROVE IInv'
  <2>1. PICK o \in LoadOutcomes(file, pol, FALSE) :
          \/ /\ o.rc = "Success"
             /\ m_policy' = [m_policy EXCEPT ![p] = pol \cup file[HdrPos].pol]
             /\ m_file' = [m_file EXCEPT ![p] = OpenIn(o.st)]
          \/ UNCHANGED <<m_policy, m_file>>
          \/ Gone(p)
    BY <1>2 DEF Open
  <2>2. Good(file')
    BY <1>0, <1>2 DEF Open
  <2>3. CASE /\ o.rc = "Success"
             /\ m_policy' = [m_policy EXCEPT ![p] = pol \cup file[HdrPos].pol]
             /\ m_file' = [m_file EXCEPT ![p] = OpenIn(o.st)]
    <3>1. "WriteLock" \notin pol \cup file[HdrPos].pol
      BY <1>0, <2>3, LoadReadsHeader DEF NoLockPolicy
    <3>. QED  BY <2>2, <2>3, <3>1, OpenStreams, StepOf
  <2>4. CASE UNCHANGED <<m_policy, m_file>>
    BY <2>2, <2>4 DEF IInv
  <2>5. CASE Gone(p)
    BY <2>2, <2>5, GoneStep
  <2>. QED  BY <2>1, <2>3, <2>4, <2>5
<1>3. ASSUME NEW p \in Procs, NEW k, NEW v, AddKey(p, k, v)  PROVE IInv'
  BY <1>3, AutoSaveStep DEF AddKey, StoreKey
<1>4. ASSUME NEW p \in Procs, NEW k, NEW src, CopyKey(p, k, src)  PROVE IInv'
  BY <1>4, AutoSaveStep DEF CopyKey, StoreKey
<1>5. ASSUME NEW p \in Procs, NEW k, DeleteKey(p, k)  PROVE IInv'
  BY <1>5, AutoSaveStep DEF DeleteKey
<1>6. ASSUME NEW p \in Procs, FastSaveHeader(p)  PROVE IInv'
  <2>. DEFINE h == <<Header(m_policy[p], Cardinality(Present(m_data[p])))>>
  <2>1. Good(h)
    BY <1>0, GoodHeader
  <2>2. Good(Overlay(file, HdrPos, h))
    <3>. HIDE DEF h
    <3>. QED  BY <1>0, <2>1, GoodOverlay DEF HdrPos
  <2>3. Good(file')
    BY <1>0, <1>6, <2>2 DEF FastSaveHeader
  <2>. QED  BY <1>6, <2>3 DEF FastSaveHeader, IInv
<1>7. ASSUME NEW p \in Procs, Save(p)  PROVE IInv'
  BY <1>7, SaveDataStep DEF Save
<1>8. ASSUME NEW p \in Procs, Load(p)  PROVE IInv'
  <2>. DEFINE f == FlushedFile(file, m_file[p])
  <2>1. Good(f)
    BY <1>0, GoodFlush
  <2>2. file' = f
    BY <1>8 DEF Load
  <2>3. PICK o \in LoadOutcomes(f, m_policy[p], m_ownlock[p]) :
          \/ /\ o.rc \in {"Success", "Corrupted"}
             /\ m_policy' = [m_policy EXCEPT ![p] = m_policy[p] \cup f[HdrPos].pol]
             /\ m_file' = [m_file EXCEPT ![p] = OpenIn(o.st)]
          \/ UNCHANGED <<m_policy, m_file>>
          \/ m_file' = [m_file EXCEPT ![p] = Closed] /\ UNCHANGED m_policy
    BY <1>8 DEF Load
  <2>. HIDE DEF f
  <2>4. CASE /\ o.rc \in {"Success", "Corrupted"}
             /\ m_policy' = [m_policy EXCEPT ![p] = m_policy[p] \cup f[HdrPos].pol]
             /\ m_file' = [m_file EXCEPT ![p] = OpenIn(o.st)]
    <3>1. "WriteLock" \notin m_policy[p] \cup f[HdrPos].pol
      BY <1>0, <2>1, <2>4, LoadReadsHeader
    <3>. QED  BY <2>1, <2>2, <2>4, <3>1, OpenStreams, StepOf
  <2>5. CASE UNCHANGED <<m_policy, m_file>>
    BY <2>1, <2>2, <2>5 DEF IInv
  <2>6. CASE m_file' = [m_file EXCEPT ![p] = Closed] /\ UNCHANGED m_policy
    BY <2>1, <2>2, <2>6, OpenStreams, StepOfStream
  <2>. QED  BY <2>3, <2>4, <2>5, <2>6
<1>9. ASSUME NEW p \in Procs, Locked(p)  PROVE IInv'
  <2>1. Good(file')
    BY <1>0, <1>9, GoodFlush DEF Locked
  <2>2. StreamOK(AfterReadPolicy(file, m_file[p]))
    BY <1>0, ReadPolicyStream
  <2>. QED  BY <1>9, <2>1, <2>2, StepOfStream DEF Locked
<1>10. ASSUME NEW p \in Procs, Lock(p) \/ LockWrite(p)  PROVE IInv'
  <2>1. CASE Lock(p)
    <3>1. Good(file')
      BY <1>0, <2>1, GoodFlush DEF Lock
    <3>2. StreamOK(AfterReadPolicy(file, m_file[p]))
      BY <1>0, ReadPolicyStream
    <3>. QED  BY <2>1, <3>1, <3>2, StepOfStream DEF Lock
  <2>2. CASE LockWrite(p)
    <3>1. ~Writable(m_file[p])
      BY <2>2 DEF LockWrite, CannotWrite
    <3>2. Good(file')
      BY <1>0, <2>2, <3>1, WritePolicyFile DEF LockWrite
    <3>3. StreamOK(AfterWritePolicy(m_file[p]))
      BY <1>0, WritePolicyStream
    <3>. QED  BY <2>2, <3>2, <3>3, StepOfStream DEF LockWrite
  <2>. QED  BY <1>10, <2>1, <2>2
<1>11. ASSUME NEW p \in Procs, Release(p)  PROVE IInv'
  <2>1. "WriteLock" \notin m_policy[p] \cap {"WriteLock"}
    BY <1>0
  <2>2. Good(file')
    BY <1>0, <1>11, <2>1, WritePolicyFile DEF Release
  <2>3. StreamOK(AfterWritePolicy(m_file[p]))
    BY <1>0, WritePolicyStream
  <2>. QED  BY <1>11, <2>2, <2>3, StepOfStream DEF Release
<1>12. ASSUME NEW p \in Procs, Close(p) \/ CloseEnd(p)  PROVE IInv'
  <2>1. CASE Close(p) /\ "ReadOnly" \in m_policy[p]
    BY <2>1 DEF Close, IInv
  <2>2. CASE Close(p) /\ "ReadOnly" \notin m_policy[p]
    BY <2>2, SaveDataStep DEF Close
  <2>3. CASE CloseEnd(p)
    <3>1. "WriteLock" \notin m_policy[p] \cap {"WriteLock"}
      BY <1>0
    <3>2. Good(file')
      BY <1>0, <2>3, <3>1, WritePolicyFile, GoodFlush DEF CloseEnd
    <3>. QED  BY <2>3, <3>2, GoneStep DEF CloseEnd
  <2>. QED  BY <1>12, <2>1, <2>2, <2>3
<1>13. ASSUME NEW p \in Procs, Crash(p)  PROVE IInv'
  BY <1>0, <1>13, GoneStep DEF Crash
<1>14. CASE UNCHANGED vars
  BY <1>14 DEF vars, IInv
<1>. QED  BY <1>1, <1>2, <1>3, <1>4, <1>5, <1>6, <1>7, <1>8, <1>9, <1>10, <1>11,
             <1>12, <1>13, <1>14 DEF Next, Done

LEMMA CannotWriteInit == Init => CannotWrite
BY DEF Init, CannotWrite

\* One step of p, which ends where its stream is not between the halves of
\* lock(), or cannot write.
LEMMA CannotWriteOf ==
    ASSUME IInv, CannotWrite, NEW p \in Procs, NEW u, NEW b, NEW s,
           up' = up \/ up' = [up EXCEPT ![p] = u],
           busy' = busy \/ busy' = [busy EXCEPT ![p] = b],
           m_file' = m_file \/ m_file' = [m_file EXCEPT ![p] = s],
           busy'[p] = "lock" => up'[p] = "up" /\ ~Writable(m_file'[p])
    PROVE  CannotWrite'
<1>1. /\ up' = [q \in Procs |-> up'[q]] /\ busy' = [q \in Procs |-> busy'[q]]
      /\ \A q \in Procs \ {p} : up'[q] = up[q] /\ busy'[q] = busy[q] /\ m_file'[q] = m_file[q]
  BY DEF CannotWrite, IInv
<1>2. ASSUME NEW q \in Procs, busy'[q] = "lock"
      PROVE  up'[q] = "up" /\ ~Writable(m_file'[q])
  BY <1>1, <1>2 DEF CannotWrite, Writable
<1>. QED  BY <1>1, <1>2 DEF CannotWrite

LEMMA SavesCannotWrite ==
    ASSUME IInv, CannotWrite, NEW p \in Procs, UNCHANGED up, busy[p] = "no",
           \/ (\E data : SaveData(p, data))
                 /\ (busy' = busy \/ busy' = [busy EXCEPT ![p] = "destructor"])
           \/ \E diff : FastSaveRecords(p, diff)
           \/ UNCHANGED <<m_file, busy>>
    PROVE  CannotWrite'
<1>1. CASE UNCHANGED <<m_file, busy>>
  BY <1>1 DEF CannotWrite, Writable
<1>2. ASSUME NEW data, SaveData(p, data),
             busy' = busy \/ busy' = [busy EXCEPT ![p] = "destructor"]
      PROVE  CannotWrite'
  <2>1. PICK s : m_file' = [m_file EXCEPT ![p] = s]
    BY <1>2 DEF SaveData
  <2>2. busy'[p] # "lock"
    BY <1>2 DEF CannotWrite
  <2>. QED  BY <1>2, <2>1, <2>2, CannotWriteOf
<1>3. ASSUME NEW diff, FastSaveRecords(p, diff)  PROVE CannotWrite'
  <2>1. PICK s : m_file' = [m_file EXCEPT ![p] = s]
    BY <1>3 DEF FastSaveRecords
  <2>2. busy' = [busy EXCEPT ![p] = "instant_save"] /\ busy'[p] # "lock"
    BY <1>3 DEF FastSaveRecords, CannotWrite
  <2>. QED  BY <2>1, <2>2, CannotWriteOf
<1>. QED  BY <1>1, <1>2, <1>3

LEMMA CannotWriteStep == IInv /\ CannotWrite /\ [Next]_vars => CannotWrite'
<1>. SUFFICES ASSUME IInv, CannotWrite, [Next]_vars PROVE CannotWrite'
  OBVIOUS
<1>1. ASSUME NEW p \in Procs, up[p] # "up", Gone(p) \/ Crash(p)  PROVE CannotWrite'
  <2>1. /\ up' = [up EXCEPT ![p] = "down"] /\ busy' = [busy EXCEPT ![p] = "no"]
        /\ m_file' = [m_file EXCEPT ![p] = Closed]
    BY <1>1 DEF Gone, Crash
  <2>2. busy'[p] # "lock"
    BY <2>1 DEF CannotWrite
  <2>. QED  BY <2>1, <2>2, CannotWriteOf
<1>2. ASSUME NEW p \in Procs, NEW pol, Create(p, pol)  PROVE CannotWrite'
  <2>1. busy[p] # "lock" /\ busy' = busy
    BY <1>2 DEF Create, CannotWrite
  <2>. QED  BY <1>2, <2>1, CannotWriteOf DEF Create
<1>3. ASSUME NEW p \in Procs, NEW pol, Open(p, pol)  PROVE CannotWrite'
  <2>1. busy[p] # "lock" /\ up[p] # "up"
    BY <1>3 DEF Open, CannotWrite
  <2>2. CASE Gone(p)
    BY <1>1, <2>1, <2>2
  <2>3. CASE ~Gone(p)
    <3>1. PICK s, u : /\ busy' = busy
                      /\ up' = [up EXCEPT ![p] = u]
                      /\ m_file' = m_file \/ m_file' = [m_file EXCEPT ![p] = s]
      BY <1>3, <2>3 DEF Open
    <3>. QED  BY <2>1, <3>1, CannotWriteOf
  <2>. QED  BY <2>2, <2>3
<1>4. ASSUME NEW p \in Procs,
             \/ \E k, v : AddKey(p, k, v)
             \/ \E k, src : CopyKey(p, k, src)
             \/ \E k : DeleteKey(p, k)
             \/ Save(p)
      PROVE  CannotWrite'
  <2>1. UNCHANGED up /\ busy[p] = "no"
    BY <1>4 DEF AddKey, CopyKey, DeleteKey, StoreKey, AutoSave, Save, Ready
  <2>2. \/ (\E data : SaveData(p, data)) /\ busy' = busy
        \/ \E diff : FastSaveRecords(p, diff)
        \/ UNCHANGED <<m_file, busy>>
    BY <1>4 DEF AddKey, CopyKey, DeleteKey, StoreKey, AutoSave, Save
  <2>. QED  BY <2>1, <2>2, SavesCannotWrite
<1>5. ASSUME NEW p \in Procs, Close(p)  PROVE CannotWrite'
  <2>1. CASE "ReadOnly" \in m_policy[p]
    <3>1. busy' = [busy EXCEPT ![p] = "destructor"] /\ UNCHANGED <<up, m_file>>
      BY <1>5, <2>1 DEF Close
    <3>2. busy'[p] # "lock"
      BY <3>1 DEF CannotWrite
    <3>. QED  BY <3>1, <3>2, CannotWriteOf
  <2>2. CASE "ReadOnly" \notin m_policy[p]
    BY <1>5, <2>2, SavesCannotWrite DEF Close, Ready
  <2>. QED  BY <2>1, <2>2
<1>6. ASSUME NEW p \in Procs, FastSaveHeader(p) \/ CloseEnd(p) \/ Crash(p) \/ LockWrite(p)
      PROVE  CannotWrite'
  <2>1. PICK u, s : /\ busy' = [busy EXCEPT ![p] = "no"]
                    /\ up' = up \/ up' = [up EXCEPT ![p] = u]
                    /\ m_file' = m_file \/ m_file' = [m_file EXCEPT ![p] = s]
    BY <1>6 DEF FastSaveHeader, CloseEnd, Crash, LockWrite, Gone
  <2>2. busy'[p] # "lock"
    BY <2>1 DEF CannotWrite
  <2>. QED  BY <2>1, <2>2, CannotWriteOf
<1>7. ASSUME NEW p \in Procs, Load(p)  PROVE CannotWrite'
  <2>1. busy' = busy /\ busy[p] = "no"
    BY <1>7 DEF Load, Ready
  <2>2. PICK s : /\ up' = up \/ up' = [up EXCEPT ![p] = "hung"]
                 /\ m_file' = m_file \/ m_file' = [m_file EXCEPT ![p] = s]
    BY <1>7 DEF Load
  <2>. QED  BY <2>1, <2>2, CannotWriteOf
<1>8. ASSUME NEW p \in Procs, Locked(p) \/ Release(p)  PROVE CannotWrite'
  <2>1. PICK s : m_file' = [m_file EXCEPT ![p] = s]
    BY <1>8 DEF Locked, Release
  <2>2. busy' = busy /\ busy[p] = "no" /\ up' = up
    BY <1>8 DEF Locked, Release, Ready
  <2>. QED  BY <2>1, <2>2, CannotWriteOf
<1>9. ASSUME NEW p \in Procs, Lock(p)  PROVE CannotWrite'
  <2>1. PICK b : busy' = [busy EXCEPT ![p] = b]
    BY <1>9 DEF Lock
  <2>2. m_file' = [m_file EXCEPT ![p] = AfterReadPolicy(file, m_file[p])]
    BY <1>9 DEF Lock
  <2>3. ~Writable(m_file'[p])
    BY <2>2, ReadPolicyStream DEF IInv
  <2>4. up' = up /\ up[p] = "up"
    BY <1>9 DEF Lock, Ready
  <2>. QED  BY <2>1, <2>2, <2>3, <2>4, CannotWriteOf
<1>10. CASE UNCHANGED vars
  BY <1>10 DEF vars, CannotWrite, Writable
<1>. QED  BY <1>2, <1>3, <1>4, <1>5, <1>6, <1>7, <1>8, <1>9, <1>10 DEF Next, Done

LEMMA GoodIsUnlocked == ASSUME NEW f, Good(f) PROVE HeadersUnlocked(f)
<1>1. ASSUME NEW c, GoodChunk(c), c.kind = "hdr"  PROVE "WriteLock" \notin c.pol
  BY <1>1 DEF GoodChunk, Junk
<1>. QED  BY <1>1 DEF Good, HeadersUnlocked

LEMMA IInvLockNeverPublished == IInv => LockNeverPublished
BY GoodIsUnlocked DEF IInv, LockNeverPublished, StreamOK

\* lock() and try_lock() never reach the file, for any number of programs: if no
\* caller puts WriteLock into a constructor's policy, then whatever sequence of
\* calls, saves, reloads and crashes the programs make, no header on disk or in
\* a buffer has the WriteLock bit, so no program is ever kept out by another.
THEOREM NoLockIsPublished == Spec => []LockNeverPublished
<1>1. CASE NoLockPolicy
  <2>1. IInv /\ CannotWrite /\ [Next]_vars => (IInv /\ CannotWrite)'
    BY <1>1, NextIInv, CannotWriteStep
  <2>. QED  BY <2>1, InitIInv, CannotWriteInit, IInvLockNeverPublished, PTL DEF Spec
<1>2. CASE ~NoLockPolicy
  <2>1. LockNeverPublished
    BY <1>2 DEF NoLockPolicy, LockNeverPublished
  <2>. QED  BY <2>1, PTL
<1>. QED  BY <1>1, <1>2

-----------------------------------------------------------------------------
(* The loop of load(), as a function of the number of records read. *)

LEMMA LeastOf ==
    ASSUME NEW S, S \subseteq Nat, S # {}
    PROVE  \E n \in S : \A m \in S : ~(m < n)
<1>1. PICK n \in S : \A m \in S : ~(<<m, n>> \in OpToRel(<, Nat))
  BY NatLessThanWellFounded, WFMin
<1>. QED  BY <1>1 DEF OpToRel

Start(f) == [i |-> 0, count |-> f[HdrPos].count, pos |-> HdrPos, data |-> <<>>]
Turn(f, s, n) ==
    IF Continues(s) /\ f[n+1].kind = "rec" /\ s.pos = n
    THEN ReadRecord(s, f[n+1], n+1) ELSE s
IsLoop(f, N, st) == st = [n \in 0..N |-> IF n = 0 THEN Start(f) ELSE Turn(f, st[n-1], n)]

LEMMA LoopExtends ==
    ASSUME NEW f, NEW N \in Nat, NEW st, IsLoop(f, N, st)
    PROVE  \E new : IsLoop(f, N + 1, new)
<1>. DEFINE new == [n \in 0..(N + 1) |-> IF n <= N THEN st[n] ELSE Turn(f, st[N], N + 1)]
            again == [n \in 0..(N + 1) |-> IF n = 0 THEN Start(f) ELSE Turn(f, new[n-1], n)]
<1>1. \A n \in 0..N : st[n] = IF n = 0 THEN Start(f) ELSE Turn(f, st[n-1], n)
  BY DEF IsLoop
<1>2. \A n \in 0..(N + 1) : new[n] = again[n]
  <2> SUFFICES ASSUME NEW n \in 0..(N + 1)
               PROVE  new[n] = again[n]
    OBVIOUS
  <2>1. CASE n = 0
    BY <1>1, <2>1
  <2>2. CASE n # 0 /\ n <= N
    <3>1. n - 1 \in 0..N /\ n - 1 \in 0..(N + 1) /\ n - 1 <= N /\ n \in 0..N
      BY <2>2
    <3>2. new[n-1] = st[n-1] /\ new[n] = st[n]
      BY <2>2, <3>1
    <3>. QED  BY <1>1, <2>2, <3>1, <3>2
  <2>3. CASE n = N + 1
    <3>1. N \in 0..(N + 1) /\ n - 1 = N /\ n # 0 /\ ~(n <= N)
      BY <2>3
    <3>2. new[n-1] = st[N] /\ new[n] = Turn(f, st[N], N + 1)
      BY <2>3, <3>1
    <3>. QED  BY <2>3, <3>1, <3>2
  <2>. QED  BY <2>1, <2>2, <2>3
<1>3. new = again
  BY <1>2
<1>. HIDE DEF new
<1>. QED  BY <1>3 DEF IsLoop

LEMMA LoopExists ==
    ASSUME NEW f, NEW N \in Nat
    PROVE  \E st : IsLoop(f, N, st)
<1>. DEFINE Bad == {n \in Nat : ~ \E st : IsLoop(f, n, st)}
<1> SUFFICES ASSUME Bad # {}
             PROVE  FALSE
  OBVIOUS
<1>1. PICK n \in Bad : \A m \in Bad : ~(m < n)
  <2>1. Bad \subseteq Nat
    OBVIOUS
  <2>. HIDE DEF Bad
  <2>. QED  BY <2>1, LeastOf
<1>2. CASE n = 0
  <2>1. IsLoop(f, 0, [m \in 0..0 |-> Start(f)])
    BY DEF IsLoop
  <2>. QED  BY <1>2, <2>1
<1>3. CASE n # 0
  <2>1. n - 1 \in Nat /\ n - 1 < n
    BY <1>3
  <2>2. PICK st : IsLoop(f, n - 1, st)
    BY <1>1, <2>1
  <2>3. \E new : IsLoop(f, (n - 1) + 1, new)
    BY <2>1, <2>2, LoopExtends
  <2>4. (n - 1) + 1 = n
    OBVIOUS
  <2>. QED  BY <2>3, <2>4
<1>. QED  BY <1>2, <1>3

LEMMA LoopIs ==
    ASSUME NEW f, Len(f) \in Nat \ {0}
    PROVE  \E st : IsLoop(f, Len(f) - 1, st) /\ LoopState(f) = st[Len(f) - 1]
<1>1. Len(f) - 1 \in Nat
  OBVIOUS
<1>2. \E st : IsLoop(f, Len(f) - 1, st)
  BY <1>1, LoopExists
<1>. DEFINE st == CHOOSE st : IsLoop(f, Len(f) - 1, st)
<1>3. IsLoop(f, Len(f) - 1, st)
  BY <1>2
<1>4. LoopState(f) = st[Len(f) - 1]
  BY DEF LoopState, IsLoop, Start, Turn
<1>. QED  BY <1>3, <1>4

-----------------------------------------------------------------------------
(* The keys of a map, in order. *)

LEMMA PresentIs ==
    ASSUME NEW m
    PROVE  /\ IsFiniteSet(Present(m)) /\ Cardinality(Present(m)) \in Nat
           /\ Present(m) \subseteq DOMAIN KeyOrder /\ DOMAIN KeyOrder \subseteq Nat
<1>1. DOMAIN KeyOrder = 1..Len(KeyOrder) /\ Len(KeyOrder) \in Nat
  BY ConstantsAssumption, LenProperties DEF ConstantsAssumption
<1>2. Present(m) \subseteq 1..Len(KeyOrder) /\ IsFiniteSet(1..Len(KeyOrder))
  BY <1>1, FS_Interval DEF Present
<1>3. IsFiniteSet(Present(m))
  BY <1>2, FS_Subset
<1>. QED  BY <1>1, <1>2, <1>3, FS_CardinalityType

Rank(m, i) == Cardinality({j \in Present(m) : j <= i})

LEMMA RankIs ==
    ASSUME NEW m
    PROVE  /\ \A i \in Present(m) : Rank(m, i) \in 1..Cardinality(Present(m))
           /\ \A i, k \in Present(m) : Rank(m, i) = Rank(m, k) => i = k
<1>. DEFINE Exist == Present(m)
            Upto(i) == {j \in Exist : j <= i}
<1>1. IsFiniteSet(Exist) /\ Exist \subseteq Nat /\ Cardinality(Exist) \in Nat
  BY PresentIs
<1>2. \A i \in Exist : /\ IsFiniteSet(Upto(i)) /\ Upto(i) \subseteq Exist /\ i \in Upto(i)
                   /\ Cardinality(Upto(i)) \in Nat /\ Cardinality(Upto(i)) <= Cardinality(Exist)
  <2> SUFFICES ASSUME NEW i \in Exist
               PROVE  /\ IsFiniteSet(Upto(i)) /\ Upto(i) \subseteq Exist /\ i \in Upto(i)
                      /\ Cardinality(Upto(i)) \in Nat /\ Cardinality(Upto(i)) <= Cardinality(Exist)
    OBVIOUS
  <2>1. Upto(i) \in SUBSET Exist /\ i \in Upto(i)
    BY <1>1
  <2>. HIDE DEF Exist, Upto
  <2>2. IsFiniteSet(Upto(i)) /\ Cardinality(Upto(i)) <= Cardinality(Exist)
    BY <1>1, <2>1, FS_Subset
  <2>. QED  BY <2>1, <2>2, FS_CardinalityType
<1>3. \A i \in Exist : Cardinality(Upto(i)) \in 1..Cardinality(Exist)
  <2> SUFFICES ASSUME NEW i \in Exist
               PROVE  Cardinality(Upto(i)) # 0
    BY <1>1, <1>2
  <2>. HIDE DEF Exist, Upto
  <2>. QED  BY <1>2, FS_EmptySet
<1>4. \A i, k \in Exist : i < k => Cardinality(Upto(i)) # Cardinality(Upto(k))
  <2> SUFFICES ASSUME NEW i \in Exist, NEW k \in Exist, i < k, Cardinality(Upto(i)) = Cardinality(Upto(k))
               PROVE  FALSE
    OBVIOUS
  <2>1. Upto(i) \in SUBSET Upto(k) /\ k \in Upto(k) /\ k \notin Upto(i)
    BY <1>1
  <2>. HIDE DEF Exist, Upto
  <2>2. Upto(k) = Upto(i)
    BY <1>2, <2>1, FS_Subset
  <2>. QED  BY <2>1, <2>2
<1>5. \A i \in Exist : Rank(m, i) = Cardinality(Upto(i))
  BY DEF Rank
<1>6. \A i, k \in Exist : Rank(m, i) = Rank(m, k) => i = k
  <2> SUFFICES ASSUME NEW i \in Exist, NEW k \in Exist, Rank(m, i) = Rank(m, k), i # k
               PROVE  FALSE
    OBVIOUS
  <2>1. (i < k \/ k < i) /\ Cardinality(Upto(i)) = Cardinality(Upto(k))
    BY <1>1, <1>5
  <2>. HIDE DEF Exist, Upto
  <2>. QED  BY <1>4, <2>1
<1>. QED  BY <1>3, <1>5, <1>6

LEMMA EveryRank ==
    ASSUME NEW m, NEW n \in 1..Cardinality(Present(m))
    PROVE  \E i \in Present(m) : Rank(m, i) = n
<1>. DEFINE Exist == Present(m)
            T == (1..Cardinality(Exist)) \ {n}
            rank == [i \in Exist |-> Rank(m, i)]
<1> SUFFICES ASSUME \A i \in Exist : Rank(m, i) # n
             PROVE  FALSE
  OBVIOUS
<1>1. IsFiniteSet(Exist) /\ Cardinality(Exist) \in Nat
  BY PresentIs
<1>2. IsFiniteSet(1..Cardinality(Exist)) /\ Cardinality(1..Cardinality(Exist)) = Cardinality(Exist)
  BY <1>1, FS_Interval
<1>3. IsFiniteSet(T) /\ Cardinality(T) = Cardinality(Exist) - 1
  BY <1>2, FS_RemoveElement
<1>4. rank \in [Exist -> T]
  BY RankIs
<1>5. \A x, y \in Exist : rank[x] = rank[y] => x = y
  BY RankIs
<1>6. Cardinality(T) < Cardinality(Exist)
  BY <1>1, <1>3
<1>. HIDE DEF Exist, T, rank
<1>. QED  BY <1>1, <1>3, <1>4, <1>5, <1>6, FS_PigeonHole

\* The keys of m that there are, each once.
LEMMA NthKeyIs ==
    ASSUME NEW m
    PROVE  LET n == Cardinality(Present(m))
           IN  /\ \A j \in 1..n : NthKey(m, j) \in DOMAIN m \cap Keys
               /\ \A i, j \in 1..n : NthKey(m, i) = NthKey(m, j) => i = j
               /\ \A k \in DOMAIN m \cap Keys : \E j \in 1..n : NthKey(m, j) = k
<1>. DEFINE n == Cardinality(Present(m))
            At(j) == CHOOSE i \in Present(m) : Rank(m, i) = j
<1>1. \A j \in 1..n : At(j) \in Present(m) /\ Rank(m, At(j)) = j
  BY EveryRank
<1>2. \A j : NthKey(m, j) = KeyOrder[At(j)]
  BY DEF NthKey, Rank
<1>3. \A i \in Present(m) : At(Rank(m, i)) = i /\ Rank(m, i) \in 1..n
  <2>1. \A i \in Present(m) : Rank(m, i) \in 1..n
    BY RankIs
  <2>. HIDE DEF n, At
  <2>. QED  BY <1>1, <2>1, RankIs
<1>. HIDE DEF n, At
<1>4. \A j \in 1..n : NthKey(m, j) \in DOMAIN m \cap Keys
  BY <1>1, <1>2 DEF Present, Keys
<1>5. \A i, j \in 1..n : NthKey(m, i) = NthKey(m, j) => i = j
  <2> SUFFICES ASSUME NEW i \in 1..n, NEW j \in 1..n, KeyOrder[At(i)] = KeyOrder[At(j)]
               PROVE  i = j
    BY <1>2
  <2>1. At(i) \in DOMAIN KeyOrder /\ At(j) \in DOMAIN KeyOrder
    BY <1>1 DEF Present
  <2>2. At(i) = At(j)
    BY <2>1, ConstantsAssumption DEF ConstantsAssumption
  <2>. QED  BY <1>1, <2>2
<1>6. \A k \in DOMAIN m \cap Keys : \E j \in 1..n : NthKey(m, j) = k
  <2> SUFFICES ASSUME NEW k \in DOMAIN m \cap Keys
               PROVE  \E j \in 1..n : NthKey(m, j) = k
    OBVIOUS
  <2>1. PICK i \in Present(m) : KeyOrder[i] = k
    BY DEF Keys, Present
  <2>. QED  BY <1>2, <1>3, <2>1
<1>. QED  BY <1>4, <1>5, <1>6 DEF n

-----------------------------------------------------------------------------
(* Types of files. *)

LEMMA ChunkTypes ==
    /\ \A pol : \A n \in Nat : Header(pol, n) \in Chunks
    /\ \A k \in Keys, v \in Values : Record(k, v) \in Chunks /\ DeletedRecord(k, v) \in Chunks
    /\ Junk \in Chunks
BY DEF Header, Record, DeletedRecord, Chunks, Headers, Records, Junk

LEMMA ChunkKinds ==
    ASSUME NEW c \in Chunks
    PROVE  /\ c.kind = "hdr" => c \in Headers /\ c.pol \subseteq LibFlags /\ c.count \in Nat
           /\ c.kind = "rec" => c \in Records /\ c.key \in Keys /\ c.val \in Values /\ c.del \in BOOLEAN
BY DEF Chunks, Headers, Records, Junk

LEMMA FirstChunk ==
    ASSUME NEW f \in Seq(Chunks), HasHeader(f)
    PROVE  /\ Len(f) \in Nat \ {0} /\ 1 \in 1..Len(f) /\ f[HdrPos] \in Chunks /\ f[HdrPos].kind = "hdr"
           /\ f[HdrPos].pol \subseteq LibFlags /\ f[HdrPos].count \in Nat
<1>1. Len(f) \in Nat /\ Len(f) # 0
  BY LenProperties, EmptySeq DEF HasHeader
<1>2. f[1] \in Chunks /\ 1 \in 1..Len(f)
  BY <1>1, ElementOfSeq
<1>. QED  BY <1>1, <1>2, ChunkKinds DEF HasHeader, HdrPos

LEMMA TypedOverlay ==
    ASSUME NEW f \in Seq(Chunks), NEW s \in Seq(Chunks), NEW pos \in Nat \ {0}
    PROVE  Overlay(f, pos, s) \in Seq(Chunks)
<1>. DEFINE last == pos - 1 + Len(s)
            n == IF last > Len(f) THEN last ELSE Len(f)
            g == [i \in 1..n |-> IF i \in pos..last THEN s[i - pos + 1]
                                 ELSE IF i <= Len(f) THEN f[i] ELSE Junk]
<1>1. Len(f) \in Nat /\ Len(s) \in Nat
  BY LenProperties
<1>2. n \in Nat
  BY <1>1
<1>3. \A i \in 1..n : g[i] \in Chunks
  <2> SUFFICES ASSUME NEW i \in 1..n
               PROVE  g[i] \in Chunks
    OBVIOUS
  <2>1. CASE i \in pos..last
    <3>1. i - pos + 1 \in 1..Len(s)
      BY <1>1, <2>1
    <3>2. s[i - pos + 1] \in Chunks
      BY <3>1, ElementOfSeq
    <3>. QED  BY <2>1, <3>2
  <2>2. CASE i \notin pos..last /\ i <= Len(f)
    <3>1. i \in 1..Len(f)
      BY <1>1, <2>2
    <3>2. f[i] \in Chunks
      BY <3>1, ElementOfSeq
    <3>. QED  BY <2>2, <3>2
  <2>3. CASE i \notin pos..last /\ ~(i <= Len(f))
    BY <2>3, ChunkTypes
  <2>. QED  BY <2>1, <2>2, <2>3
<1>4. Overlay(f, pos, s) = g
  BY DEF Overlay
<1>5. g \in [1..n -> Chunks]
  BY <1>3
<1>. HIDE DEF g, n
<1>. QED  BY <1>2, <1>4, <1>5, IsASeq

LEMMA TypedMarked ==
    ASSUME NEW f \in Seq(Chunks), NEW offs
    PROVE  Marked(f, offs) \in Seq(Chunks)
<1>. DEFINE g == [i \in DOMAIN f |-> IF i \notin offs THEN f[i]
                                     ELSE IF f[i].kind = "rec"
                                     THEN DeletedRecord(f[i].key, f[i].val) ELSE Junk]
<1>1. Len(f) \in Nat /\ DOMAIN f = 1..Len(f)
  BY LenProperties
<1>2. \A i \in 1..Len(f) : g[i] \in Chunks
  <2> SUFFICES ASSUME NEW i \in 1..Len(f)
               PROVE  g[i] \in Chunks
    OBVIOUS
  <2>1. f[i] \in Chunks
    BY ElementOfSeq
  <2>2. f[i].kind = "rec" => DeletedRecord(f[i].key, f[i].val) \in Chunks
    BY <2>1, ChunkKinds, ChunkTypes
  <2>. QED  BY <1>1, <2>1, <2>2, ChunkTypes
<1>3. g \in [1..Len(f) -> Chunks]
  BY <1>1, <1>2
<1>. HIDE DEF g
<1>4. g \in Seq(Chunks)
  BY <1>1, <1>3, IsASeq
<1>5. Append(g, Junk) \in Seq(Chunks)
  BY <1>4, ChunkTypes, AppendProperties
<1>. QED  BY <1>4, <1>5 DEF Marked, g

LEMMA TypedRecords ==
    ASSUME NEW m, \A k \in DOMAIN m \cap Keys : m[k].val \in Values
    PROVE  RecordsOf(m) \in Seq(Chunks) /\ Len(RecordsOf(m)) = Cardinality(Present(m))
<1>. DEFINE n == Cardinality(Present(m))
            g == [j \in 1..n |-> Record(NthKey(m, j), m[NthKey(m, j)].val)]
<1>1. n \in Nat
  BY PresentIs
<1>2. \A j \in 1..n : NthKey(m, j) \in DOMAIN m \cap Keys
  BY NthKeyIs
<1>3. \A j \in 1..n : g[j] \in Chunks
  BY <1>2, ChunkTypes
<1>4. RecordsOf(m) = g
  BY DEF RecordsOf
<1>5. g \in [1..n -> Chunks]
  BY <1>3
<1>. HIDE DEF g, n
<1>6. g \in Seq(Chunks) /\ Len(g) = n
  <2>1. g \in Seq(Chunks)
    BY <1>1, <1>5, IsASeq
  <2>2. DOMAIN g = 1..n /\ DOMAIN g = 1..Len(g) /\ Len(g) \in Nat
    BY <1>5, <2>1, LenProperties
  <2>. QED  BY <1>1, <2>1, <2>2
<1>. QED  BY <1>4, <1>6 DEF n

LEMMA TypedImage ==
    ASSUME NEW pol, NEW m, \A k \in DOMAIN m \cap Keys : m[k].val \in Values
    PROVE  /\ Image(pol, m) \in Seq(Chunks) /\ Len(Image(pol, m)) = Cardinality(Present(m)) + 1
           /\ Cardinality(Present(m)) \in Nat
           /\ Image(pol, m)[1] = Header(pol, Cardinality(Present(m)))
           /\ \A j \in 1..Cardinality(Present(m)) : Image(pol, m)[j + 1] = RecordsOf(m)[j]
<1>. DEFINE n == Cardinality(Present(m))
            h == <<Header(pol, n)>>
<1>1. n \in Nat
  BY PresentIs
<1>2. h \in Seq(Chunks) /\ Len(h) = 1 /\ h[1] = Header(pol, n)
  <2>1. Header(pol, n) \in Chunks
    BY <1>1, ChunkTypes
  <2>. HIDE DEF n
  <2>. QED  BY <2>1
<1>3. PICK r : r = RecordsOf(m)
  OBVIOUS
<1>4. r \in Seq(Chunks) /\ Len(r) = n
  BY <1>3, TypedRecords
<1>. HIDE DEF n, h
<1>5. /\ h \o r \in Seq(Chunks) /\ Len(h \o r) = 1 + n
      /\ \A i \in 1..(1 + n) : (h \o r)[i] = IF i <= 1 THEN h[i] ELSE r[i - 1]
  <2>1. /\ h \o r \in Seq(Chunks) /\ Len(h \o r) = Len(h) + Len(r)
        /\ \A i \in 1..(Len(h) + Len(r)) : (h \o r)[i] = IF i <= Len(h) THEN h[i] ELSE r[i - Len(h)]
    BY <1>2, <1>4, ConcatProperties
  <2>. QED  BY <1>2, <1>4, <2>1
<1>6. (h \o r)[1] = h[1]
  BY <1>1, <1>5
<1>7. \A j \in 1..n : (h \o r)[j + 1] = r[j]
  <2> SUFFICES ASSUME NEW j \in 1..n
               PROVE  (h \o r)[j + 1] = r[j]
    OBVIOUS
  <2>1. j + 1 \in 1..(1 + n) /\ ~(j + 1 <= 1) /\ (j + 1) - 1 = j
    BY <1>1
  <2>. QED  BY <1>5, <2>1
<1>8. Image(pol, m) = h \o r
  BY <1>3 DEF Image, h, n
<1>9. 1 + n = n + 1
  BY <1>1
<1>. QED  BY <1>1, <1>2, <1>3, <1>5, <1>6, <1>7, <1>8, <1>9 DEF n

-----------------------------------------------------------------------------
(* Types of streams. *)

Streams == [mode : {"closed", "in", "out"}, st : {"good", "eof", "fail"}, pos : Nat \ {0}, buf : Seq(Chunks)]

LEMMA StreamTypes ==
    /\ Closed \in Streams
    /\ \A st \in {"good", "eof", "fail"} : OpenIn(st) \in Streams
    /\ \A pos \in Nat \ {0}, buf \in Seq(Chunks) : OpenOut(pos, buf) \in Streams
BY EmptySeq DEF Closed, OpenIn, OpenOut, Streams, HdrPos

LEMMA TypedFlush ==
    ASSUME NEW f \in Seq(Chunks), NEW s \in Streams
    PROVE  FlushedFile(f, s) \in Seq(Chunks) /\ FlushedStream(s) \in Streams
<1>1. s.pos \in Nat \ {0} /\ s.buf \in Seq(Chunks)
  BY DEF Streams
<1>2. FlushedFile(f, s) \in Seq(Chunks)
  BY <1>1, TypedOverlay DEF FlushedFile
<1>3. FlushedStream(s) \in Streams
  BY EmptySeq DEF FlushedStream, Streams
<1>. QED  BY <1>2, <1>3

LEMMA TypedReadPolicy ==
    ASSUME NEW f, NEW s \in Streams
    PROVE  AfterReadPolicy(f, s) \in Streams
BY EmptySeq DEF AfterReadPolicy, Streams

LEMMA TypedWritePolicy ==
    ASSUME NEW s \in Streams
    PROVE  AfterWritePolicy(s) \in Streams
<1>1. FlushedStream(s) \in Streams
  BY EmptySeq DEF FlushedStream, Streams
<1>2. [s EXCEPT !.st = "fail"] \in Streams
  BY DEF Streams
<1>. QED  BY <1>1, <1>2 DEF AfterWritePolicy

LEMMA TypedPolicyFile ==
    ASSUME NEW f \in Seq(Chunks), NEW s \in Streams, NEW pol
    PROVE  WrittenPolicy(f, s, pol) \in Seq(Chunks)
<1>1. PICK g : g = FlushedFile(f, s)
  OBVIOUS
<1>2. g \in Seq(Chunks)
  BY <1>1, TypedFlush
<1>3. CASE Writable(s) /\ HasHeader(g)
  <2>1. Len(g) \in Nat /\ 1 \in 1..Len(g) /\ g[1] \in Chunks /\ g[1].kind = "hdr"
    BY <1>2, <1>3, FirstChunk DEF HdrPos
  <2>2. g[1] \in Headers
    BY <2>1, ChunkKinds
  <2>3. [g[1] EXCEPT !.pol = pol \cap LibFlags] \in Chunks
    BY <2>2 DEF Headers, Chunks
  <2>4. [g EXCEPT ![1] = [g[1] EXCEPT !.pol = pol \cap LibFlags]] \in Seq(Chunks)
    BY <1>2, <2>1, <2>3, ExceptSeq
  <2>5. WrittenPolicy(f, s, pol) = [g EXCEPT ![1] = [g[1] EXCEPT !.pol = pol \cap LibFlags]]
    BY <1>1, <1>3 DEF WrittenPolicy, HdrPos
  <2>. QED  BY <2>4, <2>5
<1>4. CASE ~(Writable(s) /\ HasHeader(g))
  BY <1>1, <1>2, <1>4 DEF WrittenPolicy
<1>. QED  BY <1>3, <1>4

-----------------------------------------------------------------------------
(* Types of what load() makes. *)

DataOK(d) == DOMAIN d \subseteq Keys /\ \A k \in DOMAIN d : d[k] \in [val : Values, off : Nat]
DiffOK(d) == DOMAIN d \subseteq Keys /\ \A k \in DOMAIN d : d[k] \in [val : Values, off : Nat, del : BOOLEAN]

LoopOK(s) ==
    /\ s = [i |-> s.i, count |-> s.count, pos |-> s.pos, data |-> s.data]
    /\ s.i \in Int /\ s.count \in Int /\ s.pos \in Nat /\ DataOK(s.data)

LEMMA EmptyData == DataOK(<<>>) /\ DiffOK(<<>>)
BY DEF DataOK, DiffOK

Again(s, r) == IF r.key \in DOMAIN s.data THEN 1 ELSE 0
Stored(s, r, at) ==
    [k \in DOMAIN s.data \cup {r.key} |-> IF k = r.key THEN [val |-> r.val, off |-> at] ELSE s.data[k]]

LEMMA ReadRecordIs ==
    ASSUME NEW s, s = [i |-> s.i, count |-> s.count, pos |-> s.pos, data |-> s.data], NEW r, NEW at
    PROVE  ReadRecord(s, r, at) =
              IF r.del
              THEN [i |-> s.i - Again(s, r), count |-> s.count - 1, pos |-> at, data |-> s.data]
              ELSE [i |-> s.i - Again(s, r) + 1, count |-> s.count, pos |-> at, data |-> Stored(s, r, at)]
<1>1. PICK i, count, pos, data : s = [i |-> i, count |-> count, pos |-> pos, data |-> data]
  OBVIOUS
<1>2. s.i = i /\ s.count = count /\ s.pos = pos /\ s.data = data
  BY <1>1
<1>3. ASSUME NEW a, NEW c
      PROVE  [s EXCEPT !.i = a, !.count = c, !.pos = at] = [i |-> a, count |-> c, pos |-> at, data |-> data]
  <2>. DEFINE t == [s EXCEPT !.i = a, !.count = c, !.pos = at]
              u == [i |-> a, count |-> c, pos |-> at, data |-> data]
              D == {"i", "count", "pos", "data"}
  <2>1. t = [x \in D |-> IF x = "i" THEN a ELSE IF x = "count" THEN c ELSE IF x = "pos" THEN at ELSE s[x]]
    BY <1>1
  <2>2. u = [x \in D |-> u[x]] /\ t = [x \in D |-> t[x]]
    BY <2>1
  <2>3. \A x \in D : t[x] = u[x]
    BY <1>1, <2>1
  <2>4. t = u
    <3>. HIDE DEF t, u
    <3>. QED  BY <2>2, <2>3
  <2>. QED  BY <2>4
<1>5. ASSUME NEW a, NEW d
      PROVE  [s EXCEPT !.i = a, !.pos = at, !.data = d] = [i |-> a, count |-> count, pos |-> at, data |-> d]
  <2>. DEFINE t == [s EXCEPT !.i = a, !.pos = at, !.data = d]
              u == [i |-> a, count |-> count, pos |-> at, data |-> d]
              D == {"i", "count", "pos", "data"}
  <2>1. t = [x \in D |-> IF x = "i" THEN a ELSE IF x = "pos" THEN at ELSE IF x = "data" THEN d ELSE s[x]]
    BY <1>1
  <2>2. u = [x \in D |-> u[x]] /\ t = [x \in D |-> t[x]]
    BY <2>1
  <2>3. \A x \in D : t[x] = u[x]
    BY <1>1, <2>1
  <2>4. t = u
    <3>. HIDE DEF t, u
    <3>. QED  BY <2>2, <2>3
  <2>. QED  BY <2>4
<1>4. ReadRecord(s, r, at) =
         IF r.del THEN [s EXCEPT !.i = i - Again(s, r), !.count = count - 1, !.pos = at]
         ELSE [s EXCEPT !.i = i - Again(s, r) + 1, !.pos = at, !.data = Stored(s, r, at)]
  BY <1>2 DEF ReadRecord, Again, Stored
<1>. QED  BY <1>2, <1>3, <1>4, <1>5

LEMMA TurnType ==
    ASSUME NEW f \in Seq(Chunks), NEW n \in 1..(Len(f) - 1), NEW s, LoopOK(s)
    PROVE  LoopOK(Turn(f, s, n))
<1>1. Len(f) \in Nat /\ n \in Nat /\ n + 1 \in 1..Len(f)
  BY LenProperties
<1>2. PICK r : r = f[n + 1]
  OBVIOUS
<1>3. r \in Chunks
  BY <1>1, <1>2, ElementOfSeq
<1>4. CASE r.kind = "rec" /\ Turn(f, s, n) = ReadRecord(s, r, n + 1)
  <2>1. r.key \in Keys /\ r.val \in Values
    BY <1>3, <1>4, ChunkKinds
  <2>2. Again(s, r) \in {0, 1}
    BY DEF Again
  <2>3. DataOK(Stored(s, r, n + 1))
    <3>1. [val |-> r.val, off |-> n + 1] \in [val : Values, off : Nat]
      BY <1>1, <2>1
    <3>. QED  BY <2>1, <3>1 DEF Stored, DataOK, LoopOK
  <2>4. CASE r.del
    <3>1. Turn(f, s, n) = [i |-> s.i - Again(s, r), count |-> s.count - 1, pos |-> n + 1, data |-> s.data]
      BY <1>4, <2>4, ReadRecordIs DEF LoopOK
    <3>. QED  BY <1>1, <2>2, <3>1 DEF LoopOK
  <2>5. CASE ~r.del
    <3>1. Turn(f, s, n) = [i |-> s.i - Again(s, r) + 1, count |-> s.count, pos |-> n + 1, data |-> Stored(s, r, n + 1)]
      BY <1>4, <2>5, ReadRecordIs DEF LoopOK
    <3>. QED  BY <1>1, <2>2, <2>3, <3>1 DEF LoopOK
  <2>. QED  BY <2>4, <2>5
<1>5. CASE Turn(f, s, n) = s
  BY <1>5
<1>. QED  BY <1>2, <1>4, <1>5 DEF Turn

LEMMA LoopType ==
    ASSUME NEW f \in Seq(Chunks), HasHeader(f)
    PROVE  LoopOK(LoopState(f))
<1>1. Len(f) \in Nat \ {0} /\ f[HdrPos].count \in Nat
  BY FirstChunk
<1>2. PICK st : IsLoop(f, Len(f) - 1, st) /\ LoopState(f) = st[Len(f) - 1]
  BY <1>1, LoopIs
<1>3. /\ st[0] = Start(f)
      /\ \A n \in 1..(Len(f) - 1) : st[n] = Turn(f, st[n-1], n)
  BY <1>1, <1>2 DEF IsLoop
<1>. DEFINE Bad == {n \in 0..(Len(f) - 1) : ~LoopOK(st[n])}
<1>4. Bad = {}
  <2> SUFFICES ASSUME Bad # {}
               PROVE  FALSE
    OBVIOUS
  <2>1. PICK n \in Bad : \A m \in Bad : ~(m < n)
    <3>1. Bad \subseteq Nat
      BY <1>1
    <3>. HIDE DEF Bad
    <3>. QED  BY <3>1, LeastOf
  <2>2. n # 0
    <3>1. LoopOK(Start(f))
      BY <1>1, EmptyData DEF Start, LoopOK, HdrPos
    <3>. QED  BY <1>3, <3>1
  <2>3. n - 1 \in 0..(Len(f) - 1) /\ n \in 1..(Len(f) - 1) /\ n - 1 < n
    BY <1>1, <2>2
  <2>4. LoopOK(st[n - 1])
    BY <2>1, <2>3
  <2>. QED  BY <1>3, <2>3, <2>4, TurnType
<1>5. Len(f) - 1 \in 0..(Len(f) - 1)
  BY <1>1
<1>. QED  BY <1>2, <1>4, <1>5

LEMMA LoadType ==
    ASSUME NEW f \in Seq(Chunks), NEW pol, NEW own, NEW o \in LoadOutcomes(f, pol, own)
    PROVE  /\ DataOK(o.data) /\ o.st \in {"good", "eof", "fail"}
           /\ o.rc \in {"Success", "Corrupted"} => f[HdrPos].pol \subseteq LibFlags
<1>1. CASE ~HasHeader(f)
  BY <1>1, EmptyData DEF LoadOutcomes
<1>2. CASE HasHeader(f)
  <2>1. f[HdrPos].pol \subseteq LibFlags
    BY <1>2, FirstChunk
  <2>2. PICK s : s = LoopState(f)
    OBVIOUS
  <2>3. DataOK(s.data)
    BY <1>2, <2>2, LoopType DEF LoopOK
  <2>4. \A d \in Garbled(s.data) : DataOK(d)
    <3>1. NulKey \in Keys /\ [val |-> NulVal, off |-> HdrPos] \in [val : Values, off : Nat]
      BY ConstantsAssumption DEF ConstantsAssumption, Values, HdrPos
    <3>. QED  BY <2>3, <3>1 DEF Garbled, DataOK
  <2>5. \/ o \in {[rc |-> "Locked", data |-> <<>>, st |-> "good"],
                  [rc |-> "Success", data |-> s.data, st |-> "eof"],
                  [rc |-> "Corrupted", data |-> s.data, st |-> "good"],
                  [rc |-> "Hang", data |-> <<>>, st |-> "fail"]}
        \/ \E d \in Garbled(s.data) : o = [rc |-> "Success", data |-> d, st |-> "fail"]
    BY <1>2, <2>2 DEF LoadOutcomes
  <2>. QED  BY <2>1, <2>3, <2>4, <2>5, EmptyData
<1>. QED  BY <1>1, <1>2

-----------------------------------------------------------------------------
(* The type invariant: TypeOK with its functions, and positions above 0. *)

FileType == exists \in BOOLEAN /\ file \in Seq(Chunks)
DataType == m_data = [p \in Procs |-> m_data[p]] /\ \A p \in Procs : DataOK(m_data[p])
DiffType == m_data_diff = [p \in Procs |-> m_data_diff[p]] /\ \A p \in Procs : DiffOK(m_data_diff[p])
StreamType == m_file \in [Procs -> Streams]
ObjectType ==
    /\ up \in [Procs -> {"down", "up", "hung"}]
    /\ m_policy \in [Procs -> SUBSET Flags]
    /\ m_ownlock \in [Procs -> BOOLEAN]
    /\ busy \in [Procs -> BusyCalls]
HistoryType == DOMAIN acked \subseteq Keys /\ opens \in 0..MaxOpens

TypeInv == FileType /\ DataType /\ DiffType /\ StreamType /\ ObjectType /\ HistoryType

LEMMA TypeInvIsTypeOK == TypeInv => TypeOK
<1> SUFFICES ASSUME TypeInv
             PROVE  TypeOK
  OBVIOUS
<1>1. ASSUME NEW p \in Procs
      PROVE  m_file[p] \in [mode : {"closed", "in", "out"}, st : {"good", "eof", "fail"},
                            pos : Nat, buf : Seq(Chunks)]
  <2>1. m_file[p] \in Streams
    BY DEF TypeInv, StreamType
  <2>. QED  BY <2>1 DEF Streams
<1>2. \A p \in Procs : DataOK(m_data[p]) /\ DiffOK(m_data_diff[p])
  BY DEF TypeInv, DataType, DiffType
<1>. QED  BY <1>1, <1>2 DEF TypeInv, FileType, ObjectType, HistoryType, TypeOK, DataOK, DiffOK

LEMMA TypeInvInit == Init => TypeInv
<1> SUFFICES ASSUME Init
             PROVE  TypeInv
  OBVIOUS
<1>1. FileType /\ ObjectType
  BY EmptySeq DEF Init, FileType, ObjectType, BusyCalls
<1>2. DataType /\ DiffType /\ StreamType
  BY EmptyData, StreamTypes DEF Init, DataType, DiffType, StreamType
<1>3. HistoryType
  BY ConstantsAssumption DEF Init, HistoryType, ConstantsAssumption
<1>. QED  BY <1>1, <1>2, <1>3 DEF TypeInv

LEMMA DataPut ==
    ASSUME DataType, NEW p \in Procs, NEW d, DataOK(d), m_data' = [m_data EXCEPT ![p] = d]
    PROVE  DataType'
<1>1. m_data' = [q \in Procs |-> IF q = p THEN d ELSE m_data[q]]
  BY DEF DataType
<1>. QED  BY <1>1 DEF DataType

LEMMA DiffPut ==
    ASSUME DiffType, NEW p \in Procs, NEW d, DiffOK(d), m_data_diff' = [m_data_diff EXCEPT ![p] = d]
    PROVE  DiffType'
<1>1. m_data_diff' = [q \in Procs |-> IF q = p THEN d ELSE m_data_diff[q]]
  BY DEF DiffType
<1>. QED  BY <1>1 DEF DiffType

LEMMA StreamPut ==
    ASSUME StreamType, NEW p \in Procs, NEW s \in Streams, m_file' = [m_file EXCEPT ![p] = s]
    PROVE  StreamType'
BY DEF StreamType

LEMMA GoneType ==
    ASSUME TypeInv, NEW p \in Procs, Gone(p)
    PROVE  DataType' /\ DiffType' /\ StreamType' /\ ObjectType'
<1>1. DataType' /\ DiffType'
  BY EmptyData, DataPut, DiffPut DEF TypeInv, Gone
<1>2. StreamType'
  BY StreamTypes, StreamPut DEF TypeInv, Gone
<1>3. ObjectType'
  BY DEF TypeInv, ObjectType, Gone, BusyCalls
<1>. QED  BY <1>1, <1>2, <1>3

LEMMA SaveDataType ==
    ASSUME TypeInv, NEW p \in Procs, NEW data, DataOK(data), SaveData(p, data)
    PROVE  file' \in Seq(Chunks) /\ StreamType' /\ DOMAIN acked' \subseteq Keys
<1>1. PICK img : img = Image(m_policy[p], data)
  OBVIOUS
<1>2. PICK n \in 0..Len(img) :
         /\ file' = SubSeq(img, 1, n)
         /\ m_file' = [m_file EXCEPT ![p] = OpenOut(n + 1, SubSeq(img, n + 1, Len(img)))]
         /\ acked' = Plain(data)
  BY <1>1 DEF SaveData
<1>3. img \in Seq(Chunks) /\ Len(img) \in Nat
  <2>1. \A k \in DOMAIN data \cap Keys : data[k].val \in Values
    BY DEF DataOK
  <2>. QED  BY <1>1, <2>1, TypedImage, LenProperties
<1>4. \A i \in 1..Len(img) : img[i] \in Chunks
  BY <1>3, ElementOfSeq
<1>5. SubSeq(img, 1, n) \in Seq(Chunks) /\ SubSeq(img, n + 1, Len(img)) \in Seq(Chunks)
  BY <1>3, <1>4
<1>6. OpenOut(n + 1, SubSeq(img, n + 1, Len(img))) \in Streams
  <2>1. n + 1 \in Nat \ {0}
    BY <1>3
  <2>. QED  BY <1>5, <2>1, StreamTypes
<1>. QED  BY <1>2, <1>5, <1>6, StreamPut DEF TypeInv, Plain, DataOK

LEMMA FastSaveType ==
    ASSUME TypeInv, NEW p \in Procs, NEW diff, DiffOK(diff), FastSaveRecords(p, diff)
    PROVE  file' \in Seq(Chunks) /\ StreamType' /\ busy' \in [Procs -> BusyCalls] /\ acked' = acked
<1>1. file \in Seq(Chunks) /\ m_file[p] \in Streams
  BY DEF TypeInv, FileType, StreamType
<1>2. busy' \in [Procs -> BusyCalls] /\ acked' = acked
  BY DEF FastSaveRecords, TypeInv, ObjectType, BusyCalls
<1>3. CASE Writable(m_file[p])
  <2>1. PICK f, offs, added :
           /\ f = FlushedFile(file, m_file[p])
           /\ added = [k \in DOMAIN diff \ {k \in DOMAIN diff : diff[k].del} |-> diff[k]]
           /\ file' = Marked(f, offs) \o RecordsOf(added)
           /\ m_file' = [m_file EXCEPT ![p] = FlushedStream(m_file[p])]
    BY <1>3 DEF FastSaveRecords
  <2>2. Marked(f, offs) \in Seq(Chunks)
    BY <1>1, <2>1, TypedFlush, TypedMarked
  <2>3. RecordsOf(added) \in Seq(Chunks)
    <3>1. \A k \in DOMAIN added \cap Keys : added[k].val \in Values
      BY <2>1 DEF DiffOK
    <3>. QED  BY <3>1, TypedRecords
  <2>4. file' \in Seq(Chunks)
    BY <2>1, <2>2, <2>3, ConcatProperties
  <2>5. FlushedStream(m_file[p]) \in Streams
    BY <1>1, TypedFlush
  <2>. QED  BY <1>2, <2>1, <2>4, <2>5, StreamPut DEF TypeInv
<1>4. CASE ~Writable(m_file[p])
  <2>1. file' = file /\ m_file' = [m_file EXCEPT ![p] = AfterWritePolicy(m_file[p])]
    BY <1>4 DEF FastSaveRecords
  <2>. QED  BY <1>1, <1>2, <2>1, TypedWritePolicy, StreamPut DEF TypeInv
<1>. QED  BY <1>3, <1>4

LEMMA AutoSaveType ==
    ASSUME TypeInv, NEW p \in Procs, NEW data, DataOK(data), NEW diff, DiffOK(diff),
           AutoSave(p, data, diff)
    PROVE  TypeInv'
<1>1. DataType' /\ DiffType'
  BY DataPut, DiffPut DEF AutoSave, TypeInv
<1>2. /\ file' \in Seq(Chunks) /\ StreamType' /\ DOMAIN acked' \subseteq Keys
      /\ busy' \in [Procs -> BusyCalls]
  <2>1. CASE "AutoSave" \notin m_policy[p]
    BY <2>1 DEF AutoSave, TypeInv, FileType, StreamType, HistoryType, ObjectType
  <2>2. CASE "AutoSave" \in m_policy[p] /\ "FastSave" \in m_policy[p]
    BY <2>2, FastSaveType DEF AutoSave, TypeInv, HistoryType
  <2>3. CASE "AutoSave" \in m_policy[p] /\ "FastSave" \notin m_policy[p]
    BY <2>3, SaveDataType DEF AutoSave, TypeInv, ObjectType
  <2>. QED  BY <2>1, <2>2, <2>3
<1>. QED  BY <1>1, <1>2 DEF AutoSave, TypeInv, FileType, ObjectType, HistoryType

LEMMA StoreKeyType ==
    ASSUME TypeInv, NEW p \in Procs, NEW k \in Keys, NEW v \in Values, NEW off \in Nat, StoreKey(p, k, v, off)
    PROVE  TypeInv'
<1>1. DataOK(m_data[p]) /\ DiffOK(m_data_diff[p])
  BY DEF TypeInv, DataType, DiffType
<1>2. DataOK(With(m_data[p], k, [val |-> v, off |-> off]))
  <2>1. [val |-> v, off |-> off] \in [val : Values, off : Nat]
    OBVIOUS
  <2>. QED  BY <1>1, <2>1 DEF With, DataOK
<1>3. DiffOK(With(m_data_diff[p], k, [val |-> v, off |-> off, del |-> FALSE]))
  <2>1. [val |-> v, off |-> off, del |-> FALSE] \in [val : Values, off : Nat, del : BOOLEAN]
    OBVIOUS
  <2>. QED  BY <1>1, <2>1 DEF With, DiffOK
<1>. QED  BY <1>2, <1>3, AutoSaveType DEF StoreKey

LEMMA DeleteKeyType ==
    ASSUME TypeInv, NEW p \in Procs, NEW k \in Keys, DeleteKey(p, k)
    PROVE  TypeInv'
<1>1. DataOK(m_data[p]) /\ DiffOK(m_data_diff[p])
  BY DEF TypeInv, DataType, DiffType
<1>2. PICK off, val :
         /\ off = IF k \in DOMAIN m_data[p] THEN m_data[p][k].off ELSE HdrPos
         /\ val = IF k \in DOMAIN m_data_diff[p] THEN m_data_diff[p][k].val ELSE NulVal
         /\ AutoSave(p, Without(m_data[p], k),
                     With(m_data_diff[p], k, [val |-> val, off |-> off, del |-> TRUE]))
  BY DEF DeleteKey
<1>3. off \in Nat
  BY <1>1, <1>2 DEF DataOK, HdrPos
<1>4. val \in Values
  BY <1>1, <1>2 DEF DiffOK, Values
<1>5. DataOK(Without(m_data[p], k))
  BY <1>1 DEF Without, DataOK
<1>6. DiffOK(With(m_data_diff[p], k, [val |-> val, off |-> off, del |-> TRUE]))
  <2>1. [val |-> val, off |-> off, del |-> TRUE] \in [val : Values, off : Nat, del : BOOLEAN]
    BY <1>3, <1>4
  <2>. QED  BY <1>1, <2>1 DEF With, DiffOK
<1>. QED  BY <1>2, <1>5, <1>6, AutoSaveType

LEMMA OpenType ==
    ASSUME TypeInv, NEW p \in Procs, NEW pol \in Policies, Open(p, pol)
    PROVE  TypeInv'
<1>1. FileType' /\ HistoryType'
  BY ConstantsAssumption DEF Open, TypeInv, FileType, HistoryType, ConstantsAssumption
<1>2. PICK o \in LoadOutcomes(file, pol, FALSE) :
        \/ /\ o.rc = "Success"
           /\ up' = [up EXCEPT ![p] = "up"]
           /\ m_policy' = [m_policy EXCEPT ![p] = pol \cup file[HdrPos].pol]
           /\ m_data' = [m_data EXCEPT ![p] = o.data]
           /\ m_file' = [m_file EXCEPT ![p] = OpenIn(o.st)]
           /\ UNCHANGED <<m_data_diff, m_ownlock, busy>>
        \/ /\ up' = [up EXCEPT ![p] = "hung"]
           /\ UNCHANGED <<m_policy, m_data, m_data_diff, m_file, m_ownlock, busy>>
        \/ Gone(p)
  BY DEF Open
<1>3. /\ DataOK(o.data) /\ o.st \in {"good", "eof", "fail"}
      /\ o.rc = "Success" => file[HdrPos].pol \subseteq LibFlags
  BY LoadType DEF TypeInv, FileType
<1>4. CASE /\ o.rc = "Success"
           /\ up' = [up EXCEPT ![p] = "up"]
           /\ m_policy' = [m_policy EXCEPT ![p] = pol \cup file[HdrPos].pol]
           /\ m_data' = [m_data EXCEPT ![p] = o.data]
           /\ m_file' = [m_file EXCEPT ![p] = OpenIn(o.st)]
           /\ UNCHANGED <<m_data_diff, m_ownlock, busy>>
  <2>1. pol \cup file[HdrPos].pol \in SUBSET Flags
    BY <1>3, <1>4, ConstantsAssumption DEF ConstantsAssumption, Flags
  <2>2. ObjectType'
    BY <1>4, <2>1 DEF TypeInv, ObjectType
  <2>3. DataType' /\ StreamType' /\ DiffType'
    BY <1>3, <1>4, DataPut, StreamPut, StreamTypes DEF TypeInv, DiffType
  <2>. QED  BY <1>1, <2>2, <2>3 DEF TypeInv
<1>5. CASE /\ up' = [up EXCEPT ![p] = "hung"]
           /\ UNCHANGED <<m_policy, m_data, m_data_diff, m_file, m_ownlock, busy>>
  BY <1>1, <1>5 DEF TypeInv, DataType, DiffType, StreamType, ObjectType
<1>6. CASE Gone(p)
  BY <1>1, <1>6, GoneType DEF TypeInv
<1>. QED  BY <1>2, <1>4, <1>5, <1>6

LEMMA LoadStepType ==
    ASSUME TypeInv, NEW p \in Procs, Load(p)
    PROVE  TypeInv'
<1>1. PICK f : f = FlushedFile(file, m_file[p])
  OBVIOUS
<1>2. f \in Seq(Chunks) /\ file' = f
  BY <1>1, TypedFlush DEF Load, TypeInv, FileType, StreamType
<1>3. PICK o \in LoadOutcomes(f, m_policy[p], m_ownlock[p]) :
        \/ /\ o.rc \in {"Success", "Corrupted"}
           /\ m_policy' = [m_policy EXCEPT ![p] = m_policy[p] \cup f[HdrPos].pol]
           /\ m_data' = [m_data EXCEPT ![p] = o.data]
           /\ m_file' = [m_file EXCEPT ![p] = OpenIn(o.st)]
           /\ UNCHANGED up
        \/ /\ up' = [up EXCEPT ![p] = "hung"]
           /\ UNCHANGED <<m_policy, m_data, m_file>>
        \/ /\ m_file' = [m_file EXCEPT ![p] = Closed]
           /\ UNCHANGED <<up, m_policy, m_data>>
  BY <1>1 DEF Load
<1>4. /\ DataOK(o.data) /\ o.st \in {"good", "eof", "fail"}
      /\ o.rc \in {"Success", "Corrupted"} => f[HdrPos].pol \subseteq LibFlags
  BY <1>2, LoadType
<1>5. FileType' /\ HistoryType' /\ DiffType'
  BY <1>2 DEF Load, TypeInv, FileType, HistoryType, DiffType
<1>6. UNCHANGED <<m_ownlock, busy>>
  BY DEF Load
<1>7. CASE /\ o.rc \in {"Success", "Corrupted"}
           /\ m_policy' = [m_policy EXCEPT ![p] = m_policy[p] \cup f[HdrPos].pol]
           /\ m_data' = [m_data EXCEPT ![p] = o.data]
           /\ m_file' = [m_file EXCEPT ![p] = OpenIn(o.st)]
           /\ UNCHANGED up
  <2>1. m_policy[p] \cup f[HdrPos].pol \in SUBSET Flags
    BY <1>4, <1>7 DEF TypeInv, ObjectType, Flags
  <2>2. ObjectType'
    BY <1>6, <1>7, <2>1 DEF TypeInv, ObjectType
  <2>3. DataType' /\ StreamType'
    BY <1>4, <1>7, DataPut, StreamPut, StreamTypes DEF TypeInv
  <2>. QED  BY <1>5, <2>2, <2>3 DEF TypeInv
<1>8. CASE up' = [up EXCEPT ![p] = "hung"] /\ UNCHANGED <<m_policy, m_data, m_file>>
  BY <1>5, <1>6, <1>8 DEF TypeInv, DataType, StreamType, ObjectType
<1>9. CASE m_file' = [m_file EXCEPT ![p] = Closed] /\ UNCHANGED <<up, m_policy, m_data>>
  <2>1. StreamType'
    BY <1>9, StreamTypes, StreamPut DEF TypeInv
  <2>. QED  BY <1>5, <1>6, <1>9, <2>1 DEF TypeInv, DataType, ObjectType
<1>. QED  BY <1>3, <1>7, <1>8, <1>9

\* locked(), lock() and release(): the file, the stream and m_ownlock.
LEMMA LockType ==
    ASSUME TypeInv, NEW p \in Procs, NEW s \in Streams, file' \in Seq(Chunks),
           m_file' = [m_file EXCEPT ![p] = s],
           \E own \in BOOLEAN : m_ownlock' = [m_ownlock EXCEPT ![p] = own],
           \E b \in BusyCalls : busy' = [busy EXCEPT ![p] = b],
           UNCHANGED <<exists, up, m_policy, m_data, m_data_diff, acked, opens>>
    PROVE  TypeInv'
<1>1. StreamType'
  BY StreamPut DEF TypeInv
<1>2. ObjectType'
  BY DEF TypeInv, ObjectType
<1>. QED  BY <1>1, <1>2 DEF TypeInv, FileType, DataType, DiffType, HistoryType

LEMMA CloseType ==
    ASSUME TypeInv, NEW p \in Procs, Close(p)
    PROVE  TypeInv'
<1>1. DataOK(m_data[p])
  BY DEF TypeInv, DataType
<1>2. file' \in Seq(Chunks) /\ StreamType' /\ DOMAIN acked' \subseteq Keys
  <2>1. CASE "ReadOnly" \in m_policy[p]
    BY <2>1 DEF Close, TypeInv, FileType, StreamType, HistoryType
  <2>2. CASE "ReadOnly" \notin m_policy[p]
    BY <1>1, <2>2, SaveDataType DEF Close
  <2>. QED  BY <2>1, <2>2
<1>3. ObjectType'
  BY DEF Close, TypeInv, ObjectType, BusyCalls
<1>. QED  BY <1>2, <1>3 DEF Close, TypeInv, FileType, DataType, DiffType, HistoryType

LEMMA CloseEndType ==
    ASSUME TypeInv, NEW p \in Procs, CloseEnd(p)
    PROVE  TypeInv'
<1>1. file \in Seq(Chunks) /\ m_file[p] \in Streams
  BY DEF TypeInv, FileType, StreamType
<1>2. FileType'
  BY <1>1, TypedFlush, TypedPolicyFile DEF CloseEnd, TypeInv, FileType
<1>3. Gone(p) /\ UNCHANGED <<acked, opens>>
  BY DEF CloseEnd
<1>. QED  BY <1>2, <1>3, GoneType DEF TypeInv, HistoryType

LEMMA TypeInvStep == TypeInv /\ [Next]_vars => TypeInv'
<1> SUFFICES ASSUME TypeInv, [Next]_vars
             PROVE  TypeInv'
  OBVIOUS
<1>0. /\ file \in Seq(Chunks)
      /\ \A p \in Procs : DataOK(m_data[p]) /\ DiffOK(m_data_diff[p]) /\ m_file[p] \in Streams
  BY DEF TypeInv, FileType, DataType, DiffType, StreamType
<1>1. ASSUME NEW p \in Procs, NEW pol \in Policies, Create(p, pol)  PROVE TypeInv'
  <2>1. FileType' /\ HistoryType'
    <3>1. <<Header(pol, 0)>> \in Seq(Chunks)
      BY ChunkTypes
    <3>2. file' \in Seq(Chunks) /\ exists' \in BOOLEAN
      BY <1>1, <3>1 DEF Create
    <3>3. opens' \in 0..MaxOpens
      BY <1>1, ConstantsAssumption DEF Create, TypeInv, HistoryType, ConstantsAssumption
    <3>4. DOMAIN acked' \subseteq Keys
      BY <1>1 DEF Create
    <3>. QED  BY <3>2, <3>3, <3>4 DEF FileType, HistoryType
  <2>2. StreamType'
    <3>1. OpenOut(HdrPos + 1, <<>>) \in Streams
      <4>1. HdrPos + 1 \in Nat \ {0} /\ <<>> \in Seq(Chunks)
        BY EmptySeq DEF HdrPos
      <4>. QED  BY <4>1, StreamTypes
    <3>. QED  BY <1>1, <3>1, StreamPut DEF Create, TypeInv
  <2>3. ObjectType'
    <3>1. pol \in SUBSET Flags
      BY ConstantsAssumption DEF ConstantsAssumption
    <3>. QED  BY <1>1, <3>1 DEF Create, TypeInv, ObjectType
  <2>. QED  BY <1>1, <2>1, <2>2, <2>3 DEF Create, TypeInv, DataType, DiffType
<1>2. ASSUME NEW p \in Procs, NEW pol \in Policies, Open(p, pol)  PROVE TypeInv'
  BY <1>2, OpenType
<1>3. ASSUME NEW p \in Procs, NEW k \in Keys \ {NulKey}, NEW v \in Vals, AddKey(p, k, v)  PROVE TypeInv'
  BY <1>3, StoreKeyType DEF AddKey, Values, HdrPos
<1>4. ASSUME NEW p \in Procs, NEW k \in Keys \ {NulKey}, NEW src \in Keys \ {NulKey}, CopyKey(p, k, src)
      PROVE  TypeInv'
  <2>1. m_data[p][src].val \in Values /\ m_data[p][src].off \in Nat
    BY <1>0, <1>4 DEF CopyKey, DataOK
  <2>. QED  BY <1>4, <2>1, StoreKeyType DEF CopyKey
<1>5. ASSUME NEW p \in Procs, NEW k \in Keys \ {NulKey}, DeleteKey(p, k)  PROVE TypeInv'
  BY <1>5, DeleteKeyType
<1>6. ASSUME NEW p \in Procs, FastSaveHeader(p)  PROVE TypeInv'
  <2>1. file' \in Seq(Chunks)
    <3>1. PICK h : h = Header(m_policy[p], Cardinality(Present(m_data[p])))
      OBVIOUS
    <3>2. h \in Chunks
      BY <3>1, PresentIs, ChunkTypes
    <3>3. <<h>> \in Seq(Chunks)
      BY <3>2
    <3>4. Overlay(file, HdrPos, <<h>>) \in Seq(Chunks)
      <4>1. HdrPos \in Nat \ {0}
        BY DEF HdrPos
      <4>. QED  BY <1>0, <3>3, <4>1, TypedOverlay
    <3>. QED  BY <1>0, <1>6, <3>1, <3>4 DEF FastSaveHeader
  <2>2. DiffType'
    BY <1>6, EmptyData, DiffPut DEF FastSaveHeader, TypeInv
  <2>3. HistoryType'
    BY <1>0, <1>6 DEF FastSaveHeader, Plain, TypeInv, HistoryType, DataOK
  <2>4. ObjectType'
    BY <1>6 DEF FastSaveHeader, TypeInv, ObjectType, BusyCalls
  <2>. QED  BY <1>6, <2>1, <2>2, <2>3, <2>4 DEF FastSaveHeader, TypeInv, FileType, DataType, StreamType
<1>7. ASSUME NEW p \in Procs, Save(p)  PROVE TypeInv'
  BY <1>0, <1>7, SaveDataType DEF Save, TypeInv, FileType, DataType, DiffType, ObjectType, HistoryType
<1>8. ASSUME NEW p \in Procs, Load(p)  PROVE TypeInv'
  BY <1>8, LoadStepType
<1>9. ASSUME NEW p \in Procs, Locked(p) \/ Lock(p)  PROVE TypeInv'
  <2>1. file' \in Seq(Chunks) /\ AfterReadPolicy(file, m_file[p]) \in Streams
    BY <1>0, <1>9, TypedFlush, TypedReadPolicy DEF Locked, Lock
  <2>2. \E own \in BOOLEAN : m_ownlock' = [m_ownlock EXCEPT ![p] = own]
    BY <1>9 DEF Locked, Lock, TypeInv, ObjectType
  <2>3. \E b \in BusyCalls : busy' = [busy EXCEPT ![p] = b]
    BY <1>9 DEF Locked, Lock, TypeInv, ObjectType, BusyCalls
  <2>. QED  BY <1>9, <2>1, <2>2, <2>3, LockType DEF Locked, Lock
<1>10. ASSUME NEW p \in Procs, LockWrite(p) \/ Release(p)  PROVE TypeInv'
  <2>1. file' \in Seq(Chunks) /\ AfterWritePolicy(m_file[p]) \in Streams
    BY <1>0, <1>10, TypedPolicyFile, TypedWritePolicy DEF LockWrite, Release
  <2>2. \E own \in BOOLEAN : m_ownlock' = [m_ownlock EXCEPT ![p] = own]
    BY <1>10 DEF LockWrite, Release
  <2>3. \E b \in BusyCalls : busy' = [busy EXCEPT ![p] = b]
    BY <1>10 DEF LockWrite, Release, TypeInv, ObjectType, BusyCalls
  <2>. QED  BY <1>10, <2>1, <2>2, <2>3, LockType DEF LockWrite, Release
<1>11. ASSUME NEW p \in Procs, Close(p)  PROVE TypeInv'
  BY <1>11, CloseType
<1>12. ASSUME NEW p \in Procs, CloseEnd(p)  PROVE TypeInv'
  BY <1>12, CloseEndType
<1>13. ASSUME NEW p \in Procs, Crash(p)  PROVE TypeInv'
  BY <1>13, GoneType DEF Crash, TypeInv, FileType, HistoryType
<1>14. CASE UNCHANGED vars
  BY <1>14 DEF vars, TypeInv, FileType, DataType, DiffType, StreamType, ObjectType, HistoryType
<1>. QED  BY <1>1, <1>2, <1>3, <1>4, <1>5, <1>6, <1>7, <1>8, <1>9, <1>10, <1>11,
             <1>12, <1>13, <1>14 DEF Next, Done

\* keydb_fast's TypeOK for any programs, keys, values, policies and calls: what the
\* offsets, marks and duplicates of FastSave, reads past the end of the file, lost
\* buffers and broken streams leave behind still has the type the next call reads.
THEOREM TypesHold == Spec => []TypeOK
<1>1. TypeInv /\ [Next]_vars => TypeInv'
  BY TypeInvStep
<1>2. TypeInv => TypeOK
  BY TypeInvIsTypeOK
<1>. QED  BY <1>1, <1>2, TypeInvInit, PTL DEF Spec

-----------------------------------------------------------------------------
(* What save() writes is what load() reads. *)

IsImage(f, m) ==
    LET n == Cardinality(Present(m))
    IN  /\ f \in Seq(Chunks) /\ Len(f) = n + 1
        /\ f[1].kind = "hdr" /\ f[1].count = n
        /\ \A j \in 1..n : f[j + 1] = Record(NthKey(m, j), m[NthKey(m, j)].val)

\* The loop of load() after k records of the image of m.
HasRead(s, m, k) ==
    /\ s = [i |-> s.i, count |-> s.count, pos |-> s.pos, data |-> s.data]
    /\ s.i = k /\ s.count = Cardinality(Present(m)) /\ s.pos = k + 1
    /\ DOMAIN s.data = {NthKey(m, j) : j \in 1..k}
    /\ \A j \in 1..k : s.data[NthKey(m, j)].val = m[NthKey(m, j)].val

LEMMA ReadsNext ==
    ASSUME NEW m, NEW f, IsImage(f, m), NEW k \in 1..Cardinality(Present(m)), NEW s, HasRead(s, m, k - 1)
    PROVE  HasRead(Turn(f, s, k), m, k)
<1>1. PICK n : n = Cardinality(Present(m)) /\ n \in Nat
  BY PresentIs
<1>2. PICK key, val : key = NthKey(m, k) /\ val = m[key].val
  OBVIOUS
<1>3. PICK r : r = Record(key, val)
  OBVIOUS
<1>4. f[k + 1] = r /\ r.kind = "rec" /\ r.key = key /\ r.val = val /\ r.del = FALSE
  BY <1>1, <1>2, <1>3 DEF IsImage, Record
<1>5. \A j \in 1..(k - 1) : NthKey(m, j) # key
  BY <1>1, <1>2, NthKeyIs
<1>6. Again(s, r) = 0
  BY <1>4, <1>5 DEF Again, HasRead
<1>7. k \in Nat /\ s.i = k - 1 /\ s.count = n /\ s.pos = k /\ Continues(s)
  BY <1>1 DEF HasRead, Continues
<1>8. Turn(f, s, k) = ReadRecord(s, r, k + 1)
  BY <1>4, <1>7 DEF Turn
<1>9. Turn(f, s, k) = [i |-> k, count |-> n, pos |-> k + 1, data |-> Stored(s, r, k + 1)]
  <2>1. ReadRecord(s, r, k + 1)
          = [i |-> s.i - Again(s, r) + 1, count |-> s.count, pos |-> k + 1, data |-> Stored(s, r, k + 1)]
    BY <1>4, ReadRecordIs DEF HasRead
  <2>2. s.i - Again(s, r) + 1 = k
    BY <1>6, <1>7
  <2>. QED  BY <1>7, <1>8, <2>1, <2>2
<1>10. PICK d : d = Stored(s, r, k + 1)
  OBVIOUS
<1>11. DOMAIN d = {NthKey(m, j) : j \in 1..k}
  <2>1. DOMAIN d = {NthKey(m, j) : j \in 1..(k - 1)} \cup {NthKey(m, k)}
    BY <1>2, <1>4, <1>10 DEF Stored, HasRead
  <2>2. 1..k = (1..(k - 1)) \cup {k}
    BY <1>7
  <2>. QED  BY <2>1, <2>2
<1>12. \A j \in 1..k : d[NthKey(m, j)].val = m[NthKey(m, j)].val
  <2>1. d[key] = [val |-> val, off |-> k + 1]
    BY <1>4, <1>10 DEF Stored
  <2>2. ASSUME NEW j \in 1..(k - 1)
        PROVE  d[NthKey(m, j)] = s.data[NthKey(m, j)]
    BY <1>4, <1>5, <1>10, <2>2 DEF Stored, HasRead
  <2>3. \A j \in 1..k : j = k \/ j \in 1..(k - 1)
    BY <1>7
  <2>. QED  BY <1>2, <2>1, <2>2, <2>3 DEF HasRead
<1>13. PICK t : t = Turn(f, s, k)
  OBVIOUS
<1>14. t.i = k /\ t.count = n /\ t.pos = k + 1 /\ t.data = d /\ t = [i |-> t.i, count |-> t.count, pos |-> t.pos, data |-> t.data]
  BY <1>9, <1>10, <1>13
<1>. QED  BY <1>1, <1>11, <1>12, <1>13, <1>14 DEF HasRead

LEMMA ImageIsRead ==
    ASSUME NEW m, DataOK(m), NEW f, IsImage(f, m)
    PROVE  HasRead(LoopState(f), m, Cardinality(Present(m)))
<1>1. PICK n : n = Cardinality(Present(m)) /\ n \in Nat
  BY PresentIs
<1>2. Len(f) = n + 1 /\ Len(f) \in Nat \ {0} /\ Len(f) - 1 = n
  BY <1>1 DEF IsImage
<1>3. PICK st : IsLoop(f, n, st) /\ LoopState(f) = st[n]
  BY <1>2, LoopIs
<1>4. st[0] = Start(f) /\ \A k \in 1..n : st[k] = Turn(f, st[k-1], k)
  BY <1>1, <1>3 DEF IsLoop
<1>5. HasRead(Start(f), m, 0)
  <2>1. 1..0 = {}
    OBVIOUS
  <2>2. Start(f) = [i |-> 0, count |-> n, pos |-> 1, data |-> <<>>]
    BY <1>1 DEF Start, HdrPos, IsImage
  <2>. QED  BY <1>1, <2>1, <2>2 DEF HasRead
<1>. DEFINE Bad == {k \in 0..n : ~HasRead(st[k], m, k)}
<1>6. Bad = {}
  <2> SUFFICES ASSUME Bad # {}
               PROVE  FALSE
    OBVIOUS
  <2>1. PICK k \in Bad : \A l \in Bad : ~(l < k)
    <3>1. Bad \subseteq Nat
      BY <1>1
    <3>. HIDE DEF Bad
    <3>. QED  BY <3>1, LeastOf
  <2>2. k # 0
    BY <1>4, <1>5
  <2>3. k - 1 \in 0..n /\ k \in 1..n /\ k - 1 < k
    BY <1>1, <2>2
  <2>4. HasRead(st[k - 1], m, k - 1)
    BY <2>1, <2>3
  <2>. QED  BY <1>1, <1>4, <2>3, <2>4, ReadsNext
<1>7. n \in 0..n
  BY <1>1
<1>. QED  BY <1>1, <1>3, <1>6, <1>7

LEMMA Rebuilt ==
    ASSUME NEW m, DataOK(m), NEW f, IsImage(f, m), NEW pol, NEW own, NEW o \in LoadOutcomes(f, pol, own)
    PROVE  /\ o.rc = "Success" \/ (o.rc = "Locked" /\ ~own)
           /\ o.rc = "Success" => Plain(o.data) = Plain(m)
<1>1. PICK n : n = Cardinality(Present(m)) /\ n \in Nat
  BY PresentIs
<1>2. PICK s : s = LoopState(f) /\ HasRead(s, m, n)
  BY <1>1, ImageIsRead
<1>3. HasHeader(f)
  BY <1>1, EmptySeq DEF HasHeader, IsImage, HdrPos
<1>4. ~Continues(s) /\ s.pos = Len(f)
  BY <1>1, <1>2 DEF HasRead, Continues, IsImage
<1>5. \/ o = [rc |-> "Success", data |-> s.data, st |-> "eof"]
      \/ ~own /\ o = [rc |-> "Locked", data |-> <<>>, st |-> "good"]
  BY <1>2, <1>3, <1>4 DEF LoadOutcomes
<1>6. DOMAIN s.data = DOMAIN m
  <2>1. DOMAIN s.data = {NthKey(m, j) : j \in 1..n}
    BY <1>2 DEF HasRead
  <2>2. \A j \in 1..n : NthKey(m, j) \in DOMAIN m
    BY <1>1, NthKeyIs
  <2>3. \A k \in DOMAIN m : \E j \in 1..n : NthKey(m, j) = k
    BY <1>1, NthKeyIs DEF DataOK
  <2>. QED  BY <2>1, <2>2, <2>3
<1>7. \A k \in DOMAIN m : s.data[k].val = m[k].val
  <2>1. \A k \in DOMAIN m : \E j \in 1..n : NthKey(m, j) = k
    BY <1>1, NthKeyIs DEF DataOK
  <2>. QED  BY <1>2, <2>1 DEF HasRead
<1>. QED  BY <1>5, <1>6, <1>7 DEF Plain

-----------------------------------------------------------------------------
(* Maps without their offsets. *)

Put(a, k, v) == [x \in DOMAIN a \cup {k} |-> IF x = k THEN v ELSE a[x]]
Removed(a, k) == [x \in DOMAIN a \ {k} |-> a[x]]

LEMMA PlainWith ==
    ASSUME NEW m, NEW k, NEW v, NEW off
    PROVE  Plain(With(m, k, [val |-> v, off |-> off])) = Put(Plain(m), k, v)
<1>. DEFINE d == With(m, k, [val |-> v, off |-> off])
<1>1. DOMAIN d = DOMAIN m \cup {k} /\ DOMAIN Plain(m) = DOMAIN m
  BY DEF With, Plain
<1>2. \A x \in DOMAIN m \cup {k} : d[x].val = IF x = k THEN v ELSE Plain(m)[x]
  BY DEF With, Plain
<1>3. Plain(d) = [x \in DOMAIN d |-> d[x].val]
  BY DEF Plain
<1>. HIDE DEF d
<1>4. Plain(d) = [x \in DOMAIN Plain(m) \cup {k} |-> IF x = k THEN v ELSE Plain(m)[x]]
  BY <1>1, <1>2, <1>3
<1>. QED  BY <1>4 DEF d, Put

LEMMA PlainWithout ==
    ASSUME NEW m, NEW k
    PROVE  Plain(Without(m, k)) = Removed(Plain(m), k)
<1>1. DOMAIN Without(m, k) = DOMAIN m \ {k} /\ DOMAIN Plain(m) = DOMAIN m
  BY DEF Without, Plain
<1>2. \A x \in DOMAIN m \ {k} : Without(m, k)[x].val = Plain(m)[x]
  BY DEF Without, Plain
<1>. QED  BY <1>1, <1>2 DEF Plain, Removed

-----------------------------------------------------------------------------
(* The destructor leaves an image. *)

LEMMA ImageIsImage ==
    ASSUME NEW m, DataOK(m), NEW pol
    PROVE  IsImage(Image(pol, m), m)
<1>1. \A k \in DOMAIN m \cap Keys : m[k].val \in Values
  BY DEF DataOK
<1>2. \A j \in 1..Cardinality(Present(m)) : RecordsOf(m)[j] = Record(NthKey(m, j), m[NthKey(m, j)].val)
  BY DEF RecordsOf
<1>3. Header(pol, Cardinality(Present(m))).kind = "hdr" /\ Header(pol, Cardinality(Present(m))).count = Cardinality(Present(m))
  BY DEF Header
<1>. QED  BY <1>1, <1>2, <1>3, TypedImage DEF IsImage

\* A save() that is cut anywhere between the disk and the buffer.
LEMMA FlushedSave ==
    ASSUME NEW img \in Seq(Chunks), NEW n \in 0..Len(img)
    PROVE  FlushedFile(SubSeq(img, 1, n), OpenOut(n + 1, SubSeq(img, n + 1, Len(img)))) = img
<1>1. Len(img) \in Nat /\ n \in Nat /\ n <= Len(img) /\ img = [i \in 1..Len(img) |-> img[i]]
  BY LenProperties
<1>2. \A i \in 1..Len(img) : img[i] \in Chunks
  BY ElementOfSeq
<1>3. PICK a : a = SubSeq(img, 1, n)
  OBVIOUS
<1>4. PICK b : b = SubSeq(img, n + 1, Len(img))
  OBVIOUS
<1>5. a \in Seq(Chunks) /\ Len(a) = n /\ \A i \in 1..n : a[i] = img[i]
  <2>1. \A i \in 1..n : img[i] \in Chunks
    BY <1>1, <1>2
  <2>2. 1 \in Nat /\ n >= 1 - 1
    BY <1>1
  <2>. QED  BY <1>1, <1>3, <2>1, <2>2, SubSeqProperties
<1>6. b \in Seq(Chunks) /\ Len(b) = Len(img) - n /\ \A i \in 1..(Len(img) - n) : b[i] = img[n + i]
  BY <1>1, <1>2, <1>4
<1>7. CASE b = <<>>
  <2>1. n = Len(img)
    BY <1>1, <1>6, <1>7
  <2>2. a = img
    BY <1>1, <1>3, <2>1, SubSeqProperties
  <2>. QED  BY <1>3, <1>4, <1>7, <2>2 DEF FlushedFile, OpenOut
<1>8. CASE b # <<>>
  <2>. DEFINE last == (n + 1) - 1 + Len(b)
              N == IF last > Len(a) THEN last ELSE Len(a)
              g == [i \in 1..N |-> IF i \in (n + 1)..last THEN b[i - (n + 1) + 1]
                                   ELSE IF i <= Len(a) THEN a[i] ELSE Junk]
  <2>1. last = Len(img) /\ N = Len(img)
    BY <1>1, <1>5, <1>6
  <2>2. \A i \in 1..Len(img) : g[i] = img[i]
    <3> SUFFICES ASSUME NEW i \in 1..Len(img)
                 PROVE  g[i] = img[i]
      OBVIOUS
    <3>1. CASE i \in (n + 1)..Len(img)
      <4>1. i - (n + 1) + 1 \in 1..(Len(img) - n) /\ n + (i - (n + 1) + 1) = i
        BY <1>1, <3>1
      <4>2. b[i - (n + 1) + 1] = img[i]
        BY <1>6, <4>1
      <4>. QED  BY <2>1, <3>1, <4>2
    <3>2. CASE i \notin (n + 1)..Len(img)
      <4>1. i <= n /\ i \in 1..n
        BY <1>1, <3>2
      <4>. QED  BY <1>5, <2>1, <3>2, <4>1
    <3>. QED  BY <3>1, <3>2
  <2>3. g = [i \in 1..Len(img) |-> img[i]]
    <3>1. DOMAIN g = 1..Len(img) /\ g = [i \in 1..Len(img) |-> g[i]]
      BY <2>1
    <3>. HIDE DEF g
    <3>. QED  BY <2>2, <3>1
  <2>4. Overlay(a, n + 1, b) = g
    BY DEF Overlay
  <2>5. FlushedFile(a, OpenOut(n + 1, b)) = Overlay(a, n + 1, b)
    BY <1>8 DEF FlushedFile, OpenOut
  <2>. QED  BY <1>1, <1>3, <1>4, <2>3, <2>4, <2>5
<1>. QED  BY <1>7, <1>8

LEMMA PolicyKeepsImage ==
    ASSUME NEW f, NEW m, IsImage(f, m), NEW pol
    PROVE  IsImage([f EXCEPT ![HdrPos].pol = pol \cap LibFlags], m)
<1>1. PICK n : n = Cardinality(Present(m)) /\ n \in Nat
  BY PresentIs
<1>2. f \in Seq(Chunks) /\ Len(f) = n + 1 /\ 1 \in 1..Len(f) /\ f[1].kind = "hdr" /\ f[1].count = n
  BY <1>1 DEF IsImage
<1>3. f[1] \in Headers
  <2>1. f[1] \in Chunks
    BY <1>2, ElementOfSeq
  <2>. QED  BY <1>2, <2>1, ChunkKinds
<1>4. PICK h : h = [f[1] EXCEPT !.pol = pol \cap LibFlags]
  OBVIOUS
<1>5. h \in Chunks /\ h.kind = "hdr" /\ h.count = n
  BY <1>2, <1>3, <1>4 DEF Headers, Chunks
<1>6. PICK g : g = [f EXCEPT ![1] = h]
  OBVIOUS
<1>7. g \in Seq(Chunks) /\ Len(g) = Len(f) /\ \A i \in 1..Len(f) : g[i] = IF i = 1 THEN h ELSE f[i]
  BY <1>2, <1>5, <1>6, ExceptSeq
<1>8. \A j \in 1..n : j + 1 \in 1..Len(f) /\ j + 1 # 1
  BY <1>1, <1>2
<1>9. IsImage(g, m)
  BY <1>1, <1>2, <1>5, <1>7, <1>8 DEF IsImage
<1>10. [f EXCEPT ![HdrPos].pol = pol \cap LibFlags] = g
  BY <1>4, <1>6 DEF HdrPos
<1>. QED  BY <1>9, <1>10

\* What the stream holds and what it still buffers make the image of m.
Closes(f, stream, m) == IsImage(FlushedFile(f, stream), m)

LEMMA SaveCloses ==
    ASSUME TypeInv, NEW p \in Procs, NEW data, DataOK(data), SaveData(p, data)
    PROVE  Closes(file', m_file'[p], data)
<1>1. PICK img : img = Image(m_policy[p], data)
  OBVIOUS
<1>2. IsImage(img, data) /\ img \in Seq(Chunks)
  BY <1>1, ImageIsImage DEF IsImage
<1>3. PICK n \in 0..Len(img) :
         /\ file' = SubSeq(img, 1, n)
         /\ m_file' = [m_file EXCEPT ![p] = OpenOut(n + 1, SubSeq(img, n + 1, Len(img)))]
  BY <1>1 DEF SaveData
<1>4. m_file'[p] = OpenOut(n + 1, SubSeq(img, n + 1, Len(img)))
  BY <1>3 DEF TypeInv, StreamType
<1>. QED  BY <1>2, <1>3, <1>4, FlushedSave DEF Closes

LEMMA CloseLeavesImage ==
    ASSUME NEW p \in Procs, NEW m, CloseEnd(p), Closes(file, m_file[p], m)
    PROVE  IsImage(file', m)
<1>1. PICK g : g = FlushedFile(file, m_file[p])
  OBVIOUS
<1>2. file' = g \/ \E pol : file' = [g EXCEPT ![HdrPos].pol = pol \cap LibFlags]
  BY <1>1 DEF CloseEnd, WrittenPolicy
<1>3. IsImage(g, m)
  BY <1>1 DEF Closes
<1>. QED  BY <1>2, <1>3, PolicyKeepsImage

\* No two programs use the file.
Alone == \A p, q \in Procs : p = q

\* What holds inside the destructor.
Closing ==
    \A p \in Procs : busy[p] = "destructor" =>
        /\ up[p] = "up"
        /\ "ReadOnly" \notin m_policy[p] => Closes(file, m_file[p], m_data[p])

CloseInv == TypeInv /\ Closing

LEMMA ClosingInit == Init => Closing
BY DEF Init, Closing

LEMMA NotClosing ==
    ASSUME TypeInv, Closing, NEW p \in Procs, ~Close(p),
           \/ \E pol \in Policies : Create(p, pol) \/ Open(p, pol)
           \/ \E k, v : AddKey(p, k, v)
           \/ \E k, src : CopyKey(p, k, src)
           \/ \E k : DeleteKey(p, k)
           \/ FastSaveHeader(p) \/ Save(p) \/ Load(p) \/ Locked(p) \/ Lock(p)
           \/ LockWrite(p) \/ Release(p) \/ CloseEnd(p) \/ Crash(p)
    PROVE  busy'[p] # "destructor"
<1>0. busy \in [Procs -> BusyCalls]
  BY DEF TypeInv, ObjectType
<1>1. CASE \E pol \in Policies : Create(p, pol) \/ Open(p, pol)
  <2>1. busy[p] # "destructor"
    BY <1>1 DEF Create, Open, Closing
  <2>2. busy' = busy \/ busy' = [busy EXCEPT ![p] = "no"]
    BY <1>1 DEF Create, Open, Gone
  <2>. QED  BY <1>0, <2>1, <2>2
<1>2. CASE \/ \E k, v : AddKey(p, k, v)
           \/ \E k, src : CopyKey(p, k, src)
           \/ \E k : DeleteKey(p, k)
  <2>1. busy[p] = "no" /\ \E data, diff : AutoSave(p, data, diff)
    <3>1. CASE \E k, v : AddKey(p, k, v)
      BY <3>1 DEF AddKey, StoreKey, Ready
    <3>2. CASE \E k, src : CopyKey(p, k, src)
      BY <3>2 DEF CopyKey, StoreKey, Ready
    <3>3. CASE \E k : DeleteKey(p, k)
      BY <3>3 DEF DeleteKey, Ready
    <3>. QED  BY <1>2, <3>1, <3>2, <3>3
  <2>2. busy' = busy \/ busy' = [busy EXCEPT ![p] = "instant_save"]
    BY <2>1 DEF AutoSave, FastSaveRecords
  <2>. QED  BY <1>0, <2>1, <2>2
<1>3. CASE FastSaveHeader(p) \/ LockWrite(p) \/ CloseEnd(p) \/ Crash(p)
  <2>1. busy' = [busy EXCEPT ![p] = "no"]
    BY <1>3 DEF FastSaveHeader, LockWrite, CloseEnd, Crash, Gone
  <2>. QED  BY <1>0, <2>1
<1>4. CASE Save(p) \/ Load(p) \/ Locked(p) \/ Release(p)
  BY <1>4 DEF Save, Load, Locked, Release, Ready
<1>5. CASE Lock(p)
  <2>1. PICK b \in {"no", "lock"} : busy' = [busy EXCEPT ![p] = b]
    BY <1>5 DEF Lock
  <2>. QED  BY <1>0, <2>1
<1>. QED  BY <1>1, <1>2, <1>3, <1>4, <1>5

LEMMA ClosingStep == Alone /\ CloseInv /\ [Next]_vars => Closing'
<1> SUFFICES ASSUME Alone, CloseInv, [Next]_vars
             PROVE  Closing'
  OBVIOUS
<1>1. CASE UNCHANGED vars
  BY <1>1 DEF vars, CloseInv, Closing
<1>2. ASSUME NEW p \in Procs, busy'[p] # "destructor"
      PROVE  Closing'
  BY <1>2 DEF Alone, Closing
<1>3. ASSUME NEW p \in Procs, Close(p)
      PROVE  Closing'
  <2>1. up'[p] = "up" /\ UNCHANGED <<m_policy, m_data>>
    BY <1>3 DEF Close, Ready
  <2>2. "ReadOnly" \notin m_policy[p] => Closes(file', m_file'[p], m_data[p])
    <3>1. DataOK(m_data[p]) /\ TypeInv
      BY DEF CloseInv, TypeInv, DataType
    <3>. QED  BY <1>3, <3>1, SaveCloses DEF Close
  <2>. QED  BY <2>1, <2>2 DEF Alone, Closing
<1>4. CASE Next /\ vars' # vars
  <2>1. CASE \E p \in Procs : Close(p)
    BY <1>3, <2>1
  <2>2. CASE \A p \in Procs : ~Close(p)
    <3>1. PICK p \in Procs :
             \/ \E pol \in Policies : Create(p, pol) \/ Open(p, pol)
             \/ \E k, v : AddKey(p, k, v)
             \/ \E k, src : CopyKey(p, k, src)
             \/ \E k : DeleteKey(p, k)
             \/ FastSaveHeader(p) \/ Save(p) \/ Load(p) \/ Locked(p) \/ Lock(p)
             \/ LockWrite(p) \/ Release(p) \/ CloseEnd(p) \/ Crash(p)
      BY <1>4, <2>2 DEF Next, Done
    <3>. QED  BY <1>2, <2>2, <3>1, NotClosing DEF CloseInv
  <2>. QED  BY <2>1, <2>2
<1>. QED  BY <1>1, <1>4 DEF vars

LEMMA CleanStep ==
    CloseInv /\ [Next]_vars =>
        [\A p \in Procs : CloseEnd(p) /\ "ReadOnly" \notin m_policy[p] =>
            \A o \in LoadOutcomes(file', {}, TRUE) :
               o.rc = "Success" /\ Plain(o.data) = Plain(m_data[p])]_vars
<1> SUFFICES ASSUME CloseInv, NEW p \in Procs, CloseEnd(p), "ReadOnly" \notin m_policy[p],
                    NEW o \in LoadOutcomes(file', {}, TRUE)
             PROVE  o.rc = "Success" /\ Plain(o.data) = Plain(m_data[p])
  OBVIOUS
<1>1. Closes(file, m_file[p], m_data[p])
  BY DEF CloseInv, Closing, CloseEnd
<1>2. IsImage(file', m_data[p]) /\ DataOK(m_data[p])
  BY <1>1, CloseLeavesImage DEF CloseInv, TypeInv, DataType
<1>. QED  BY <1>2, Rebuilt

\* When no other program uses the file, the destructor of an object that is not
\* ReadOnly leaves a file that the next load() reads as exactly the object's
\* map: for any number of keys, after any calls and kills, wherever its save()
\* was cut into what is on disk and what is buffered, with FastSave's marks,
\* duplicates and stale offsets, and also when release() rewrites the policy.
THEOREM CloseIsClean == Alone /\ Spec => CleanClose
<1>1. Alone /\ CloseInv /\ [Next]_vars => CloseInv'
  BY TypeInvStep, ClosingStep DEF CloseInv
<1>2. Init => CloseInv
  BY TypeInvInit, ClosingInit DEF CloseInv
<1>3. CASE Alone
  <2>1. CloseInv /\ [Next]_vars => CloseInv'
    BY <1>1, <1>3
  <2>. QED  BY <1>2, <2>1, CleanStep, PTL DEF Spec, CleanClose
<1>. QED  BY <1>3

-----------------------------------------------------------------------------
(* A new file, any number of programs that want it, and a session of any     *)
(* number of addKey() and deleteKey() that is closed or killed anywhere.  If *)
(* the policy saves at once (AutoSave), it does so with FastSave.            *)

NewFile ==
    /\ MaxOpens = 1
    /\ Calls \subseteq {"add", "copy", "delete", "close", "crash"}
    /\ \A pol \in Policies : "AutoSave" \in pol => "FastSave" \in pol

-----------------------------------------------------------------------------
(* What load() makes of records that were only ever appended. *)

\* The positions, in the order of the keys, of those in S: their number is the
\* number of keys, and that of a map's keys is what save() counts.
Positions(S) == {i \in DOMAIN KeyOrder : KeyOrder[i] \in S}
Number(S) == Cardinality(Positions(S))

\* The keys of the first n records.
KeysOf(f, n) == {f[j].key : j \in 2..(n + 1)}

\* The file is a chunk and records, none of them marked.
Unmarked(f) ==
    /\ f \in Seq(Chunks) /\ Len(f) \in Nat \ {0}
    /\ \A i \in 2..Len(f) : f[i].kind = "rec" /\ ~f[i].del

\* The last of the first n records with the key k has the value v.
LastIs(f, n, k, v) ==
    \E i \in 2..(n + 1) :
        f[i].key = k /\ f[i].val = v /\ \A j \in (i + 1)..(n + 1) : f[j].key # k

\* The loop of load() has read all of the first n records.
HasReadAll(s, f, n) ==
    /\ s = [i |-> s.i, count |-> s.count, pos |-> s.pos, data |-> s.data]
    /\ s.pos = n + 1 /\ s.count = f[HdrPos].count
    /\ DOMAIN s.data = KeysOf(f, n)
    /\ \A k \in DOMAIN s.data : LastIs(f, n, k, s.data[k].val)
    /\ s.i = Number(KeysOf(f, n)) /\ s.i <= s.count
    /\ n # 0 => Number(KeysOf(f, n - 1)) < s.count

\* It stopped before.
HasStopped(s, n) == s.pos \in Nat /\ s.pos < n + 1 /\ ~Continues(s)

LEMMA PositionsAre ==
    ASSUME NEW S
    PROVE  IsFiniteSet(Positions(S)) /\ Number(S) \in Nat
<1>1. IsFiniteSet(DOMAIN KeyOrder)
  <2>1. DOMAIN KeyOrder = 1..Len(KeyOrder) /\ Len(KeyOrder) \in Nat
    BY ConstantsAssumption, LenProperties DEF ConstantsAssumption
  <2>. QED  BY <2>1, FS_Interval
<1>2. Positions(S) \in SUBSET DOMAIN KeyOrder
  BY DEF Positions
<1>. QED  BY <1>1, <1>2, FS_Subset, FS_CardinalityType DEF Number

LEMMA NumberGrows ==
    ASSUME NEW S, NEW k \in Keys
    PROVE  Number(S \cup {k}) = IF k \in S THEN Number(S) ELSE Number(S) + 1
<1>1. PICK i \in DOMAIN KeyOrder : KeyOrder[i] = k
  BY DEF Keys
<1>2. Positions(S \cup {k}) = Positions(S) \cup {i}
  BY <1>1, ConstantsAssumption DEF Positions, ConstantsAssumption
<1>3. i \in Positions(S) <=> k \in S
  BY <1>1 DEF Positions
<1>. QED  BY <1>2, <1>3, PositionsAre, FS_AddElement DEF Number

LEMMA NumberOfPart ==
    ASSUME NEW S, NEW T, S \subseteq T
    PROVE  /\ Number(S) <= Number(T)
           /\ Number(S) = Number(T) /\ T \subseteq Keys => S = T
<1>1. Positions(S) \in SUBSET Positions(T)
  BY DEF Positions
<1>2. Number(S) <= Number(T) /\ (Number(S) = Number(T) => Positions(S) = Positions(T))
  BY <1>1, PositionsAre, FS_Subset DEF Number
<1>3. ASSUME Positions(S) = Positions(T), NEW k \in T, k \in Keys
      PROVE  k \in S
  BY <1>3 DEF Positions, Keys
<1>. QED  BY <1>2, <1>3

LEMMA ReadsOn ==
    ASSUME NEW f, Unmarked(f), f[HdrPos].count \in Nat, NEW n \in 1..(Len(f) - 1), NEW s,
           HasReadAll(s, f, n - 1) \/ HasStopped(s, n - 1)
    PROVE  HasReadAll(Turn(f, s, n), f, n) \/ HasStopped(Turn(f, s, n), n)
<1>1. n \in Nat /\ n # 0 /\ n + 1 \in 2..Len(f) /\ Len(f) \in Nat
  BY DEF Unmarked
<1>2. CASE HasStopped(s, n - 1)
  <2>1. Turn(f, s, n) = s
    BY <1>2 DEF Turn, HasStopped
  <2>2. s.pos \in Nat /\ s.pos < n + 1
    BY <1>1, <1>2 DEF HasStopped
  <2>. QED  BY <1>2, <2>1, <2>2 DEF HasStopped
<1>3. CASE HasReadAll(s, f, n - 1) /\ ~Continues(s)
  <2>1. Turn(f, s, n) = s
    BY <1>3 DEF Turn
  <2>2. s.pos \in Nat /\ s.pos < n + 1
    BY <1>1, <1>3 DEF HasReadAll
  <2>. QED  BY <1>3, <2>1, <2>2 DEF HasStopped
<1>4. CASE HasReadAll(s, f, n - 1) /\ Continues(s)
  <2>1. PICK r : r = f[n + 1]
    OBVIOUS
  <2>2. r.kind = "rec" /\ ~r.del /\ r.key \in Keys
    BY <1>1, <2>1, ElementOfSeq, ChunkKinds DEF Unmarked
  <2>3. PICK K : K = KeysOf(f, n - 1)
    OBVIOUS
  <2>4. KeysOf(f, n) = K \cup {r.key}
    <3>1. 2..(n + 1) = (2..((n - 1) + 1)) \cup {n + 1}
      BY <1>1
    <3>. QED  BY <2>1, <2>3, <3>1 DEF KeysOf
  <2>5. s.pos = n /\ s.i = Number(K) /\ DOMAIN s.data = K /\ Number(K) \in Nat /\ Number(K) < s.count
    <3>1. s.pos = n /\ s.i = Number(K) /\ DOMAIN s.data = K
      BY <1>1, <1>4, <2>3 DEF HasReadAll
    <3>. QED  BY <1>4, <3>1, PositionsAre DEF Continues
  <2>6. PICK t : t = Turn(f, s, n)
    OBVIOUS
  <2>7. PICK d : d = Stored(s, r, n + 1)
    OBVIOUS
  <2>8. t = [i |-> s.i - Again(s, r) + 1, count |-> s.count, pos |-> n + 1, data |-> d]
    <3>1. t = ReadRecord(s, r, n + 1)
      BY <1>4, <2>1, <2>2, <2>5, <2>6 DEF Turn
    <3>. QED  BY <1>4, <2>2, <2>7, <3>1, ReadRecordIs DEF HasReadAll
  <2>9. s.i - Again(s, r) + 1 = Number(KeysOf(f, n)) /\ Number(KeysOf(f, n)) <= s.count
    <3>1. s.count \in Int
      BY <1>4 DEF HasReadAll
    <3>2. Number(K \cup {r.key}) = IF r.key \in K THEN Number(K) ELSE Number(K) + 1
      BY <2>2, NumberGrows
    <3>3. Again(s, r) = IF r.key \in K THEN 1 ELSE 0
      BY <2>5 DEF Again
    <3>. QED  BY <2>4, <2>5, <3>1, <3>2, <3>3
  <2>10. DOMAIN d = KeysOf(f, n)
    BY <2>4, <2>5, <2>7 DEF Stored
  <2>11. ASSUME NEW k \in DOMAIN d
         PROVE  LastIs(f, n, k, d[k].val)
    <3>1. CASE k = r.key
      <4>1. d[k].val = r.val
        BY <2>7, <2>11, <3>1 DEF Stored
      <4>2. n + 1 \in 2..(n + 1) /\ \A j \in ((n + 1) + 1)..(n + 1) : f[j].key # k
        BY <1>1
      <4>. QED  BY <2>1, <3>1, <4>1, <4>2 DEF LastIs
    <3>2. CASE k # r.key
      <4>1. k \in DOMAIN s.data /\ d[k] = s.data[k]
        BY <2>7, <2>11, <3>2 DEF Stored
      <4>2. PICK i \in 2..((n - 1) + 1) :
              f[i].key = k /\ f[i].val = d[k].val /\ \A j \in (i + 1)..((n - 1) + 1) : f[j].key # k
        BY <1>4, <4>1 DEF HasReadAll, LastIs
      <4>3. i \in 2..(n + 1) /\ \A j \in (i + 1)..(n + 1) : j \in (i + 1)..((n - 1) + 1) \/ j = n + 1
        BY <1>1
      <4>. QED  BY <2>1, <3>2, <4>2, <4>3 DEF LastIs
    <3>. QED  BY <3>1, <3>2
  <2>12. HasReadAll(t, f, n)
    <3>1. /\ t.i = Number(KeysOf(f, n)) /\ t.count = s.count /\ t.pos = n + 1 /\ t.data = d
          /\ t = [i |-> t.i, count |-> t.count, pos |-> t.pos, data |-> t.data]
      BY <2>8, <2>9
    <3>2. t.count = f[HdrPos].count
      BY <1>4, <3>1 DEF HasReadAll
    <3>. QED  BY <2>3, <2>5, <2>9, <2>10, <2>11, <3>1, <3>2 DEF HasReadAll
  <2>. QED  BY <2>6, <2>12
<1>. QED  BY <1>2, <1>3, <1>4

LEMMA AllIsRead ==
    ASSUME NEW f, Unmarked(f), HasHeader(f)
    PROVE  LET s == LoopState(f)
           IN  HasReadAll(s, f, Len(f) - 1) \/ HasStopped(s, Len(f) - 1)
<1>1. Len(f) \in Nat \ {0} /\ f[HdrPos].count \in Nat
  BY FirstChunk DEF Unmarked
<1>2. PICK N : N = Len(f) - 1 /\ N \in Nat
  BY <1>1
<1>3. PICK st : IsLoop(f, N, st) /\ LoopState(f) = st[N]
  BY <1>1, <1>2, LoopIs
<1>4. st[0] = Start(f) /\ \A n \in 1..N : st[n] = Turn(f, st[n-1], n)
  BY <1>2, <1>3 DEF IsLoop
<1>. DEFINE OK(n) == HasReadAll(st[n], f, n) \/ HasStopped(st[n], n)
            Bad == {n \in 0..N : ~OK(n)}
<1>5. HasReadAll(Start(f), f, 0)
  <2>1. KeysOf(f, 0) = {}
    <3>1. 2..(0 + 1) = {}
      OBVIOUS
    <3>. QED  BY <3>1 DEF KeysOf
  <2>2. Number({}) = 0
    BY FS_EmptySet DEF Number, Positions
  <2>3. PICK s : s = Start(f)
    OBVIOUS
  <2>4. /\ s = [i |-> s.i, count |-> s.count, pos |-> s.pos, data |-> s.data]
        /\ s.i = 0 /\ s.count = f[HdrPos].count /\ s.pos = 1 /\ s.data = <<>>
    BY <2>3 DEF Start, HdrPos
  <2>5. DOMAIN s.data = {} /\ s.pos = 0 + 1 /\ s.i <= s.count
    BY <1>1, <2>4
  <2>6. HasReadAll(s, f, 0)
    BY <2>1, <2>2, <2>4, <2>5 DEF HasReadAll
  <2>. QED  BY <2>3, <2>6
<1>6. Bad = {}
  <2> SUFFICES ASSUME Bad # {}
               PROVE  FALSE
    OBVIOUS
  <2>1. PICK n \in Bad : \A l \in Bad : ~(l < n)
    <3>1. Bad \subseteq Nat
      BY <1>2
    <3>. HIDE DEF Bad
    <3>. QED  BY <3>1, LeastOf
  <2>2. n # 0
    BY <1>4, <1>5
  <2>3. n - 1 \in 0..N /\ n \in 1..N /\ n - 1 < n
    BY <1>2, <2>2
  <2>4. OK(n - 1)
    BY <2>1, <2>3
  <2>5. OK(n)
    BY <1>1, <1>2, <1>4, <2>3, <2>4, ReadsOn
  <2>. QED  BY <2>1, <2>5
<1>7. N \in 0..N
  BY <1>2
<1>. QED  BY <1>2, <1>3, <1>6, <1>7

-----------------------------------------------------------------------------
(* Files that can be left behind.  a is the map that the last save          *)
(* acknowledged, without the offsets.                                       *)

IsMap(a) == a = [k \in DOMAIN a |-> a[k]] /\ DOMAIN a \subseteq Keys

\* The records hold a, whatever the header says; keys that are not in a may be
\* there too.
Holds(f, a) == \A k \in DOMAIN a : LastIs(f, Len(f) - 1, k, a[k])
Counts(f, a) == HasHeader(f) /\ f[HdrPos].count = Number(DOMAIN a)

\* After a save.
Tells(f, a) == Unmarked(f) /\ IsMap(a) /\ Counts(f, a) /\ Holds(f, a)

\* Between the record and the header: the header counts the keys of a, which
\* are all before the last record.
Torn(f, a) ==
    /\ Unmarked(f) /\ IsMap(a) /\ Counts(f, a) /\ Len(f) >= 2
    /\ DOMAIN a \subseteq KeysOf(f, Len(f) - 2)

Safe(f, a) ==
    \A o \in LoadOutcomes(f, {}, FALSE) : o.rc = "Success" => Plain(o.data) = a

LEMMA KeysAre ==
    ASSUME NEW f, Unmarked(f), NEW n \in 0..(Len(f) - 1)
    PROVE  KeysOf(f, n) \subseteq Keys
<1> SUFFICES ASSUME NEW j \in 2..(n + 1)
             PROVE  f[j].key \in Keys
  BY DEF KeysOf
<1>1. j \in 2..Len(f) /\ j \in 1..Len(f)
  BY DEF Unmarked
<1>. QED  BY <1>1, ElementOfSeq, ChunkKinds DEF Unmarked

LEMMA LastIsOne ==
    ASSUME NEW f, NEW n \in Nat, NEW k, NEW v, NEW w, LastIs(f, n, k, v), LastIs(f, n, k, w)
    PROVE  v = w
<1>1. PICK i \in 2..(n + 1) : f[i].key = k /\ f[i].val = v /\ \A j \in (i + 1)..(n + 1) : f[j].key # k
  BY DEF LastIs
<1>2. PICK l \in 2..(n + 1) : f[l].key = k /\ f[l].val = w /\ \A j \in (l + 1)..(n + 1) : f[j].key # k
  BY DEF LastIs
<1>3. i = l \/ i \in (l + 1)..(n + 1) \/ l \in (i + 1)..(n + 1)
  OBVIOUS
<1>. QED  BY <1>1, <1>2, <1>3

\* load() succeeds only if its loop has read all records.
LEMMA SuccessMeans ==
    ASSUME NEW f, Unmarked(f), HasHeader(f), NEW o \in LoadOutcomes(f, {}, FALSE), o.rc = "Success"
    PROVE  LET s == LoopState(f)
           IN  /\ HasReadAll(s, f, Len(f) - 1)
               /\ Continues(s) \/ o.data = s.data
<1>1. PICK s : s = LoopState(f)
  OBVIOUS
<1>2. Continues(s) \/ (s.pos = Len(f) /\ o.data = s.data)
  BY <1>1 DEF LoadOutcomes
<1>3. ~HasStopped(s, Len(f) - 1)
  <2>1. (Len(f) - 1) + 1 = Len(f) /\ Len(f) \in Nat
    BY DEF Unmarked
  <2>. QED  BY <1>2, <2>1 DEF HasStopped
<1>. QED  BY <1>1, <1>2, <1>3, AllIsRead

LEMMA BrokenIsSafe == ASSUME NEW f, NEW a, ~HasHeader(f) PROVE Safe(f, a)
BY DEF Safe, LoadOutcomes

LEMMA TellsIsSafe == ASSUME NEW f, NEW a, Tells(f, a) PROVE Safe(f, a)
<1> SUFFICES ASSUME NEW o \in LoadOutcomes(f, {}, FALSE), o.rc = "Success"
             PROVE  Plain(o.data) = a
  BY DEF Safe
<1>1. Unmarked(f) /\ IsMap(a) /\ Counts(f, a) /\ Holds(f, a)
  BY DEF Tells
<1>2. PICK s : s = LoopState(f)
  OBVIOUS
<1>3. PICK N : N = Len(f) - 1 /\ N \in 0..(Len(f) - 1) /\ N \in Nat
  BY <1>1 DEF Unmarked
<1>4. HasReadAll(s, f, N) /\ (Continues(s) \/ o.data = s.data)
  BY <1>1, <1>2, <1>3, SuccessMeans DEF Counts
<1>5. PICK K : K = KeysOf(f, N)
  OBVIOUS
<1>6. K \subseteq Keys
  BY <1>1, <1>3, <1>5, KeysAre
<1>7. DOMAIN a \subseteq K
  BY <1>1, <1>3, <1>5 DEF Holds, LastIs, KeysOf
<1>8. s.i = Number(K) /\ s.i <= s.count /\ s.count = Number(DOMAIN a) /\ DOMAIN s.data = K
  BY <1>1, <1>4, <1>5 DEF HasReadAll, Counts
<1>9. DOMAIN a = K /\ ~Continues(s)
  BY <1>6, <1>7, <1>8, NumberOfPart, PositionsAre DEF Continues
<1>10. \A k \in DOMAIN a : s.data[k].val = a[k]
  BY <1>1, <1>3, <1>4, <1>8, <1>9, LastIsOne DEF HasReadAll, Holds
<1>. QED  BY <1>1, <1>4, <1>8, <1>9, <1>10 DEF Plain, IsMap

LEMMA TornIsSafe == ASSUME NEW f, NEW a, Torn(f, a) PROVE Safe(f, a)
<1> SUFFICES ASSUME NEW o \in LoadOutcomes(f, {}, FALSE), o.rc = "Success"
             PROVE  FALSE
  BY DEF Safe
<1>1. Unmarked(f) /\ Counts(f, a) /\ Len(f) >= 2 /\ DOMAIN a \subseteq KeysOf(f, Len(f) - 2)
  BY DEF Torn
<1>2. PICK s : s = LoopState(f)
  OBVIOUS
<1>3. HasReadAll(s, f, Len(f) - 1)
  BY <1>1, <1>2, SuccessMeans DEF Counts
<1>4. Len(f) - 1 # 0 /\ (Len(f) - 1) - 1 = Len(f) - 2
  BY <1>1 DEF Unmarked
<1>5. Number(KeysOf(f, Len(f) - 2)) < s.count /\ s.count = Number(DOMAIN a)
  BY <1>1, <1>3, <1>4 DEF HasReadAll, Counts
<1>. QED  BY <1>1, <1>5, NumberOfPart, PositionsAre

LEMMA ImageIsSafe == ASSUME NEW f, NEW m, DataOK(m), IsImage(f, m) PROVE Safe(f, Plain(m))
BY Rebuilt DEF Safe

-----------------------------------------------------------------------------
(* What instant_save() does to such a file. *)

\* An append before the header is written.
LEMMA AppendTears ==
    ASSUME NEW f, NEW a, Tells(f, a), NEW k \in Keys, NEW v \in Values,
           NEW g, g = f \o <<Record(k, v)>>
    PROVE  Torn(g, a) /\ Holds(g, Put(a, k, v))
<1>1. PICK r : r = Record(k, v)
  OBVIOUS
<1>2. r \in Chunks /\ r.kind = "rec" /\ r.key = k /\ r.val = v /\ r.del = FALSE
  BY <1>1, ChunkTypes DEF Record
<1>3. f \in Seq(Chunks) /\ Len(f) \in Nat \ {0}
  BY DEF Tells, Unmarked
<1>4. /\ g \in Seq(Chunks) /\ Len(g) = Len(f) + 1 /\ g[Len(f) + 1] = r
      /\ \A i \in 1..Len(f) : g[i] = f[i]
  BY <1>1, <1>2, <1>3
<1>5. Unmarked(g)
  <2>1. \A i \in 2..Len(g) : i \in 2..Len(f) \/ i = Len(f) + 1
    BY <1>3, <1>4
  <2>. QED  BY <1>2, <1>3, <1>4, <2>1 DEF Tells, Unmarked
<1>6. Counts(g, a)
  <2>1. 1 \in 1..Len(f)
    BY <1>3
  <2>2. g[HdrPos] = f[HdrPos]
    BY <1>4, <2>1 DEF HdrPos
  <2>3. g # <<>>
    BY <1>3, <1>4, EmptySeq
  <2>. QED  BY <2>2, <2>3 DEF Tells, Counts, HasHeader
<1>7. \A i \in 2..((Len(f) - 1) + 1) : g[i] = f[i]
  BY <1>3, <1>4
<1>8. DOMAIN a \subseteq KeysOf(g, Len(g) - 2)
  <2>1. Len(g) - 2 = Len(f) - 1
    BY <1>3, <1>4
  <2>2. DOMAIN a \subseteq KeysOf(f, Len(f) - 1)
    BY DEF Tells, Holds, LastIs, KeysOf
  <2>. QED  BY <1>7, <2>1, <2>2 DEF KeysOf
<1>9. Holds(g, Put(a, k, v))
  <2> SUFFICES ASSUME NEW x \in DOMAIN a \cup {k}
               PROVE  LastIs(g, Len(g) - 1, x, IF x = k THEN v ELSE a[x])
    BY DEF Holds, Put
  <2>1. Len(g) - 1 = Len(f)
    BY <1>3, <1>4
  <2>2. CASE x = k
    <3>1. Len(f) + 1 \in 2..(Len(f) + 1) /\ \A j \in ((Len(f) + 1) + 1)..(Len(f) + 1) : g[j].key # k
      BY <1>3
    <3>. QED  BY <1>2, <1>4, <2>1, <2>2, <3>1 DEF LastIs
  <2>3. CASE x # k
    <3>1. PICK i \in 2..((Len(f) - 1) + 1) :
            f[i].key = x /\ f[i].val = a[x] /\ \A j \in (i + 1)..((Len(f) - 1) + 1) : f[j].key # x
      BY <2>3 DEF Tells, Holds, LastIs
    <3>2. i \in 2..(Len(f) + 1) /\ \A j \in (i + 1)..(Len(f) + 1) :
                j = Len(f) + 1 \/ (j \in (i + 1)..((Len(f) - 1) + 1) /\ j \in 2..((Len(f) - 1) + 1))
      BY <1>3
    <3>3. \A j \in (i + 1)..(Len(f) + 1) : g[j].key # x
      BY <1>2, <1>4, <1>7, <2>3, <3>1, <3>2
    <3>. QED  BY <1>7, <2>1, <2>3, <3>1, <3>2, <3>3 DEF LastIs
  <2>. QED  BY <2>2, <2>3
<1>10. Len(g) >= 2
  BY <1>3, <1>4
<1>. QED  BY <1>5, <1>6, <1>8, <1>9, <1>10 DEF Tells, Torn

\* Only the first chunk of a file changes: the mark at the offset 0, and the header.
LEMMA FirstChanges ==
    ASSUME NEW f, Unmarked(f), NEW g \in Seq(Chunks), Len(g) = Len(f),
           \A i \in 2..Len(f) : g[i] = f[i], NEW a, Holds(f, a)
    PROVE  Unmarked(g) /\ Holds(g, a)
<1>1. Unmarked(g)
  BY DEF Unmarked
<1>2. 2..((Len(f) - 1) + 1) = 2..Len(f)
  BY DEF Unmarked
<1>3. \A i \in 2..Len(f) : \A j \in (i + 1)..Len(f) : j \in 2..Len(f)
  BY DEF Unmarked
<1>4. ASSUME NEW k \in DOMAIN a
      PROVE  LastIs(g, Len(g) - 1, k, a[k])
  <2>1. (Len(f) - 1) + 1 = Len(f)
    BY DEF Unmarked
  <2>2. PICK i \in 2..Len(f) :
           f[i].key = k /\ f[i].val = a[k] /\ \A j \in (i + 1)..Len(f) : f[j].key # k
    BY <1>4, <2>1 DEF Holds, LastIs
  <2>3. g[i].key = k /\ g[i].val = a[k] /\ \A j \in (i + 1)..Len(f) : g[j].key # k
    BY <1>3, <2>2
  <2>. QED  BY <2>1, <2>3 DEF LastIs
<1>. QED  BY <1>1, <1>4 DEF Holds

\* The header at the end of instant_save().
LEMMA HeaderTells ==
    ASSUME NEW f, Unmarked(f), NEW a, IsMap(a), Holds(f, a), NEW pol, NEW n, n = Number(DOMAIN a)
    PROVE  Tells(Overlay(f, HdrPos, <<Header(pol, n)>>), a)
<1>1. PICK h : h = Header(pol, n)
  OBVIOUS
<1>2. h \in Chunks /\ h.kind = "hdr" /\ h.count = n
  BY <1>1, PositionsAre, ChunkTypes DEF Header
<1>3. f \in Seq(Chunks) /\ Len(f) \in Nat \ {0} /\ f = [i \in 1..Len(f) |-> f[i]]
  BY LenProperties DEF Unmarked
<1>4. PICK q : q = <<h>>
  OBVIOUS
<1>5. q \in Seq(Chunks) /\ Len(q) = 1 /\ q[1] = h
  BY <1>2, <1>4
<1>6. PICK g : g = Overlay(f, 1, q)
  OBVIOUS
<1>7. g = [i \in 1..Len(f) |-> IF i = 1 THEN h ELSE f[i]]
  <2>. DEFINE last == 1 - 1 + Len(q)
              N == IF last > Len(f) THEN last ELSE Len(f)
              o == [i \in 1..N |-> IF i \in 1..last THEN q[i - 1 + 1]
                                   ELSE IF i <= Len(f) THEN f[i] ELSE Junk]
  <2>1. last = 1 /\ N = Len(f)
    BY <1>3, <1>5
  <2>2. \A i \in 1..Len(f) : o[i] = IF i = 1 THEN h ELSE f[i]
    BY <1>3, <1>5, <2>1
  <2>3. o = [i \in 1..Len(f) |-> IF i = 1 THEN h ELSE f[i]]
    <3>1. o = [i \in 1..Len(f) |-> o[i]]
      BY <2>1
    <3>. HIDE DEF o
    <3>. QED  BY <2>2, <3>1
  <2>4. g = o
    BY <1>6 DEF Overlay
  <2>. QED  BY <2>3, <2>4
<1>8. g \in Seq(Chunks)
  <2>1. 1 \in Nat \ {0}
    OBVIOUS
  <2>. QED  BY <1>3, <1>5, <1>6, <2>1, TypedOverlay
<1>9. Len(g) = Len(f) /\ g[1] = h /\ \A i \in 2..Len(f) : g[i] = f[i]
  <2>1. DOMAIN g = 1..Len(f)
    BY <1>7
  <2>2. Len(g) = Len(f)
    BY <1>3, <1>8, <2>1, LenProperties
  <2>3. 1 \in 1..Len(f) /\ \A i \in 2..Len(f) : i \in 1..Len(f) /\ i # 1
    BY <1>3
  <2>. QED  BY <1>7, <2>2, <2>3
<1>10. Unmarked(g) /\ Holds(g, a)
  BY <1>8, <1>9, FirstChanges
<1>11. Counts(g, a)
  <2>1. g # <<>>
    BY <1>3, <1>9, EmptySeq
  <2>. QED  BY <1>2, <1>9, <2>1 DEF Counts, HasHeader, HdrPos
<1>. QED  BY <1>1, <1>4, <1>6, <1>10, <1>11 DEF Tells, HdrPos

-----------------------------------------------------------------------------
(* The session. *)

\* What a kill may leave: a file cut off by the destructor, or a safe one.
LeavesSafe(f, a) == Short(f) \/ Safe(f, a)

\* The object of p writes to the file: until the destructor saves, the stream is
\* the one init_db() opened.
Session(p) ==
    /\ exists
    /\ m_policy[p] \in Policies
    /\ ~m_ownlock[p]
    /\ busy[p] \in {"no", "instant_save", "destructor"}
    /\ busy[p] # "destructor" =>
          /\ Writable(m_file[p]) /\ m_file[p].buf = <<>>
          /\ \A k \in DOMAIN m_data[p] : m_data[p][k].off = HdrPos
    /\ busy[p] = "destructor" =>
          /\ LeavesSafe(file, acked)
          /\ LeavesSafe(FlushedFile(file, m_file[p]), acked)
    /\ busy[p] = "no" =>
          /\ Tells(file, acked)
          /\ "AutoSave" \in m_policy[p] => m_data_diff[p] = <<>> /\ acked = Plain(m_data[p])
    /\ busy[p] = "instant_save" => Unmarked(file) /\ Holds(file, Plain(m_data[p]))
                    /\ (Torn(file, acked) \/ ~HasHeader(file))

Nothing(p) == m_data[p] = <<>> /\ m_data_diff[p] = <<>> /\ busy[p] = "no" /\ ~m_ownlock[p]

OneSession ==
    /\ \A p, q \in Procs : up[p] = "up" /\ up[q] = "up" => p = q
    /\ \A p \in Procs : up[p] # "hung"
    /\ opens = 0 => ~exists /\ AllDown

Sessions == \A p \in Procs : IF up[p] = "up" THEN Session(p) ELSE Nothing(p)

LeftBehind == AllDown /\ exists => LeavesSafe(file, acked)

CrashInv == TypeInv /\ OneSession /\ Sessions /\ LeftBehind
Rest == OneSession /\ Sessions /\ LeftBehind

LEMMA CrashInit == Init => CrashInv
<1> SUFFICES ASSUME Init
             PROVE  Rest
  BY TypeInvInit DEF CrashInv, Rest
<1>. QED  BY DEF Init, Rest, OneSession, AllDown, Sessions, Nothing, LeftBehind

LEMMA PlainIs ==
    ASSUME NEW m, DataOK(m)
    PROVE  IsMap(Plain(m)) /\ DOMAIN Plain(m) = DOMAIN m /\ Number(DOMAIN m) = Cardinality(Present(m))
BY DEF Plain, IsMap, DataOK, Number, Positions, Present

\* A step of the only object there is.
LEMMA SessionGoesOn ==
    ASSUME CrashInv, NEW p \in Procs, up[p] = "up",
           UNCHANGED <<exists, up, m_policy, m_ownlock, opens>>,
           \A q \in Procs \ {p} : UNCHANGED <<m_data[q], m_data_diff[q], busy[q]>>,
           Session(p)'
    PROVE  Rest'
<1>1. OneSession'
  BY DEF CrashInv, OneSession, AllDown
<1>2. Sessions'
  <2> SUFFICES ASSUME NEW q \in Procs, q # p
               PROVE  up[q] # "up" /\ Nothing(q)'
    BY DEF Sessions
  <2>1. up[q] # "up"
    BY DEF CrashInv, OneSession
  <2>. QED  BY <2>1 DEF CrashInv, Sessions, Nothing
<1>3. ~AllDown'
  BY DEF AllDown
<1>. QED  BY <1>1, <1>2, <1>3 DEF Rest, LeftBehind

\* The object is gone, and what it leaves is safe.
LEMMA SessionEnds ==
    ASSUME CrashInv, NEW p \in Procs, up[p] = "up", Gone(p), UNCHANGED <<exists, opens>>,
           LeavesSafe(file', acked')
    PROVE  Rest'
<1>1. \A q \in Procs : up'[q] = "down"
  <2>1. \A q \in Procs \ {p} : up[q] = "down"
    BY DEF CrashInv, OneSession, TypeInv, ObjectType
  <2>. QED  BY <2>1 DEF Gone, CrashInv, TypeInv, ObjectType
<1>2. \A q \in Procs : Nothing(q)'
  <2>1. Nothing(p)'
    BY DEF Gone, Nothing, CrashInv, TypeInv, ObjectType, DataType, DiffType
  <2>2. ASSUME NEW q \in Procs, q # p
        PROVE  Nothing(q)'
    <3>1. Nothing(q)
      BY <2>2 DEF CrashInv, OneSession, Sessions
    <3>2. UNCHANGED <<m_data[q], m_data_diff[q], busy[q], m_ownlock[q]>>
      BY <2>2 DEF Gone, CrashInv, TypeInv, ObjectType, DataType, DiffType
    <3>. QED  BY <3>1, <3>2 DEF Nothing
  <2>. QED  BY <2>1, <2>2
<1>3. opens' # 0
  BY DEF CrashInv, OneSession, AllDown
<1>. QED  BY <1>1, <1>2, <1>3 DEF Rest, OneSession, Sessions, LeftBehind

LEMMA CreateKeeps ==
    ASSUME CrashInv, NEW p \in Procs, NEW pol \in Policies, Create(p, pol)
    PROVE  Rest'
<1>1. \A q \in Procs : up[q] = "down" /\ Nothing(q)
  <2>1. ~exists /\ \A q \in Procs : up[q] \in {"down", "up", "hung"}
    BY DEF Create, CrashInv, TypeInv, ObjectType
  <2>. QED  BY <2>1 DEF CrashInv, OneSession, Sessions, Session
<1>2. up'[p] = "up" /\ m_policy'[p] = pol /\ m_file'[p] = OpenOut(HdrPos + 1, <<>>)
  BY DEF Create, CrashInv, TypeInv, ObjectType, StreamType
<1>3. \A q \in Procs : up'[q] = "up" <=> q = p
  BY <1>1, <1>2 DEF Create, CrashInv, TypeInv, ObjectType
<1>4. \A q \in Procs : Nothing(q)' /\ up'[q] # "hung"
  BY <1>1, <1>2 DEF Create, Nothing, CrashInv, TypeInv, ObjectType
<1>5. Tells(file', <<>>)
  <2>1. PICK h : h = Header(pol, 0)
    OBVIOUS
  <2>2. h \in Chunks /\ h.kind = "hdr" /\ h.count = 0
    BY <2>1, ChunkTypes DEF Header
  <2>3. PICK f : f = <<h>>
    OBVIOUS
  <2>4. f \in Seq(Chunks) /\ Len(f) = 1 /\ f[1] = h
    BY <2>2, <2>3
  <2>5. f # <<>> /\ 2..Len(f) = {}
    <3>1. f # <<>>
      BY <2>3
    <3>. QED  BY <2>4, <3>1
  <2>6. Number({}) = 0 /\ DOMAIN <<>> = {} /\ IsMap(<<>>)
    BY FS_EmptySet DEF Number, Positions, IsMap
  <2>7. Tells(f, <<>>)
    BY <2>2, <2>4, <2>5, <2>6 DEF Tells, Unmarked, Counts, HasHeader, HdrPos, Holds
  <2>. QED  BY <2>1, <2>3, <2>7 DEF Create
<1>6. Session(p)'
  <2>1. acked' = <<>> /\ exists' /\ m_policy'[p] \in Policies
    BY <1>2 DEF Create
  <2>2. Writable(m_file'[p]) /\ m_file'[p].buf = <<>>
    BY <1>2 DEF Writable, OpenOut
  <2>3. m_data'[p] = <<>> /\ m_data_diff'[p] = <<>> /\ busy'[p] = "no" /\ ~m_ownlock'[p]
    BY <1>4 DEF Nothing
  <2>4. Plain(m_data'[p]) = <<>>
    BY <2>3 DEF Plain
  <2>. QED  BY <1>5, <2>1, <2>2, <2>3, <2>4 DEF Session
<1>7. opens' # 0
  BY DEF Create, CrashInv, TypeInv, HistoryType
<1>. QED  BY <1>2, <1>3, <1>4, <1>6, <1>7 DEF Rest, OneSession, Sessions, LeftBehind, AllDown

\* Nothing is saved, or the one change of the call: a mark on the header, for no
\* other offset is known, or one record at the end.
LEMMA AutoSaveTears ==
    ASSUME NewFile, CrashInv, NEW p \in Procs, up[p] = "up", busy[p] = "no",
           NEW data, NEW k \in Keys, NEW e,
           AutoSave(p, data, With(m_data_diff[p], k, e)),
           \A x \in DOMAIN data : data[x].off = HdrPos,
           "AutoSave" \in m_policy[p] =>
              LET f == IF e.del THEN Marked(file, {e.off}) \o RecordsOf(<<>>)
                       ELSE Marked(file, {}) \o <<Record(k, e.val)>>
              IN  Unmarked(f) /\ Holds(f, Plain(data)) /\ (Torn(f, acked) \/ ~HasHeader(f))
    PROVE  Rest'
<1>1. Session(p) /\ TypeInv
  BY DEF CrashInv, Sessions
<1>2. PICK diff : diff = With(m_data_diff[p], k, e)
  OBVIOUS
<1>3. /\ m_data'[p] = data
      /\ \A q \in Procs \ {p} : UNCHANGED <<m_data[q], m_data_diff[q]>>
      /\ UNCHANGED <<exists, up, m_policy, m_ownlock, opens>>
  BY DEF AutoSave, CrashInv, TypeInv, DataType, DiffType
<1>4. CASE "AutoSave" \notin m_policy[p]
  <2>1. UNCHANGED <<file, m_file, busy, acked>>
    BY <1>4 DEF AutoSave
  <2>2. Session(p)'
    BY <1>1, <1>3, <1>4, <2>1 DEF Session
  <2>. QED  BY <1>3, <2>1, <2>2, SessionGoesOn
<1>5. CASE "AutoSave" \in m_policy[p]
  <2>1. FastSaveRecords(p, diff)
    BY <1>1, <1>2, <1>5 DEF AutoSave, NewFile, Session
  <2>2. m_data_diff[p] = <<>>
    BY <1>1, <1>5 DEF Session
  <2>3. DOMAIN diff = {k} /\ diff[k] = e
    BY <1>2, <2>2 DEF With
  <2>4. PICK s : s = m_file[p]
    OBVIOUS
  <2>5. s \in Streams /\ Writable(s) /\ s.buf = <<>>
    BY <1>1, <2>4 DEF Session, TypeInv, StreamType
  <2>6. FlushedFile(file, s) = file
    BY <2>5 DEF FlushedFile
  <2>7. PICK dl : dl = {x \in DOMAIN diff : diff[x].del}
    OBVIOUS
  <2>8. /\ file' = Marked(file, {diff[x].off : x \in dl}) \o RecordsOf([x \in DOMAIN diff \ dl |-> diff[x]])
        /\ m_file' = [m_file EXCEPT ![p] = FlushedStream(s)]
        /\ busy' = [busy EXCEPT ![p] = "instant_save"]
        /\ acked' = acked
    BY <2>1, <2>4, <2>5, <2>6, <2>7 DEF FastSaveRecords
  <2>9. file' = IF e.del THEN Marked(file, {e.off}) \o RecordsOf(<<>>)
                ELSE Marked(file, {}) \o <<Record(k, e.val)>>
    <3>1. CASE e.del
      <4>1. dl = {k} /\ {diff[x].off : x \in dl} = {e.off}
        BY <2>3, <2>7, <3>1
      <4>2. [x \in DOMAIN diff \ dl |-> diff[x]] = <<>>
        BY <2>3, <4>1
      <4>. QED  BY <2>8, <3>1, <4>1, <4>2
    <3>2. CASE ~e.del
      <4>1. dl = {} /\ {diff[x].off : x \in dl} = {}
        BY <2>3, <2>7, <3>2
      <4>2. PICK added : added = [x \in DOMAIN diff \ dl |-> diff[x]]
        OBVIOUS
      <4>3. DOMAIN added = {k} /\ added[k] = e
        BY <2>3, <4>1, <4>2
      <4>4. RecordsOf(added) = <<Record(k, e.val)>>
        <5>1. PICK i \in DOMAIN KeyOrder : KeyOrder[i] = k
          BY DEF Keys
        <5>2. Present(added) = {i}
          BY <4>3, <5>1, ConstantsAssumption DEF Present, ConstantsAssumption
        <5>3. Cardinality(Present(added)) = 1
          BY <5>2, FS_Singleton
        <5>4. NthKey(added, 1) = k
          BY <4>3, <5>3, NthKeyIs
        <5>5. RecordsOf(added) = [n \in 1..1 |-> Record(k, e.val)]
          <6>1. \A n \in 1..1 : Record(NthKey(added, n), added[NthKey(added, n)].val) = Record(k, e.val)
            BY <4>3, <5>4
          <6>. QED  BY <5>3, <6>1 DEF RecordsOf
        <5>. QED  BY <5>5
      <4>. QED  BY <2>8, <3>2, <4>1, <4>2, <4>4
    <3>. QED  BY <3>1, <3>2
  <2>10. FlushedStream(s).buf = <<>> /\ Writable(FlushedStream(s))
    BY <2>5 DEF FlushedStream, Streams, Writable
  <2>11. m_file'[p] = FlushedStream(s) /\ busy'[p] = "instant_save" /\ \A q \in Procs \ {p} : busy'[q] = busy[q]
    BY <1>1, <2>8 DEF TypeInv, StreamType, ObjectType
  <2>12. Unmarked(file') /\ Holds(file', Plain(data)) /\ (Torn(file', acked) \/ ~HasHeader(file'))
    BY <1>5, <2>9
  <2>13. Session(p)'
    BY <1>1, <1>3, <2>8, <2>10, <2>11, <2>12 DEF Session
  <2>. QED  BY <1>3, <2>11, <2>13, SessionGoesOn
<1>. QED  BY <1>4, <1>5

LEMMA StoreKeyKeeps ==
    ASSUME NewFile, CrashInv, NEW p \in Procs, up[p] = "up", busy[p] = "no",
           NEW k \in Keys, NEW v \in Values, StoreKey(p, k, v, HdrPos)
    PROVE  Rest'
<1>1. Session(p) /\ TypeInv /\ DataOK(m_data[p])
  BY DEF CrashInv, Sessions, TypeInv, DataType
<1>2. PICK data : data = With(m_data[p], k, [val |-> v, off |-> HdrPos])
  OBVIOUS
<1>3. PICK e : e = [val |-> v, off |-> HdrPos, del |-> FALSE]
  OBVIOUS
<1>4. AutoSave(p, data, With(m_data_diff[p], k, e))
  BY <1>2, <1>3 DEF StoreKey
<1>5. \A x \in DOMAIN data : data[x].off = HdrPos
  BY <1>1, <1>2 DEF With, Session
<1>6. ASSUME "AutoSave" \in m_policy[p]
      PROVE  LET f == Marked(file, {}) \o <<Record(k, v)>>
             IN  Unmarked(f) /\ Holds(f, Plain(data)) /\ Torn(f, acked)
  <2>1. Tells(file, acked) /\ acked = Plain(m_data[p])
    BY <1>1, <1>6 DEF Session
  <2>2. Marked(file, {}) = file
    <3>1. file = [i \in DOMAIN file |-> file[i]]
      BY <1>1, LenProperties DEF TypeInv, FileType
    <3>. QED  BY <3>1 DEF Marked
  <2>3. PICK f : f = file \o <<Record(k, v)>>
    OBVIOUS
  <2>4. PICK g, m : g = file /\ m = m_data[p]
    OBVIOUS
  <2>5. PICK a : a = Plain(m)
    OBVIOUS
  <2>6. acked = a /\ Tells(g, a) /\ f = g \o <<Record(k, v)>>
    BY <2>1, <2>3, <2>4, <2>5
  <2>7. Torn(f, a) /\ Holds(f, Put(a, k, v))
    BY <2>6, AppendTears
  <2>8. Plain(data) = Put(a, k, v)
    <3>1. data = With(m, k, [val |-> v, off |-> HdrPos])
      BY <1>2, <2>4
    <3>. QED  BY <2>5, <3>1, PlainWith
  <2>. QED  BY <2>2, <2>3, <2>6, <2>7, <2>8 DEF Torn
<1>7. e.del = FALSE /\ e.val = v
  BY <1>3
<1>. QED  BY <1>4, <1>5, <1>6, <1>7, AutoSaveTears

LEMMA DeleteKeyKeeps ==
    ASSUME NewFile, CrashInv, NEW p \in Procs, NEW k \in Keys, DeleteKey(p, k)
    PROVE  Rest'
<1>1. Session(p) /\ TypeInv /\ DataOK(m_data[p]) /\ up[p] = "up" /\ busy[p] = "no"
  BY DEF DeleteKey, Ready, CrashInv, Sessions, TypeInv, DataType
<1>2. PICK data : data = Without(m_data[p], k)
  OBVIOUS
<1>3. PICK e : e.off = HdrPos /\ e.del = TRUE /\ AutoSave(p, data, With(m_data_diff[p], k, e))
  <2>1. PICK off, val :
          /\ off = IF k \in DOMAIN m_data[p] THEN m_data[p][k].off ELSE HdrPos
          /\ AutoSave(p, data, With(m_data_diff[p], k, [val |-> val, off |-> off, del |-> TRUE]))
    BY <1>2 DEF DeleteKey
  <2>2. off = HdrPos
    BY <1>1, <2>1 DEF Session
  <2>3. PICK e : e = [val |-> val, off |-> off, del |-> TRUE]
    OBVIOUS
  <2>. QED  BY <2>1, <2>2, <2>3
<1>4. \A x \in DOMAIN data : data[x].off = HdrPos
  BY <1>1, <1>2 DEF Without, Session
<1>5. ASSUME "AutoSave" \in m_policy[p]
      PROVE  LET f == Marked(file, {HdrPos}) \o RecordsOf(<<>>)
             IN  Unmarked(f) /\ Holds(f, Plain(data)) /\ ~HasHeader(f)
  <2>1. Tells(file, acked) /\ acked = Plain(m_data[p])
    BY <1>1, <1>5 DEF Session
  <2>2. /\ file \in Seq(Chunks) /\ Len(file) \in Nat \ {0} /\ DOMAIN file = 1..Len(file)
        /\ file[1].kind = "hdr"
    BY <2>1, LenProperties DEF Tells, Unmarked, Counts, HasHeader, HdrPos
  <2>3. PICK g : g = Marked(file, {HdrPos})
    OBVIOUS
  <2>4. g = [i \in 1..Len(file) |-> IF i = 1 THEN Junk ELSE file[i]]
    <3>1. 1 <= Len(file)
      BY <2>2
    <3>2. \A i \in 1..Len(file) : (i \notin {1}) <=> i # 1
      OBVIOUS
    <3>3. g = [i \in 1..Len(file) |-> IF i \notin {1} THEN file[i]
                                      ELSE IF file[i].kind = "rec"
                                      THEN DeletedRecord(file[i].key, file[i].val) ELSE Junk]
      BY <2>2, <2>3, <3>1 DEF Marked, HdrPos
    <3>. QED  BY <2>2, <3>2, <3>3
  <2>5. g \in Seq(Chunks)
    BY <2>2, <2>3, TypedMarked
  <2>6. Len(g) = Len(file) /\ g[1] = Junk /\ \A i \in 2..Len(file) : g[i] = file[i]
    <3>1. DOMAIN g = 1..Len(file)
      BY <2>4
    <3>2. Len(g) = Len(file)
      BY <2>2, <2>5, <3>1, LenProperties
    <3>3. 1 \in 1..Len(file) /\ \A i \in 2..Len(file) : i \in 1..Len(file) /\ i # 1
      BY <2>2
    <3>. QED  BY <2>4, <3>2, <3>3
  <2>7. Unmarked(g) /\ Holds(g, acked)
    BY <2>1, <2>5, <2>6, FirstChanges DEF Tells
  <2>8. Holds(g, Plain(data))
    <3>1. PICK m, a : m = m_data[p] /\ a = Plain(m)
      OBVIOUS
    <3>2. data = Without(m, k) /\ Holds(g, a)
      BY <1>2, <2>1, <2>7, <3>1
    <3>3. Plain(data) = Removed(a, k)
      BY <3>1, <3>2, PlainWithout
    <3>. QED  BY <3>2, <3>3 DEF Holds, Removed
  <2>9. RecordsOf(<<>>) = <<>>
    <3>1. Present(<<>>) = {}
      BY DEF Present
    <3>2. Cardinality(Present(<<>>)) = 0
      BY <3>1, FS_EmptySet
    <3>3. 1..0 = {}
      OBVIOUS
    <3>. QED  BY <3>2, <3>3 DEF RecordsOf
  <2>10. g \o <<>> = g
    BY <2>5
  <2>11. ~HasHeader(g)
    BY <2>6 DEF HasHeader, HdrPos, Junk
  <2>. QED  BY <2>3, <2>7, <2>8, <2>9, <2>10, <2>11
<1>. QED  BY <1>1, <1>3, <1>4, <1>5, AutoSaveTears

LEMMA FastSaveHeaderKeeps ==
    ASSUME CrashInv, NEW p \in Procs, FastSaveHeader(p)
    PROVE  Rest'
<1>1. Session(p) /\ TypeInv /\ DataOK(m_data[p]) /\ up[p] = "up" /\ busy[p] = "instant_save"
  BY DEF FastSaveHeader, CrashInv, Sessions, TypeInv, DataType
<1>2. PICK a : a = Plain(m_data[p])
  OBVIOUS
<1>3. IsMap(a) /\ Cardinality(Present(m_data[p])) = Number(DOMAIN a)
  BY <1>1, <1>2, PlainIs
<1>4. Unmarked(file) /\ Holds(file, a)
  BY <1>1, <1>2 DEF Session
<1>5. file' = Overlay(file, HdrPos, <<Header(m_policy[p], Cardinality(Present(m_data[p])))>>)
  BY <1>1 DEF FastSaveHeader, Session
<1>6. Tells(file', a)
  BY <1>3, <1>4, <1>5, HeaderTells
<1>7. /\ m_data_diff'[p] = <<>> /\ busy'[p] = "no" /\ acked' = a
      /\ \A q \in Procs \ {p} : UNCHANGED <<m_data[q], m_data_diff[q], busy[q]>>
      /\ UNCHANGED <<exists, up, m_policy, m_data, m_file, m_ownlock, opens>>
  BY <1>1, <1>2 DEF FastSaveHeader, TypeInv, DiffType, ObjectType
<1>8. Session(p)'
  BY <1>1, <1>2, <1>6, <1>7 DEF Session
<1>. QED  BY <1>1, <1>7, <1>8, SessionGoesOn

\* Whatever prefix of an image is on disk: no header, too few records, or all.
LEMMA PrefixIsSafe ==
    ASSUME NEW img, NEW m, DataOK(m), IsImage(img, m), NEW n \in 0..Len(img)
    PROVE  LeavesSafe(SubSeq(img, 1, n), Plain(m))
<1>1. PICK c : c = Cardinality(Present(m)) /\ c \in Nat
  BY PresentIs
<1>2. /\ img \in Seq(Chunks) /\ Len(img) = c + 1 /\ n \in Nat /\ n <= c + 1
      /\ img[1].kind = "hdr" /\ img[1].count = c
  BY <1>1 DEF IsImage
<1>3. PICK f : f = SubSeq(img, 1, n)
  OBVIOUS
<1>4. f \in Seq(Chunks) /\ Len(f) = n /\ \A i \in 1..n : f[i] = img[i]
  <2>1. \A i \in 1..n : img[i] \in Chunks
    BY <1>1, <1>2, ElementOfSeq
  <2>. QED  BY <1>2, <1>3, <2>1, SubSeqProperties
<1>5. CASE n = 0
  <2>1. f = <<>>
    BY <1>4, <1>5, EmptySeq
  <2>. QED  BY <1>3, <2>1, BrokenIsSafe DEF HasHeader, LeavesSafe
<1>6. CASE 0 < n /\ n < c + 1
  <2>1. f # <<>> /\ f[1] = img[1]
    BY <1>2, <1>4, <1>6, EmptySeq
  <2>. QED  BY <1>1, <1>2, <1>3, <1>4, <1>6, <2>1 DEF Short, HasHeader, HdrPos, LeavesSafe
<1>7. CASE n = c + 1
  <2>1. f = img
    BY <1>2, <1>3, <1>7, SubSeqProperties
  <2>. QED  BY <1>3, <2>1, ImageIsSafe DEF LeavesSafe
<1>. QED  BY <1>1, <1>2, <1>5, <1>6, <1>7

LEMMA CloseKeeps ==
    ASSUME CrashInv, NEW p \in Procs, Close(p)
    PROVE  Rest'
<1>1. Session(p) /\ TypeInv /\ DataOK(m_data[p]) /\ up[p] = "up" /\ busy[p] = "no"
  BY DEF Close, Ready, CrashInv, Sessions, TypeInv, DataType
<1>2. LeavesSafe(file', acked') /\ LeavesSafe(FlushedFile(file', m_file'[p]), acked')
  <2>1. CASE "ReadOnly" \notin m_policy[p]
    <3>1. PICK img : img = Image(m_policy[p], m_data[p])
      OBVIOUS
    <3>2. PICK n \in 0..Len(img) : file' = SubSeq(img, 1, n) /\ acked' = Plain(m_data[p])
      BY <2>1, <3>1 DEF Close, SaveData
    <3>3. IsImage(img, m_data[p])
      BY <1>1, <3>1, ImageIsImage
    <3>4. LeavesSafe(file', acked')
      BY <1>1, <3>2, <3>3, PrefixIsSafe
    <3>5. IsImage(FlushedFile(file', m_file'[p]), m_data[p])
      BY <1>1, <2>1, SaveCloses DEF Close, Closes
    <3>6. Safe(FlushedFile(file', m_file'[p]), acked')
      BY <1>1, <3>2, <3>5, ImageIsSafe
    <3>. QED  BY <3>4, <3>6 DEF LeavesSafe
  <2>2. CASE "ReadOnly" \in m_policy[p]
    <3>1. UNCHANGED <<file, m_file, acked>>
      BY <2>2 DEF Close
    <3>2. FlushedFile(file, m_file[p]) = file
      BY <1>1 DEF FlushedFile, Session
    <3>3. Safe(file, acked)
      BY <1>1, TellsIsSafe DEF Session
    <3>. QED  BY <3>1, <3>2, <3>3 DEF LeavesSafe
  <2>. QED  BY <2>1, <2>2
<1>3. /\ busy'[p] = "destructor" /\ \A q \in Procs \ {p} : busy'[q] = busy[q]
      /\ UNCHANGED <<exists, up, m_policy, m_data, m_data_diff, m_ownlock, opens>>
  BY <1>1 DEF Close, TypeInv, ObjectType
<1>4. Session(p)'
  BY <1>1, <1>2, <1>3 DEF Session
<1>. QED  BY <1>1, <1>3, <1>4, SessionGoesOn

LEMMA CloseEndKeeps ==
    ASSUME CrashInv, NEW p \in Procs, CloseEnd(p)
    PROVE  Rest'
<1>1. Session(p) /\ up[p] = "up" /\ busy[p] = "destructor"
  BY DEF CloseEnd, CrashInv, Sessions
<1>2. file' = FlushedFile(file, m_file[p]) /\ acked' = acked
  BY <1>1 DEF CloseEnd, Session
<1>3. LeavesSafe(file', acked')
  BY <1>1, <1>2 DEF Session
<1>4. Gone(p) /\ UNCHANGED <<exists, opens>>
  BY DEF CloseEnd
<1>. QED  BY <1>1, <1>3, <1>4, SessionEnds

LEMMA CrashKeeps ==
    ASSUME CrashInv, NEW p \in Procs, Crash(p)
    PROVE  Rest'
<1>1. up[p] = "up" /\ Session(p)
  BY DEF Crash, CrashInv, OneSession, Sessions, TypeInv, ObjectType
<1>2. LeavesSafe(file, acked)
  BY <1>1, TellsIsSafe, TornIsSafe, BrokenIsSafe DEF Session, LeavesSafe
<1>3. file' = file /\ acked' = acked /\ Gone(p) /\ UNCHANGED <<exists, opens>>
  BY DEF Crash
<1>. QED  BY <1>1, <1>2, <1>3, SessionEnds

LEMMA CrashStep == NewFile /\ CrashInv /\ [Next]_vars => CrashInv'
<1> SUFFICES ASSUME NewFile, CrashInv, [Next]_vars
             PROVE  Rest'
  BY TypeInvStep DEF CrashInv, Rest
<1>1. CASE UNCHANGED vars
  BY <1>1 DEF vars, CrashInv, Rest, OneSession, AllDown, Sessions, Session, Nothing, LeftBehind
<1>2. ASSUME NEW p \in Procs, NEW pol \in Policies, Create(p, pol) \/ Open(p, pol)
      PROVE  Rest'
  <2>1. exists => ~(opens < MaxOpens)
    BY DEF NewFile, CrashInv, OneSession, TypeInv, HistoryType
  <2>2. ~Open(p, pol)
    BY <2>1 DEF Open
  <2>. QED  BY <1>2, <2>2, CreateKeeps
<1>3. ASSUME NEW p \in Procs, NEW k \in Keys, NEW v \in Vals, AddKey(p, k, v)
      PROVE  Rest'
  BY <1>3, StoreKeyKeeps DEF AddKey, Ready, Values
<1>4. ASSUME NEW p \in Procs, NEW k \in Keys, NEW src \in Keys, CopyKey(p, k, src)
      PROVE  Rest'
  <2>1. src \in DOMAIN m_data[p] /\ up[p] = "up" /\ busy[p] = "no"
    BY <1>4 DEF CopyKey, Ready
  <2>2. m_data[p][src].val \in Values /\ m_data[p][src].off = HdrPos
    BY <2>1 DEF CrashInv, TypeInv, DataType, DataOK, Sessions, Session
  <2>. QED  BY <1>4, <2>1, <2>2, StoreKeyKeeps DEF CopyKey
<1>5. ASSUME NEW p \in Procs, NEW k \in Keys, DeleteKey(p, k)
      PROVE  Rest'
  BY <1>5, DeleteKeyKeeps
<1>6. ASSUME NEW p \in Procs, FastSaveHeader(p) \/ Close(p) \/ CloseEnd(p) \/ Crash(p)
      PROVE  Rest'
  BY <1>6, FastSaveHeaderKeeps, CloseKeeps, CloseEndKeeps, CrashKeeps
<1>7. \A p \in Procs : ~Save(p) /\ ~Load(p) /\ ~Locked(p) /\ ~Lock(p) /\ ~Release(p)
  BY DEF NewFile, Save, Load, Locked, Lock, Release, Ready
<1>8. \A p \in Procs : ~LockWrite(p)
  BY DEF LockWrite, CrashInv, Sessions, Session
<1>. QED  BY <1>1, <1>2, <1>3, <1>4, <1>5, <1>6, <1>7, <1>8 DEF Next, Done

\* A new file and one session on it, of any number of addKey() and deleteKey()
\* with any keys and values, with FastSave or saved by the destructor only: at
\* whatever step the program is killed, between the record and the header of a
\* FastSave or inside the destructor's save() with any part of the file still
\* buffered, the next load() reports an error or returns the map that the last
\* save acknowledged, or the file has fewer records than its header counts.
THEOREM NothingIsLost ==
    ASSUME NewFile
    PROVE  Spec => []NoSilentLoss
<1>1. CrashInv /\ [Next]_vars => CrashInv'
  BY CrashStep
<1>2. CrashInv => NoSilentLoss
  BY DEF CrashInv, LeftBehind, NoSilentLoss, LeavesSafe, Safe
<1>. QED  BY <1>1, <1>2, CrashInit, PTL DEF Spec

-----------------------------------------------------------------------------
(* One program that is not killed, and the sessions of a store. *)

OfVals(m) == \A k \in DOMAIN m : m[k].val \in Vals

\* The file f is what save() makes of m.
Saved(f, m) == DataOK(m) /\ OfVals(m) /\ IsImage(f, m)

\* Between sessions the file is what save() made of some map.
KeepsMap == up[P] = "down" /\ exists => \E m : Saved(file, m)

\* In a session that cannot change the map, and inside the destructor, what is on
\* disk and what the stream still buffers make up that map.
Settled(f, s, data) ==
    /\ ~Writable(s) => s.buf = <<>>
    /\ \E m : Saved(FlushedFile(f, s), m) /\ Plain(m) = Plain(data)
ReadsMap ==
    up[P] = "up" /\ ("ReadOnly" \in m_policy[P] \/ busy[P] = "destructor") =>
        Settled(file, m_file[P], m_data[P])

ProgramOK ==
    /\ up[P] # "hung"
    /\ ~exists => up[P] = "down"
    /\ up[P] = "down" => m_data[P] = <<>> /\ busy[P] = "no"
    /\ busy[P] = "instant_save" => "ReadOnly" \notin m_policy[P]
    /\ OfVals(m_data[P])

StoreInv == TypeInv /\ ProgramOK /\ KeepsMap /\ ReadsMap

-----------------------------------------------------------------------------
(* What lies on disk between the sessions. *)

DiskMap(f) ==
    LET o == CHOOSE o \in LoadOutcomes(f, {}, TRUE) : TRUE
    IN  IF o.rc = "Success" THEN Plain(o.data) ELSE <<o.rc>>

LEMMA OutcomeExists == ASSUME NEW f PROVE \E o : o \in LoadOutcomes(f, {}, TRUE)
<1>1. CASE ~HasHeader(f)
  BY <1>1 DEF LoadOutcomes
<1>2. CASE HasHeader(f)
  <2>1. PICK s : s = LoopState(f)
    OBVIOUS
  <2>2. CASE ~Continues(s) /\ s.pos = Len(f)
    <3>1. [rc |-> "Success", data |-> s.data, st |-> "eof"] \in LoadOutcomes(f, {}, TRUE)
      BY <1>2, <2>1, <2>2 DEF LoadOutcomes
    <3>. QED  BY <3>1
  <2>3. CASE ~Continues(s) /\ s.pos # Len(f)
    <3>1. [rc |-> "Corrupted", data |-> s.data, st |-> "good"] \in LoadOutcomes(f, {}, TRUE)
      BY <1>2, <2>1, <2>3 DEF LoadOutcomes
    <3>. QED  BY <3>1
  <2>4. CASE Continues(s)
    <3>1. [rc |-> "Hang", data |-> <<>>, st |-> "fail"] \in LoadOutcomes(f, {}, TRUE)
      BY <1>2, <2>1, <2>4 DEF LoadOutcomes
    <3>. QED  BY <3>1
  <2>. QED  BY <2>2, <2>3, <2>4
<1>. QED  BY <1>1, <1>2

LEMMA DiskMapIs ==
    ASSUME NEW f, NEW m, Saved(f, m)
    PROVE  DiskMap(f) = Plain(m)
<1>1. PICK o : o = CHOOSE x \in LoadOutcomes(f, {}, TRUE) : TRUE
  OBVIOUS
<1>2. o \in LoadOutcomes(f, {}, TRUE)
  BY <1>1, OutcomeExists
<1>3. o.rc = "Success" /\ Plain(o.data) = Plain(m)
  BY <1>2, Rebuilt, ZenonT(30) DEF Saved
<1>. QED  BY <1>1, <1>3 DEF DiskMap

LEMMA OnDiskIs == OnDisk = IF ~exists THEN <<>> ELSE DiskMap(file)
BY DEF OnDisk, DiskMap

LEMMA OnDiskThen == OnDisk' = IF ~exists' THEN <<>> ELSE DiskMap(file')
BY DEF OnDisk, DiskMap

LEMMA PlainEmpty == Plain(<<>>) = <<>>
BY DEF Plain

LEMMA SamePlain ==
    ASSUME NEW d, NEW m, Plain(d) = Plain(m), OfVals(m)
    PROVE  OfVals(d)
<1>1. DOMAIN Plain(d) = DOMAIN d /\ DOMAIN Plain(m) = DOMAIN m
  BY DEF Plain
<1>2. \A k \in DOMAIN d : Plain(d)[k] = d[k].val
  BY DEF Plain
<1>3. \A k \in DOMAIN m : Plain(m)[k] = m[k].val
  BY DEF Plain
<1>. QED  BY <1>1, <1>2, <1>3 DEF OfVals

-----------------------------------------------------------------------------
(* The calls that leave the map alone. *)

LEMMA EmptyBuffer ==
    ASSUME NEW s \in Streams
    PROVE  /\ FlushedStream(s).buf = <<>> /\ FlushedStream(s).mode = s.mode /\ FlushedStream(s).st = s.st
           /\ [s EXCEPT !.st = "fail"].buf = s.buf
           /\ [s EXCEPT !.st = "fail", !.buf = <<>>].buf = <<>>
           /\ [s EXCEPT !.st = "fail", !.buf = <<>>].st = "fail"
BY DEF FlushedStream, Streams

LEMMA SettledRead ==
    ASSUME NEW f, NEW s \in Streams, NEW data, Settled(f, s, data)
    PROVE  LET t == AfterReadPolicy(f, s)
           IN  t.buf = <<>> /\ ~Writable(t) /\ Settled(FlushedFile(f, s), t, data)
<1>1. PICK t : t = AfterReadPolicy(f, s)
  OBVIOUS
<1>2. t.buf = <<>> /\ ~Writable(t)
  <2>1. CASE s.mode = "closed" \/ ReadsPolicy(f, s)
    BY <1>1, <2>1 DEF AfterReadPolicy, ReadsPolicy, Writable, Settled
  <2>2. CASE ~(s.mode = "closed" \/ ReadsPolicy(f, s))
    BY <1>1, <2>2, EmptyBuffer DEF AfterReadPolicy, Writable
  <2>. QED  BY <2>1, <2>2
<1>3. PICK g : g = FlushedFile(f, s)
  OBVIOUS
<1>4. FlushedFile(g, t) = g
  BY <1>2 DEF FlushedFile
<1>. QED  BY <1>1, <1>2, <1>3, <1>4 DEF Settled

LEMMA SettledWrite ==
    ASSUME NEW f, NEW s \in Streams, NEW data, Settled(f, s, data), NEW pol
    PROVE  LET g == WrittenPolicy(f, s, pol)
           IN  /\ Settled(g, AfterWritePolicy(s), data)
               /\ \E m : Saved(g, m) /\ Plain(m) = Plain(data)
<1>1. PICK g : g = WrittenPolicy(f, s, pol)
  OBVIOUS
<1>2. PICK t : t = AfterWritePolicy(s)
  OBVIOUS
<1>3. PICK m : Saved(FlushedFile(f, s), m) /\ Plain(m) = Plain(data)
  BY DEF Settled
<1>4. Saved(g, m)
  <2>1. PICK h : h = FlushedFile(f, s)
    OBVIOUS
  <2>2. IsImage([h EXCEPT ![HdrPos].pol = pol \cap LibFlags], m)
    BY <1>3, <2>1, PolicyKeepsImage DEF Saved
  <2>3. g = h \/ g = [h EXCEPT ![HdrPos].pol = pol \cap LibFlags]
    BY <1>1, <2>1 DEF WrittenPolicy
  <2>. QED  BY <1>3, <2>1, <2>2, <2>3 DEF Saved
<1>5. t.buf = <<>>
  BY <1>2, EmptyBuffer DEF AfterWritePolicy, Settled
<1>6. FlushedFile(g, t) = g
  BY <1>5 DEF FlushedFile
<1>. QED  BY <1>1, <1>2, <1>3, <1>4, <1>5, <1>6 DEF Settled

-----------------------------------------------------------------------------
(* The invariant, and the step of the store that each step is. *)

Kept == ProgramOK /\ KeepsMap /\ ReadsMap

StoreStep == [Store!Next]_<<InSession, Shown>>

LEMMA TheProgram == OneProgram => P \in Procs /\ \A p \in Procs : p = P
BY DEF OneProgram

LEMMA StoreInvInit == OneProgram /\ Init => StoreInv
<1> SUFFICES ASSUME OneProgram, Init
             PROVE  Kept
  BY TypeInvInit DEF StoreInv, Kept
<1>. QED  BY TheProgram DEF Init, Kept, ProgramOK, KeepsMap, ReadsMap, OfVals

LEMMA StoreInit == OneProgram /\ Init => Store!Init
<1> SUFFICES ASSUME OneProgram, Init
             PROVE  Store!Init
  OBVIOUS
<1>1. ~InSession /\ OnDisk = <<>>
  BY TheProgram, OnDiskIs DEF Init, InSession
<1>2. Shown = <<>>
  BY <1>1 DEF Shown
<1>. QED  BY <1>1, <1>2 DEF Store!Init

\* A step within a session.
LEMMA SessionKeeps ==
    ASSUME StoreInv, up[P] = "up", UNCHANGED <<exists, up, m_policy>>,
           OfVals(m_data'[P]), busy'[P] = "instant_save" => "ReadOnly" \notin m_policy[P],
           "ReadOnly" \in m_policy[P] \/ busy'[P] = "destructor" =>
               Settled(file', m_file'[P], m_data'[P])
    PROVE  Kept'
BY DEF StoreInv, Kept, ProgramOK, KeepsMap, ReadsMap

LEMMA SessionStutters ==
    ASSUME up[P] = "up", UNCHANGED <<up, m_data>>
    PROVE  StoreStep
BY DEF StoreStep, InSession, Shown

LEMMA CreateStep ==
    ASSUME OneProgram, StoreInv, NEW pol \in Policies, Create(P, pol)
    PROVE  Kept' /\ StoreStep
<1>1. m_data'[P] = <<>> /\ busy'[P] = "no"
  BY TheProgram DEF Create, StoreInv, ProgramOK, TypeInv, ObjectType
<1>2. up'[P] = "up" /\ exists'
  BY TheProgram DEF Create, StoreInv, TypeInv, ObjectType
<1>3. PICK f : f = <<Header(pol, 0)>>
  OBVIOUS
<1>4. Saved(f, <<>>)
  <2>1. Cardinality(Present(<<>>)) = 0
    <3>1. Present(<<>>) = {}
      BY DEF Present
    <3>. QED  BY <3>1, FS_EmptySet
  <2>2. f \in Seq(Chunks) /\ Len(f) = 1 /\ f[1] = Header(pol, 0)
    BY <1>3, ChunkTypes
  <2>3. f[1].kind = "hdr" /\ f[1].count = 0
    BY <2>2 DEF Header
  <2>. QED  BY <2>1, <2>2, <2>3, EmptyData DEF Saved, OfVals, IsImage
<1>5. m_file'[P] = OpenOut(HdrPos + 1, <<>>)
  BY TheProgram DEF Create, StoreInv, TypeInv, StreamType
<1>6. Settled(file', m_file'[P], <<>>)
  <2>1. PICK s : s = OpenOut(HdrPos + 1, <<>>)
    OBVIOUS
  <2>2. Writable(s) /\ s.buf = <<>>
    BY <2>1 DEF Writable, OpenOut
  <2>3. FlushedFile(f, s) = f
    BY <2>2 DEF FlushedFile
  <2>4. Settled(f, s, <<>>)
    BY <1>4, <2>2, <2>3 DEF Settled
  <2>. QED  BY <1>3, <1>5, <2>1, <2>4 DEF Create
<1>7. Kept'
  BY <1>1, <1>2, <1>6 DEF Kept, ProgramOK, KeepsMap, ReadsMap, OfVals
<1>8. StoreStep
  <2>1. ~InSession /\ OnDisk = <<>>
    BY OnDiskIs DEF Create, InSession
  <2>2. InSession' /\ Shown' = <<>>
    BY <1>1, <1>2, PlainEmpty DEF InSession, Shown
  <2>3. Store!Start
    BY <2>1, <2>2 DEF Store!Start, Shown
  <2>. QED  BY <2>3 DEF StoreStep, Store!Next
<1>. QED  BY <1>7, <1>8

LEMMA OpenStep ==
    ASSUME OneProgram, StoreInv, NEW pol \in Policies, Open(P, pol)
    PROVE  Kept' /\ StoreStep
<1>1. PICK m : Saved(file, m)
  BY DEF Open, StoreInv, KeepsMap
<1>2. up[P] = "down" /\ exists /\ UNCHANGED <<exists, file>>
  BY DEF Open
<1>3. PICK o \in LoadOutcomes(file, pol, FALSE) :
        \/ /\ o.rc = "Success"
           /\ up' = [up EXCEPT ![P] = "up"]
           /\ m_data' = [m_data EXCEPT ![P] = o.data]
           /\ m_file' = [m_file EXCEPT ![P] = OpenIn(o.st)]
           /\ UNCHANGED busy
        \/ o.rc = "Hang"
        \/ o.rc \in {"NotDBFile", "Locked", "Corrupted"} /\ Gone(P)
  BY DEF Open
<1>4. o.rc \in {"Success", "Locked"} /\ (o.rc = "Success" => Plain(o.data) = Plain(m))
  BY <1>1, <1>3, Rebuilt DEF Saved
<1>5. Shown = Plain(m) /\ ~InSession
  BY <1>1, <1>2, OnDiskIs, DiskMapIs DEF Shown, InSession
<1>6. CASE o.rc = "Success"
  <2>1. up'[P] = "up" /\ m_data'[P] = o.data /\ m_file'[P] = OpenIn(o.st) /\ busy'[P] = "no"
    BY <1>2, <1>3, <1>6, TheProgram
       DEF StoreInv, ProgramOK, TypeInv, ObjectType, DataType, StreamType
  <2>2. Plain(o.data) = Plain(m) /\ OfVals(o.data)
    BY <1>1, <1>4, <1>6, SamePlain DEF Saved
  <2>3. Settled(file', m_file'[P], m_data'[P])
    <3>1. PICK s : s = OpenIn(o.st)
      OBVIOUS
    <3>2. s.buf = <<>> /\ FlushedFile(file, s) = file
      BY <3>1 DEF OpenIn, FlushedFile
    <3>3. Settled(file, s, o.data)
      BY <1>1, <2>2, <3>2 DEF Settled
    <3>. QED  BY <1>2, <2>1, <3>1, <3>3
  <2>4. Kept'
    BY <1>2, <2>1, <2>2, <2>3 DEF Kept, ProgramOK, KeepsMap, ReadsMap
  <2>5. Store!Start
    <3>1. InSession' /\ Shown' = Plain(m)
      BY <2>1, <2>2 DEF InSession, Shown
    <3>. QED  BY <1>5, <3>1 DEF Store!Start
  <2>. QED  BY <2>4, <2>5 DEF StoreStep, Store!Next
<1>7. CASE o.rc = "Locked"
  <2>1. Gone(P)
    BY <1>3, <1>7
  <2>2. up'[P] = "down" /\ m_data'[P] = <<>> /\ busy'[P] = "no"
    BY <2>1, TheProgram DEF Gone, StoreInv, TypeInv, ObjectType, DataType
  <2>3. Kept'
    BY <1>1, <1>2, <2>2 DEF Kept, ProgramOK, KeepsMap, ReadsMap, OfVals
  <2>4. InSession' = InSession /\ Shown' = Shown
    BY <1>2, <2>2, OnDiskIs, OnDiskThen DEF InSession, Shown
  <2>. QED  BY <2>3, <2>4 DEF StoreStep
<1>. QED  BY <1>4, <1>6, <1>7

-----------------------------------------------------------------------------
(* Storing and deleting. *)

LEMMA AutoSaveKeeps ==
    ASSUME OneProgram, StoreInv, NEW data, NEW diff, AutoSave(P, data, diff), up[P] = "up",
           busy[P] = "no", "ReadOnly" \notin m_policy[P], OfVals(data)
    PROVE  Kept' /\ m_data'[P] = data /\ InSession /\ InSession'
<1>1. m_data'[P] = data /\ UNCHANGED <<exists, up, m_policy>>
  BY TheProgram DEF AutoSave, StoreInv, TypeInv, DataType
<1>2. busy'[P] # "destructor"
  <2>1. busy' = busy \/ busy' = [busy EXCEPT ![P] = "instant_save"]
    BY DEF AutoSave, FastSaveRecords
  <2>. QED  BY <2>1, TheProgram DEF StoreInv, TypeInv, ObjectType
<1>3. Kept'
  BY <1>1, <1>2, SessionKeeps
<1>. QED  BY <1>1, <1>3 DEF InSession

LEMMA StoreKeyStep ==
    ASSUME OneProgram, StoreInv, up[P] = "up", busy[P] = "no", NEW k \in Keys, NEW v \in Vals, NEW off, StoreKey(P, k, v, off)
    PROVE  Kept' /\ StoreStep
<1>1. PICK d : d = With(m_data[P], k, [val |-> v, off |-> off])
  OBVIOUS
<1>2. OfVals(d)
  BY <1>1 DEF With, OfVals, StoreInv, ProgramOK
<1>3. PICK diff : AutoSave(P, d, diff)
  BY <1>1 DEF StoreKey
<1>4. Kept' /\ m_data'[P] = d /\ InSession /\ InSession'
  BY <1>2, <1>3, AutoSaveKeeps DEF StoreKey
<1>5. Shown = Plain(m_data[P]) /\ Shown' = Plain(d)
  BY <1>4 DEF Shown
<1>6. Store!Put(k, v)
  <2>1. Plain(d) = Put(Plain(m_data[P]), k, v)
    BY <1>1, PlainWith
  <2>2. Shown' = Put(Shown, k, v)
    BY <1>5, <2>1
  <2>. QED  BY <1>4, <2>2 DEF Store!Put, Put
<1>. QED  BY <1>4, <1>6 DEF StoreStep, Store!Next

LEMMA DeleteKeyStep ==
    ASSUME OneProgram, StoreInv, NEW k \in Keys, DeleteKey(P, k)
    PROVE  Kept' /\ StoreStep
<1>1. PICK d : d = Without(m_data[P], k)
  OBVIOUS
<1>2. OfVals(d)
  BY <1>1 DEF Without, OfVals, StoreInv, ProgramOK
<1>3. PICK diff : AutoSave(P, d, diff)
  BY <1>1 DEF DeleteKey
<1>4. Kept' /\ m_data'[P] = d /\ InSession /\ InSession'
  BY <1>2, <1>3, AutoSaveKeeps DEF DeleteKey, Ready
<1>5. Shown = Plain(m_data[P]) /\ Shown' = Plain(d)
  BY <1>4 DEF Shown
<1>6. Store!Remove(k)
  <2>1. Plain(d) = [x \in DOMAIN Plain(m_data[P]) \ {k} |-> Plain(m_data[P])[x]]
    BY <1>1, PlainWithout DEF Removed
  <2>2. Shown' = [x \in DOMAIN Shown \ {k} |-> Shown[x]]
    BY <1>5, <2>1
  <2>. QED  BY <1>4, <2>2 DEF Store!Remove
<1>. QED  BY <1>4, <1>6 DEF StoreStep, Store!Next

-----------------------------------------------------------------------------
(* Saving, locking and closing. *)

LEMMA SaveSettles ==
    ASSUME OneProgram, StoreInv, SaveData(P, m_data[P])
    PROVE  Settled(file', m_file'[P], m_data[P])
<1>1. P \in Procs /\ DataOK(m_data[P]) /\ OfVals(m_data[P])
  BY TheProgram DEF StoreInv, ProgramOK, TypeInv, DataType
<1>2. Saved(FlushedFile(file', m_file'[P]), m_data[P])
  BY <1>1, SaveCloses DEF StoreInv, Closes, Saved
<1>3. Writable(m_file'[P])
  <2>1. \E pos, buf : m_file' = [m_file EXCEPT ![P] = OpenOut(pos, buf)]
    BY DEF SaveData
  <2>. QED  BY <1>1, <2>1 DEF StoreInv, TypeInv, StreamType, Writable, OpenOut
<1>. QED  BY <1>2, <1>3 DEF Settled

LEMMA SaveStep ==
    ASSUME OneProgram, StoreInv, Save(P)
    PROVE  Kept' /\ StoreStep
<1>1. up[P] = "up" /\ busy[P] = "no" /\ UNCHANGED <<exists, up, m_policy, m_data, busy>>
  BY DEF Save, Ready
<1>2. OfVals(m_data[P])
  BY DEF StoreInv, ProgramOK
<1>3. Settled(file', m_file'[P], m_data'[P])
  BY <1>1, SaveSettles DEF Save
<1>. QED  BY <1>1, <1>2, <1>3, SessionKeeps, SessionStutters

LEMMA FastSaveHeaderStep ==
    ASSUME OneProgram, StoreInv, FastSaveHeader(P)
    PROVE  Kept' /\ StoreStep
<1>1. up[P] = "up" /\ busy[P] = "instant_save" /\ UNCHANGED <<exists, up, m_policy, m_data>>
  BY DEF FastSaveHeader
<1>2. OfVals(m_data[P]) /\ "ReadOnly" \notin m_policy[P] /\ busy'[P] # "destructor"
  BY <1>1, TheProgram DEF FastSaveHeader, StoreInv, ProgramOK, TypeInv, ObjectType
<1>. QED  BY <1>1, <1>2, SessionKeeps, SessionStutters

\* locked(), lock() and release(): s is the stream that is left.
LEMMA LockKeeps ==
    ASSUME OneProgram, StoreInv, up[P] = "up", busy'[P] \in {"no", "lock"},
           UNCHANGED <<exists, up, m_policy, m_data>>,
           NEW s, m_file' = [m_file EXCEPT ![P] = s],
           Settled(file, m_file[P], m_data[P]) => Settled(file', s, m_data[P])
    PROVE  Kept' /\ StoreStep
<1>1. OfVals(m_data[P])
  BY DEF StoreInv, ProgramOK
<1>2. m_file'[P] = s
  BY TheProgram DEF StoreInv, TypeInv, StreamType
<1>3. "ReadOnly" \in m_policy[P] => Settled(file', m_file'[P], m_data'[P])
  BY <1>1, <1>2 DEF StoreInv, ReadsMap
<1>. QED  BY <1>1, <1>3, SessionKeeps, SessionStutters

LEMMA LockedStep ==
    ASSUME OneProgram, StoreInv, Locked(P) \/ Lock(P)
    PROVE  Kept' /\ StoreStep
<1>1. PICK s : s = m_file[P]
  OBVIOUS
<1>2. PICK t : t = AfterReadPolicy(file, s)
  OBVIOUS
<1>3. s \in Streams
  BY <1>1, TheProgram DEF StoreInv, TypeInv, StreamType
<1>4. m_file' = [m_file EXCEPT ![P] = t] /\ file' = FlushedFile(file, s)
  BY <1>1, <1>2, <1>3 DEF Locked, Lock
<1>5. Settled(file, s, m_data[P]) => Settled(file', t, m_data[P])
  BY <1>2, <1>3, <1>4, SettledRead
<1>6. up[P] = "up" /\ busy'[P] \in {"no", "lock"} /\ UNCHANGED <<exists, up, m_policy, m_data>>
  <2>1. CASE Locked(P)
    BY <2>1 DEF Locked, Ready
  <2>2. CASE Lock(P)
    BY <2>2, TheProgram DEF Lock, Ready, StoreInv, TypeInv, ObjectType
  <2>. QED  BY <2>1, <2>2
<1>. QED  BY <1>1, <1>4, <1>5, <1>6, LockKeeps

LEMMA ReleaseStep ==
    ASSUME OneProgram, StoreInv, LockWrite(P) \/ Release(P)
    PROVE  Kept' /\ StoreStep
<1>1. PICK s : s = m_file[P]
  OBVIOUS
<1>2. s \in Streams
  BY <1>1, TheProgram DEF StoreInv, TypeInv, StreamType
<1>3. /\ m_file' = [m_file EXCEPT ![P] = AfterWritePolicy(s)]
      /\ \E pol : file' = WrittenPolicy(file, s, pol)
  BY <1>1 DEF LockWrite, Release
<1>4. Settled(file, s, m_data[P]) => Settled(file', AfterWritePolicy(s), m_data[P])
  BY <1>2, <1>3, SettledWrite
<1>5. up[P] = "up" /\ busy'[P] = "no" /\ UNCHANGED <<exists, up, m_policy, m_data>>
  BY TheProgram DEF LockWrite, Release, Ready, StoreInv, TypeInv, ObjectType
<1>. QED  BY <1>1, <1>3, <1>4, <1>5, LockKeeps

LEMMA CloseStep ==
    ASSUME OneProgram, StoreInv, Close(P)
    PROVE  Kept' /\ StoreStep
<1>1. /\ up[P] = "up" /\ busy'[P] = "destructor" /\ OfVals(m_data[P])
      /\ UNCHANGED <<exists, up, m_policy, m_data>>
  BY TheProgram DEF Close, Ready, StoreInv, ProgramOK, TypeInv, ObjectType
<1>2. Settled(file', m_file'[P], m_data[P])
  <2>1. CASE "ReadOnly" \notin m_policy[P]
    BY <2>1, SaveSettles DEF Close
  <2>2. CASE "ReadOnly" \in m_policy[P]
    BY <1>1, <2>2 DEF Close, StoreInv, ReadsMap
  <2>. QED  BY <2>1, <2>2
<1>. QED  BY <1>1, <1>2, SessionKeeps, SessionStutters

LEMMA CloseEndStep ==
    ASSUME OneProgram, StoreInv, CloseEnd(P)
    PROVE  Kept' /\ StoreStep
<1>1. up[P] = "up" /\ Gone(P) /\ exists' = exists /\ exists
  BY DEF CloseEnd, StoreInv, ProgramOK
<1>2. up'[P] = "down" /\ m_data'[P] = <<>> /\ busy'[P] = "no"
  BY <1>1, TheProgram DEF Gone, StoreInv, TypeInv, ObjectType, DataType
<1>3. \E m : Saved(file', m) /\ Plain(m) = Plain(m_data[P])
  <2>1. PICK s : s = m_file[P]
    OBVIOUS
  <2>2. s \in Streams
    BY <2>1, TheProgram DEF StoreInv, TypeInv, StreamType
  <2>3. Settled(file, s, m_data[P])
    BY <1>1, <2>1 DEF CloseEnd, StoreInv, ReadsMap
  <2>4. \/ file' = WrittenPolicy(file, s, m_policy[P] \cap {"WriteLock"})
        \/ file' = FlushedFile(file, s)
    BY <2>1 DEF CloseEnd
  <2>. QED  BY <2>2, <2>3, <2>4, SettledWrite DEF Settled
<1>4. PICK m : Saved(file', m) /\ Plain(m) = Plain(m_data[P])
  BY <1>3
<1>5. Kept'
  BY <1>1, <1>2, <1>4 DEF Kept, ProgramOK, KeepsMap, ReadsMap, OfVals
<1>6. OnDisk' = Plain(m)
  BY <1>1, <1>4, OnDiskThen, DiskMapIs
<1>7. Store!Stop
  BY <1>1, <1>2, <1>4, <1>6 DEF Store!Stop, InSession, Shown
<1>. QED  BY <1>5, <1>7 DEF StoreStep, Store!Next

LEMMA EveryStep == OneProgram /\ StoreInv /\ [Next]_vars => Kept' /\ StoreStep
<1> SUFFICES ASSUME OneProgram, StoreInv, [Next]_vars
             PROVE  Kept' /\ StoreStep
  OBVIOUS
<1>1. \A p \in Procs : ~Load(p) /\ ~Crash(p)
  BY DEF OneProgram, Load, Crash, Ready
<1>2. CASE UNCHANGED vars
  <2>1. Kept'
    BY <1>2 DEF vars, StoreInv, Kept, ProgramOK, KeepsMap, ReadsMap, OfVals
  <2>2. InSession' = InSession /\ Shown' = Shown
    BY <1>2, OnDiskIs, OnDiskThen DEF vars, InSession, Shown
  <2>. QED  BY <2>1, <2>2 DEF StoreStep
<1>3. CASE \E pol \in Policies : Create(P, pol) \/ Open(P, pol)
  BY <1>3, CreateStep, OpenStep
<1>4. ASSUME NEW k \in Keys, NEW v \in Vals, AddKey(P, k, v)
      PROVE  Kept' /\ StoreStep
  BY <1>4, StoreKeyStep DEF AddKey, Ready
<1>5. ASSUME NEW k \in Keys, NEW src \in Keys, CopyKey(P, k, src)
      PROVE  Kept' /\ StoreStep
  <2>1. m_data[P][src].val \in Vals
    BY <1>5 DEF CopyKey, StoreInv, ProgramOK, OfVals
  <2>. QED  BY <1>5, <2>1, StoreKeyStep DEF CopyKey, Ready
<1>6. ASSUME NEW k \in Keys, DeleteKey(P, k)
      PROVE  Kept' /\ StoreStep
  BY <1>6, DeleteKeyStep
<1>7. CASE \/ FastSaveHeader(P) \/ Save(P) \/ Locked(P) \/ Lock(P) \/ LockWrite(P)
           \/ Release(P) \/ Close(P) \/ CloseEnd(P)
  BY <1>7, FastSaveHeaderStep, SaveStep, LockedStep, ReleaseStep, CloseStep, CloseEndStep
<1>. QED  BY <1>1, <1>2, <1>3, <1>4, <1>5, <1>6, <1>7, TheProgram DEF Next, Done

\* One program that is not killed, with any keys, values and policies and after
\* any sessions of any calls but load(), sees the map of an abstract store: what
\* a session shows is what the one before it left, and only addKey() and
\* deleteKey() change it.
THEOREM SessionsAreAStore ==
    ASSUME OneProgram
    PROVE  Spec => ImplementsKVStore
<1>1. StoreInv /\ [Next]_vars => StoreInv'
  BY TypeInvStep, EveryStep DEF StoreInv, Kept
<1>2. StoreInv /\ [Next]_vars => [Store!Next]_<<InSession, Shown>>
  BY EveryStep DEF StoreStep
<1>3. Spec => Store!Init /\ [][Store!Next]_<<InSession, Shown>>
  BY <1>1, <1>2, StoreInvInit, StoreInit, PTL DEF Spec
<1>. QED  BY <1>3 DEF ImplementsKVStore, Store!Spec
=============================================================================
