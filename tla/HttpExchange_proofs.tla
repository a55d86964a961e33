------------------------- MODULE HttpExchange_proofs -------------------------
(***************************************************************************)
(* For any number of clients, connections, requests and restarts: a        *)
(* request is served once and whole, and an answer is that to the request. *)
(***************************************************************************)
EXTENDS HttpExchange, FiniteSetTheorems, SequenceTheorems, NaturalsInduction, WellFoundedInduction, TLAPS

Parts == {"line", "end", "body"}
Pieces == [n : Nat, part : Parts, len : {0, 1}, result : Results]
Requests == [kind : Kinds, connection : Connections]
Handlings == [n : Nat, connection : Connections, whole : BOOLEAN]

-----------------------------------------------------------------------------
(* Sequences of pieces. *)

\* Delivering a piece does not change what there is in all.
LEMMA DeliveredIs ==
    ASSUME NEW S, NEW a \in Seq(S), NEW w \in Seq(S), w # <<>>
    PROVE  /\ Append(a, Head(w)) \in Seq(S) /\ Tail(w) \in Seq(S)
           /\ Append(a, Head(w)) \o Tail(w) = a \o w
<1>1. Head(w) \in S /\ Tail(w) \in Seq(S) /\ Len(w) \in Nat \ {0}
  BY HeadTailProperties, LenProperties
<1>2. /\ Append(a, Head(w)) \in Seq(S) /\ Len(Append(a, Head(w))) = Len(a) + 1
      /\ \A i \in 1..Len(a) : Append(a, Head(w))[i] = a[i]
      /\ Append(a, Head(w))[Len(a) + 1] = Head(w)
  BY <1>1, AppendProperties
<1>3. Len(Append(a, Head(w)) \o Tail(w)) = Len(a \o w)
  BY <1>1, <1>2, ConcatProperties, HeadTailProperties, LenProperties
<1>4. \A i \in 1..Len(a \o w) : (Append(a, Head(w)) \o Tail(w))[i] = (a \o w)[i]
  BY <1>1, <1>2, <1>3, ConcatProperties, HeadTailProperties, LenProperties
<1>5. (Append(a, Head(w)) \o Tail(w)) \in Seq(S) /\ (a \o w) \in Seq(S)
  BY <1>1, <1>2, ConcatProperties
<1>. QED  BY <1>1, <1>2, <1>3, <1>4, <1>5, SeqEqual

-----------------------------------------------------------------------------
(* Messages. *)

IsMessage(s, n, len, result) ==
    /\ n \in Nat /\ len \in {0, 1} /\ result \in Results
    /\ s \in Seq(Pieces) /\ Len(s) = 2 + len
    /\ s[1] = Piece(n, "line", len, result) /\ s[2] = Piece(n, "end", len, result)
    /\ len = 1 => s[3] = Piece(n, "body", len, result)
    /\ \A i \in 1..Len(s) : s[i].n = n /\ s[i].len = len /\ s[i].result = result
    /\ \A i \in 1..Len(s) : (s[i].part = "line" <=> i = 1) /\ (s[i].part = "end" <=> i = 2)

LEMMA SerializeIs ==
    ASSUME NEW n \in Nat, NEW len \in {0, 1}, NEW result \in Results
    PROVE  IsMessage(Serialize(n, len, result), n, len, result)
<1>0. PICK s : s = Serialize(n, len, result)
  OBVIOUS
<1>1. \A part \in Parts :
         /\ Piece(n, part, len, result) \in Pieces
         /\ Piece(n, part, len, result).n = n /\ Piece(n, part, len, result).part = part
         /\ Piece(n, part, len, result).len = len /\ Piece(n, part, len, result).result = result
  BY DEF Piece, Pieces
<1>. DEFINE x == Piece(n, "line", len, result)
            y == Piece(n, "end", len, result)
            z == Piece(n, "body", len, result)
<1>2. /\ x \in Pieces /\ y \in Pieces /\ z \in Pieces
      /\ x.part = "line" /\ y.part = "end" /\ z.part = "body"
      /\ \A p \in {x, y, z} : p.n = n /\ p.len = len /\ p.result = result
  BY <1>1 DEF Parts
<1>. HIDE DEF x, y, z
<1>3. CASE len = 0
  <2>1. s = <<x, y>>
    <3>1. s = <<x, y>> \o <<>>
      BY <1>0, <1>3 DEF Serialize, x, y
    <3>. QED  BY <3>1, <1>2, ConcatEmptySeq
  <2>2. s \in Seq(Pieces) /\ Len(s) = 2 /\ s[1] = x /\ s[2] = y
    BY <1>2, <2>1
  <2>3. \A i \in 1..Len(s) : (i = 1 /\ s[i] = x) \/ (i = 2 /\ s[i] = y)
    BY <2>2
  <2>4. \A i \in 1..Len(s) : (s[i].part = "line" <=> i = 1) /\ (s[i].part = "end" <=> i = 2)
    BY <1>2, <2>3
  <2>. QED  BY <1>0, <1>2, <1>3, <2>2, <2>3, <2>4 DEF x, y, z, IsMessage
<1>4. CASE len = 1
  <2>1. s = <<x, y>> \o <<z>>
    BY <1>0, <1>4 DEF Serialize, x, y, z
  <2>2. /\ <<x, y>> \in Seq(Pieces) /\ <<z>> \in Seq(Pieces) /\ Len(<<x, y>>) = 2 /\ Len(<<z>>) = 1
        /\ <<x, y>>[1] = x /\ <<x, y>>[2] = y /\ <<z>>[1] = z
    BY <1>2
  <2>3. s \in Seq(Pieces) /\ Len(s) = 3 /\ s[1] = x /\ s[2] = y /\ s[3] = z
    <3>1. Len(s) = 3 /\ s \in Seq(Pieces)
      BY <2>1, <2>2, ConcatProperties
    <3>2. \A i \in 1..3 : s[i] = IF i <= 2 THEN <<x, y>>[i] ELSE <<z>>[i - 2]
      BY <2>1, <2>2, ConcatProperties
    <3>. QED  BY <2>2, <3>1, <3>2
  <2>4. \A i \in 1..Len(s) : (i = 1 /\ s[i] = x) \/ (i = 2 /\ s[i] = y) \/ (i = 3 /\ s[i] = z)
    BY <2>3
  <2>5. \A i \in 1..Len(s) : (s[i].part = "line" <=> i = 1) /\ (s[i].part = "end" <=> i = 2)
    BY <1>2, <2>4
  <2>. QED  BY <1>0, <1>2, <1>4, <2>3, <2>4, <2>5 DEF x, y, z, IsMessage
<1>. QED  BY <1>3, <1>4

\* A text in two parts.
IsCut(b, w, s) == b \in Seq(Pieces) /\ w \in Seq(Pieces) /\ b \o w = s

\* The head of a buffer that holds the start of a message.
LEMMA StartOfMessage ==
    ASSUME NEW n, NEW len, NEW result, NEW s, IsMessage(s, n, len, result),
           NEW b, NEW w, IsCut(b, w, s), HasCompleteHeaders(b)
    PROVE  /\ Len(b) \in 2..(2 + len) /\ HeaderEnd(b) = 2
           /\ Parses(b) /\ b[1] = Piece(n, "line", len, result) /\ ContentLength(b) = len
           /\ Len(w) = 2 + len - Len(b)
           /\ \A i \in 1..Len(b) : b[i] = s[i]
<1>0. b \in Seq(Pieces) /\ w \in Seq(Pieces) /\ b \o w = s
  BY DEF IsCut
<1>1. /\ s \in Seq(Pieces) /\ Len(s) = 2 + len
      /\ s[1] = Piece(n, "line", len, result) /\ s[2].len = len /\ s[1].part = "line"
      /\ \A i \in 1..Len(s) : s[i].part = "end" <=> i = 2
  BY DEF IsMessage, Piece
<1>2. /\ Len(b) \in Nat /\ Len(w) \in Nat /\ Len(b) + Len(w) = 2 + len
      /\ DOMAIN b = 1..Len(b)
  BY <1>0, <1>1, ConcatProperties, LenProperties
<1>3. \A i \in 1..Len(b) : b[i] = s[i]
  BY <1>0, <1>2, ConcatProperties
<1>4. Ends(b) \subseteq {2} /\ Ends(b) # {} /\ Ends(b) \subseteq 1..Len(b)
  BY <1>0, <1>1, <1>2, <1>3 DEF Ends, HasCompleteHeaders
<1>5. Ends(b) = {2} /\ Len(b) >= 2
  BY <1>2, <1>4
<1>6. HeaderEnd(b) = 2
  BY <1>5 DEF HeaderEnd
<1>7. b[1] = s[1] /\ b[2] = s[2]
  BY <1>2, <1>3, <1>5
<1>8. Len(b) \in 2..(2 + len) /\ Len(w) = 2 + len - Len(b)
  BY <1>2, <1>5 DEF IsMessage
<1>. QED  BY <1>1, <1>3, <1>6, <1>7, <1>8 DEF Parses, ContentLength

\* The first of two parts is all of it, and a message.
IsWhole(b, w, s, n, result) ==
    /\ b = s /\ w = <<>> /\ b # <<>>
    /\ Parses(b) /\ b[1].n = n /\ b[1].result = result /\ WholeBody(b)

\* What parses and has its body, as the start of a message, is the message.
LEMMA WholeMessage ==
    ASSUME NEW n, NEW len, NEW result, NEW s, IsMessage(s, n, len, result),
           NEW b, NEW w, IsCut(b, w, s), HasCompleteHeaders(b), HasCompleteBody(b)
    PROVE  IsWhole(b, w, s, n, result)
<1>0. len \in {0, 1} /\ b \in Seq(Pieces) /\ w \in Seq(Pieces) /\ b \o w = s
  BY DEF IsMessage, IsCut
<1>1. /\ Len(b) \in 2..(2 + len) /\ HeaderEnd(b) = 2
      /\ Parses(b) /\ b[1] = Piece(n, "line", len, result) /\ ContentLength(b) = len
      /\ Len(w) = 2 + len - Len(b)
      /\ \A i \in 1..Len(b) : b[i] = s[i]
  BY StartOfMessage
<1>2. Len(b) = 2 + len /\ Len(w) = 0
  BY <1>0, <1>1 DEF HasCompleteBody
<1>3. w = <<>>
  BY <1>0, <1>2, EmptySeq
<1>4. b = s
  BY <1>0, <1>3, ConcatEmptySeq
<1>5. b[1].n = n /\ b[1].len = len /\ b[1].result = result /\ b[1].part = "line"
  BY <1>1 DEF Piece
<1>6. WholeBody(b)
  <2>1. Body(b) = SubSeq(b, 3, 2 + len)
    BY <1>1, <1>2 DEF Body
  <2>2. CASE len = 0
    <3>1. Body(b) = <<>>
      BY <2>1, <2>2, SubSeqEmpty
    <3>. QED  BY <1>5, <2>2, <3>1 DEF WholeBody
  <2>3. CASE len = 1
    <3>1. SubSeq(b, 3, 3) = <<b[3]>>
      <4>0. Len(b) = 3 /\ b[3] \in Pieces
        <5>1. Len(b) = 3
          BY <1>2, <2>3
        <5>2. 3 \in 1..Len(b)
          BY <5>1
        <5>3. \A i \in 1..Len(b) : b[i] \in Pieces
          BY <1>0, ElementOfSeq
        <5>. QED  BY <5>1, <5>2, <5>3
      <4>1. \A i \in 3..3 : b[i] \in Pieces
        BY <4>0
      <4>2. /\ SubSeq(b, 3, 3) \in Seq(Pieces) /\ Len(SubSeq(b, 3, 3)) = 1
            /\ SubSeq(b, 3, 3)[1] = b[3]
        BY <4>1, SubSeqProperties
      <4>3. <<b[3]>> \in Seq(Pieces) /\ Len(<<b[3]>>) = 1 /\ <<b[3]>>[1] = b[3]
        BY <4>0
      <4>4. \A i \in 1..Len(<<b[3]>>) : <<b[3]>>[i] = SubSeq(b, 3, 3)[i]
        BY <4>2, <4>3
      <4>. QED  BY <4>2, <4>3, <4>4, SeqEqual
    <3>2. b[3] = Piece(n, "body", len, result)
      BY <1>4, <2>3 DEF IsMessage
    <3>3. [b[1] EXCEPT !.part = "body"] = Piece(n, "body", len, result)
      BY <1>1 DEF Piece
    <3>. QED  BY <1>5, <2>1, <2>3, <3>1, <3>2, <3>3 DEF WholeBody
  <2>. QED  BY <1>0, <2>2, <2>3
<1>7. b # <<>>
  BY <1>1
<1>. QED  BY <1>1, <1>3, <1>4, <1>5, <1>6, <1>7 DEF IsWhole

-----------------------------------------------------------------------------
(* What is on its way to the server. *)

\* The pieces u on connection n are of requests that n has sent, and those of
\* them that start a request start different ones, none handled before.
Fresh(u, n, rs, hs) ==
    /\ \A j \in 1..Len(u) :
          /\ u[j].n \in 1..Len(rs) /\ rs[u[j].n].connection = n
          /\ u[j].part = "line" => \A h \in 1..Len(hs) : hs[h].n # u[j].n
    /\ \A j, k \in 1..Len(u) :
          u[j].part = "line" /\ u[k].part = "line" /\ u[j].n = u[k].n => j = k

LEMMA FreshNothing ==
    ASSUME NEW n, NEW rs, NEW hs
    PROVE  Fresh(<<>>, n, rs, hs)
BY DEF Fresh

LEMMA FreshRest ==
    ASSUME NEW a \in Seq(Pieces), NEW b \in Seq(Pieces), NEW n, NEW rs, NEW hs,
           Fresh(a \o b, n, rs, hs)
    PROVE  Fresh(b, n, rs, hs)
<1>. DEFINE v == a \o b
<1>1. /\ Len(a) \in Nat /\ Len(b) \in Nat /\ Len(v) = Len(a) + Len(b)
      /\ \A i \in 1..(Len(a) + Len(b)) : v[i] = IF i <= Len(a) THEN a[i] ELSE b[i - Len(a)]
  BY ConcatProperties, LenProperties
<1>2. Fresh(v, n, rs, hs)
  OBVIOUS
<1>. HIDE DEF v
<1>3. \A j \in 1..Len(b) : j + Len(a) \in 1..Len(v) /\ v[j + Len(a)] = b[j]
  BY <1>1
<1>4. ASSUME NEW j \in 1..Len(b)
      PROVE  /\ b[j].n \in 1..Len(rs) /\ rs[b[j].n].connection = n
             /\ b[j].part = "line" => \A h \in 1..Len(hs) : hs[h].n # b[j].n
  <2>1. PICK k \in 1..Len(v) : v[k] = b[j]
    BY <1>3
  <2>. QED  BY <1>2, <2>1 DEF Fresh
<1>5. ASSUME NEW j \in 1..Len(b), NEW k \in 1..Len(b),
             b[j].part = "line", b[k].part = "line", b[j].n = b[k].n
      PROVE  j = k
  <2>1. PICK x \in 1..Len(v) : x = j + Len(a) /\ v[x] = b[j]
    BY <1>3
  <2>2. PICK y \in 1..Len(v) : y = k + Len(a) /\ v[y] = b[k]
    BY <1>3
  <2>3. x = y
    BY <1>2, <1>5, <2>1, <2>2 DEF Fresh
  <2>. QED  BY <1>1, <2>1, <2>2, <2>3
<1>. QED  BY <1>4, <1>5 DEF Fresh

\* One more request, of this or of another connection.
LEMMA FreshStill ==
    ASSUME NEW u, NEW n, NEW rs \in Seq(Requests), NEW hs, NEW r \in Requests, Fresh(u, n, rs, hs)
    PROVE  Fresh(u, n, Append(rs, r), hs)
<1>1. /\ Len(rs) \in Nat /\ Len(Append(rs, r)) = Len(rs) + 1
      /\ \A i \in 1..Len(rs) : Append(rs, r)[i] = rs[i]
  BY AppendProperties, LenProperties
<1>. QED  BY <1>1 DEF Fresh

LEMMA FreshRequest ==
    ASSUME NEW u \in Seq(Pieces), NEW n, NEW rs \in Seq(Requests), NEW hs, NEW r \in Requests,
           Fresh(u, n, rs, hs), r.connection = n,
           \A h \in 1..Len(hs) : hs[h].n \in 1..Len(rs),
           NEW s, NEW len, NEW result, IsMessage(s, Len(rs) + 1, len, result)
    PROVE  Fresh(u \o s, n, Append(rs, r), hs)
<1>1. /\ Len(rs) \in Nat /\ Len(Append(rs, r)) = Len(rs) + 1 /\ Append(rs, r)[Len(rs) + 1] = r
      /\ \A i \in 1..Len(rs) : Append(rs, r)[i] = rs[i]
  BY AppendProperties, LenProperties
<1>2. /\ s \in Seq(Pieces) /\ Len(s) \in Nat
      /\ \A i \in 1..Len(s) : s[i].n = Len(rs) + 1 /\ (s[i].part = "line" <=> i = 1)
  BY LenProperties DEF IsMessage
<1>. DEFINE v == u \o s
<1>3. /\ Len(u) \in Nat /\ Len(v) = Len(u) + Len(s)
      /\ \A i \in 1..Len(v) : v[i] = IF i <= Len(u) THEN u[i] ELSE s[i - Len(u)]
  BY <1>2, ConcatProperties, LenProperties
<1>. HIDE DEF v
<1>4. \A j \in 1..Len(v) : \/ j \in 1..Len(u) /\ v[j] = u[j]
                           \/ j - Len(u) \in 1..Len(s) /\ v[j] = s[j - Len(u)]
  BY <1>2, <1>3
<1>5. ASSUME NEW j \in 1..Len(v)
      PROVE  /\ v[j].n \in 1..Len(Append(rs, r)) /\ Append(rs, r)[v[j].n].connection = n
             /\ v[j].part = "line" => \A h \in 1..Len(hs) : hs[h].n # v[j].n
  <2>1. CASE j \in 1..Len(u) /\ v[j] = u[j]
    <3>1. /\ u[j].n \in 1..Len(rs) /\ rs[u[j].n].connection = n
          /\ u[j].part = "line" => \A h \in 1..Len(hs) : hs[h].n # u[j].n
      BY <2>1 DEF Fresh
    <3>. QED  BY <1>1, <2>1, <3>1
  <2>2. CASE j - Len(u) \in 1..Len(s) /\ v[j] = s[j - Len(u)]
    <3>1. v[j].n = Len(rs) + 1
      BY <1>2, <2>2
    <3>. QED  BY <1>1, <3>1
  <2>. QED  BY <1>4, <2>1, <2>2
<1>6. ASSUME NEW j \in 1..Len(v), NEW k \in 1..Len(v),
             v[j].part = "line", v[k].part = "line", v[j].n = v[k].n
      PROVE  j = k
  <2>1. CASE j \in 1..Len(u) /\ v[j] = u[j] /\ k \in 1..Len(u) /\ v[k] = u[k]
    BY <1>6, <2>1 DEF Fresh
  <2>2. CASE j \in 1..Len(u) /\ v[j] = u[j] /\ k - Len(u) \in 1..Len(s) /\ v[k] = s[k - Len(u)]
    BY <1>1, <1>2, <1>6, <2>2 DEF Fresh
  <2>3. CASE k \in 1..Len(u) /\ v[k] = u[k] /\ j - Len(u) \in 1..Len(s) /\ v[j] = s[j - Len(u)]
    BY <1>1, <1>2, <1>6, <2>3, SMTT(30) DEF Fresh
  <2>4. CASE /\ j - Len(u) \in 1..Len(s) /\ v[j] = s[j - Len(u)]
             /\ k - Len(u) \in 1..Len(s) /\ v[k] = s[k - Len(u)]
    BY <1>2, <1>3, <1>6, <2>4
  <2>. QED  BY <1>4, <2>1, <2>2, <2>3, <2>4
<1>. QED  BY <1>5, <1>6 DEF Fresh, v

\* A request is handled that does not start in u.
LEMMA FreshAside ==
    ASSUME NEW u, NEW n, NEW rs, NEW hs \in Seq(Handlings), NEW h \in Handlings, Fresh(u, n, rs, hs),
           \A j \in 1..Len(u) : u[j].part = "line" => u[j].n # h.n
    PROVE  Fresh(u, n, rs, Append(hs, h))
<1>1. /\ Len(hs) \in Nat /\ Len(Append(hs, h)) = Len(hs) + 1 /\ Append(hs, h)[Len(hs) + 1] = h
      /\ \A i \in 1..Len(hs) : Append(hs, h)[i] = hs[i]
  BY AppendProperties, LenProperties
<1>2. \A i \in 1..(Len(hs) + 1) : i \in 1..Len(hs) \/ i = Len(hs) + 1
  BY <1>1
<1>. QED  BY <1>1, <1>2 DEF Fresh

\* What starts in the rest of u is not what u starts with.
LEMMA FirstIsGone ==
    ASSUME NEW a \in Seq(Pieces), NEW b \in Seq(Pieces), a # <<>>, NEW n, NEW rs, NEW hs,
           Fresh(a \o b, n, rs, hs)
    PROVE  /\ a[1].n \in 1..Len(rs) /\ rs[a[1].n].connection = n
           /\ a[1].part = "line" =>
                 /\ \A h \in 1..Len(hs) : hs[h].n # a[1].n
                 /\ \A j \in 1..Len(b) : b[j].part = "line" => b[j].n # a[1].n
<1>. DEFINE v == a \o b
<1>1. /\ Len(a) \in Nat \ {0} /\ Len(b) \in Nat /\ Len(v) = Len(a) + Len(b)
      /\ \A i \in 1..(Len(a) + Len(b)) : v[i] = IF i <= Len(a) THEN a[i] ELSE b[i - Len(a)]
  BY ConcatProperties, LenProperties, EmptySeq
<1>2. Fresh(v, n, rs, hs)
  OBVIOUS
<1>. HIDE DEF v
<1>3. 1 \in 1..Len(v) /\ v[1] = a[1]
  BY <1>1
<1>4. \A j \in 1..Len(b) : j + Len(a) \in 1..Len(v) /\ v[j + Len(a)] = b[j] /\ j + Len(a) # 1
  BY <1>1
<1>5. a[1].part = "line" => \A j \in 1..Len(b) : b[j].part = "line" => b[j].n # a[1].n
  BY <1>2, <1>3, <1>4, ZenonT(30) DEF Fresh
<1>. QED  BY <1>2, <1>3, <1>5 DEF Fresh

-----------------------------------------------------------------------------
(* The invariant. *)

\* What the server has buffered of connection n.
Held(n, clients, buffers) ==
    LET is == {i \in DOMAIN clients \cap DOMAIN buffers : clients[i] = n} IN
    IF is = {} THEN <<>> ELSE buffers[CHOOSE i \in is : TRUE]

OneEach(clients) == \A i, j \in DOMAIN clients : clients[i] = clients[j] => i = j

LEMMA HeldIs ==
    ASSUME NEW clients, NEW buffers, NEW i \in DOMAIN clients, OneEach(clients)
    PROVE  Held(clients[i], clients, buffers) = IF i \in DOMAIN buffers THEN buffers[i] ELSE <<>>
<1>. DEFINE is == {j \in DOMAIN clients \cap DOMAIN buffers : clients[j] = clients[i]}
<1>1. is = IF i \in DOMAIN buffers THEN {i} ELSE {}
  BY DEF OneEach
<1>2. Held(clients[i], clients, buffers) = IF is = {} THEN <<>> ELSE buffers[CHOOSE j \in is : TRUE]
  BY DEF Held
<1>. HIDE DEF is
<1>3. CASE i \in DOMAIN buffers
  <2>1. is = {i}
    BY <1>1, <1>3
  <2>2. (CHOOSE j \in is : TRUE) = i
    BY <2>1
  <2>. QED  BY <1>2, <1>3, <2>1, <2>2
<1>4. CASE i \notin DOMAIN buffers
  BY <1>1, <1>2, <1>4
<1>. QED  BY <1>3, <1>4

LEMMA HeldNot ==
    ASSUME NEW clients, NEW buffers, NEW n,
           \A i \in DOMAIN clients \cap DOMAIN buffers : clients[i] # n
    PROVE  Held(n, clients, buffers) = <<>>
BY DEF Held

LEMMA HeldSame ==
    ASSUME NEW n, NEW clients, NEW buffers, NEW clients2, NEW buffers2,
           \A i : (i \in DOMAIN clients \cap DOMAIN buffers /\ clients[i] = n)
                 <=> (i \in DOMAIN clients2 \cap DOMAIN buffers2 /\ clients2[i] = n),
           \A i \in DOMAIN clients \cap DOMAIN buffers : clients[i] = n => buffers2[i] = buffers[i]
    PROVE  Held(n, clients2, buffers2) = Held(n, clients, buffers)
<1>. DEFINE is == {i \in DOMAIN clients \cap DOMAIN buffers : clients[i] = n}
            is2 == {i \in DOMAIN clients2 \cap DOMAIN buffers2 : clients2[i] = n}
<1>1. is2 = is
  OBVIOUS
<1>2. is # {} => (CHOOSE i \in is : TRUE) \in is
  OBVIOUS
<1>3. \A i \in is : buffers2[i] = buffers[i]
  OBVIOUS
<1>4. /\ Held(n, clients, buffers) = IF is = {} THEN <<>> ELSE buffers[CHOOSE i \in is : TRUE]
      /\ Held(n, clients2, buffers2) = IF is2 = {} THEN <<>> ELSE buffers2[CHOOSE i \in is2 : TRUE]
  BY DEF Held
<1>. HIDE DEF is, is2
<1>. QED  BY <1>1, <1>2, <1>3, <1>4

\* All that the server has read or can still read from n, and c from its server.
Up(n) == Held(n, m_clients, m_client_buffers) \o (arrived["server"][n] \o wire["server"][n])
Down(c) == received[c] \o (arrived["client"][m_socket[c]] \o wire["client"][m_socket[c]])

IsWaiting(c) == pc[c] \in {"headers", "body"}

ClientsOK ==
    /\ pc \in [Clients -> {"idle", "headers", "body", "hung"}]
    /\ m_socket \in [Clients -> Connections \cup {0}]
    /\ sent \in [Clients -> 0..Len(requests)]
    /\ received \in [Clients -> Seq(Pieces)] /\ answer \in [Clients -> Seq(Pieces)]
    /\ \A c \in Clients : m_socket[c] <= connections
    /\ \A c, d \in Clients : m_socket[c] = m_socket[d] /\ m_socket[c] # 0 => c = d
    /\ \A c \in Clients : IsWaiting(c) \/ answer[c] # NoAnswer => sent[c] > 0
    /\ \A c \in Clients : IsWaiting(c) => m_socket[c] # 0
    /\ \A c \in Clients : ~IsWaiting(c) => received[c] = <<>>

NetworkOK ==
    /\ connections \in 0..MaxConnections /\ closed \subseteq Connections
    /\ wire \in [Sides -> [Connections -> Seq(Pieces)]]
    /\ arrived \in [Sides -> [Connections -> Seq(Pieces)]]
    /\ \A side \in Sides, n \in Connections :
          n > connections => wire[side][n] = <<>> /\ arrived[side][n] = <<>>
    /\ backlog \in Seq(Connections)

ServerOK ==
    /\ running \in BOOLEAN /\ m_next_client_id \in Nat
    /\ m_clients \in [DOMAIN m_clients -> Connections]
    /\ m_client_buffers \in [DOMAIN m_client_buffers -> Seq(Pieces)]
    /\ DOMAIN m_clients \cup DOMAIN m_client_buffers \subseteq {i \in Nat : i < m_next_client_id}
    /\ todo \subseteq DOMAIN m_clients
    /\ server_pc \in {"idle", "accepting", "handling"} /\ (server_pc = "handling" <=> todo # {})

HistoryOK ==
    /\ requests \in Seq(Requests) /\ Len(requests) <= MaxRequests
    /\ timed_out \subseteq Connections
    /\ handled \in Seq(Handlings)
    /\ \A i \in 1..Len(handled) : handled[i].n \in 1..Len(requests)

\* Every connection is in the backlog once or has one id.
Accepted ==
    /\ OneEach(m_clients)
    /\ \A i, j \in 1..Len(backlog) : backlog[i] = backlog[j] => i = j
    /\ \A i \in DOMAIN m_clients, j \in 1..Len(backlog) : m_clients[i] # backlog[j]
    /\ \A i \in DOMAIN m_clients : m_clients[i] <= connections
    /\ \A j \in 1..Len(backlog) : backlog[j] <= connections

Types == ClientsOK /\ NetworkOK /\ ServerOK /\ HistoryOK /\ Accepted

FreshInv == \A n \in Connections : Fresh(Up(n), n, requests, handled)

\* Without timeouts client and server take turns: what is under way is the
\* client's request or the server's answer to it, or a side has closed.
Request(c) == LET kind == requests[sent[c]].kind IN Serialize(sent[c], kind.len, kind.result)
Answer(c) == LET kind == requests[sent[c]].kind IN Serialize(sent[c], kind.reply, kind.result)

InTurn(c) ==
    IF IsWaiting(c)
    THEN \/ Up(m_socket[c]) = Request(c) /\ Down(c) = <<>>
         \/ Up(m_socket[c]) = <<>> /\ Down(c) \in {<<>>, Answer(c)}
    ELSE Up(m_socket[c]) = <<>> /\ Down(c) = <<>>

TurnInv ==
    /\ \A c \in Clients : m_socket[c] \notin timed_out \cup {0} => InTurn(c)
    /\ \A n \in Connections \ timed_out : Up(n) = <<>> \/ \E c \in Clients : m_socket[c] = n

Behaves == FreshInv /\ TurnInv /\ HandledOnce /\ HandledWhole /\ AnswerMatches

Inv == Types /\ Behaves

-----------------------------------------------------------------------------
(* Types of what is under way. *)

LEMMA HeldType ==
    ASSUME NEW clients, NEW n, NEW buffers, buffers \in [DOMAIN buffers -> Seq(Pieces)]
    PROVE  Held(n, clients, buffers) \in Seq(Pieces)
<1>. DEFINE is == {i \in DOMAIN clients \cap DOMAIN buffers : clients[i] = n}
<1>1. is # {} => (CHOOSE i \in is : TRUE) \in DOMAIN buffers
  OBVIOUS
<1>2. Held(n, clients, buffers) = IF is = {} THEN <<>> ELSE buffers[CHOOSE i \in is : TRUE]
  BY DEF Held
<1>. HIDE DEF is
<1>. QED  BY <1>1, <1>2

LEMMA UnderWay ==
    ASSUME Types, NEW n \in Connections
    PROVE  /\ \A side \in Sides : wire[side][n] \in Seq(Pieces) /\ arrived[side][n] \in Seq(Pieces)
           /\ Held(n, m_clients, m_client_buffers) \in Seq(Pieces)
           /\ Up(n) \in Seq(Pieces)
<1>1. \A side \in Sides : wire[side][n] \in Seq(Pieces) /\ arrived[side][n] \in Seq(Pieces)
  BY DEF Types, NetworkOK
<1>2. Held(n, m_clients, m_client_buffers) \in Seq(Pieces)
  BY HeldType DEF Types, ServerOK
<1>3. "server" \in Sides
  BY DEF Sides
<1>4. arrived["server"][n] \o wire["server"][n] \in Seq(Pieces)
  BY <1>1, <1>3, ConcatProperties
<1>. QED  BY <1>1, <1>2, <1>4, ConcatProperties DEF Up

-----------------------------------------------------------------------------
(* Steps. *)

\* No request, answer or timeout: what is under way to the server stays or is
\* lost as a whole.
LEMMA Quietly ==
    ASSUME Inv, UNCHANGED <<m_socket, sent, requests, timed_out, handled>>,
           \A n \in Connections : Up(n)' \in {Up(n), <<>>},
           \A c \in Clients : m_socket[c] # 0 => Down(c)' = Down(c),
           \A c \in Clients : IsWaiting(c)' <=> IsWaiting(c),
           \A c \in Clients : answer'[c] \in {answer[c], NoAnswer}
    PROVE  Behaves'
<1>1. FreshInv'
  BY FreshNothing DEF Inv, Behaves, FreshInv
<1>2. TurnInv'
  <2>1. ASSUME NEW c \in Clients, m_socket[c] \notin timed_out \cup {0}
        PROVE  InTurn(c)'
    <3>1. InTurn(c) /\ m_socket[c] \in Connections /\ m_socket[c] # 0
      BY <2>1 DEF Inv, Behaves, TurnInv, Types, ClientsOK
    <3>2. Request(c)' = Request(c) /\ Answer(c)' = Answer(c)
      BY DEF Request, Answer
    <3>3. Up(m_socket[c])' \in {Up(m_socket[c]), <<>>} /\ Down(c)' = Down(c) /\ m_socket'[c] = m_socket[c]
      BY <3>1
    <3>. QED  BY <3>1, <3>2, <3>3 DEF InTurn
  <2>2. ASSUME NEW n \in Connections \ timed_out
        PROVE  (Up(n) = <<>> \/ \E c \in Clients : m_socket[c] = n)'
    BY DEF Inv, Behaves, TurnInv
  <2>. QED  BY <2>1, <2>2 DEF TurnInv
<1>3. HandledOnce' /\ HandledWhole'
  BY DEF Inv, Behaves, HandledOnce, HandledWhole
<1>4. AnswerMatches'
  BY DEF Inv, Behaves, AnswerMatches
<1>. QED  BY <1>1, <1>2, <1>3, <1>4 DEF Behaves

\* The types, action by action.
LEMMA NetworkTypes ==
    ASSUME Types, NEW to \in Sides, NEW n \in Connections, Deliver(to, n)
    PROVE  Types'
<1>1. /\ Append(arrived[to][n], Head(wire[to][n])) \in Seq(Pieces) /\ Tail(wire[to][n]) \in Seq(Pieces)
      /\ wire[to][n] # <<>>
  BY DeliveredIs, UnderWay DEF Deliver
<1>2. NetworkOK'
  BY <1>1 DEF Types, NetworkOK, Deliver
<1>3. ClientsOK' /\ ServerOK' /\ HistoryOK' /\ Accepted'
  BY DEF Deliver, Types, ClientsOK, IsWaiting, ServerOK, HistoryOK, Accepted, OneEach,
     clientVars, tcpServerVars, httpServerVars, historyVars
<1>. QED  BY <1>2, <1>3 DEF Types

LEMMA CloseTypes ==
    ASSUME Types, NEW side \in Sides, NEW ns, ns \subseteq Connections, CloseSockets(side, ns)
    PROVE  /\ closed' \subseteq Connections
           /\ wire' \in [Sides -> [Connections -> Seq(Pieces)]]
           /\ arrived' \in [Sides -> [Connections -> Seq(Pieces)]]
           /\ \A other \in Sides \ {side} : wire'[other] = wire[other] /\ arrived'[other] = arrived[other]
           /\ \A n \in Connections : /\ wire'[side][n] = IF n \in ns THEN <<>> ELSE wire[side][n]
                                     /\ arrived'[side][n] = IF n \in ns THEN <<>> ELSE arrived[side][n]
BY DEF Types, NetworkOK, CloseSockets

LEMMA ClientTypes ==
    ASSUME Types, NEW c \in Clients, Client(c)
    PROVE  Types'
<1>1. CASE Connect(c)
  <2>1. connections' \in Connections /\ connections' = connections + 1
    BY <1>1, ConstantsAssumption DEF Connect, Types, NetworkOK, Connections
  <2>2. ClientsOK'
    <3>1. \A d \in Clients : m_socket[d] <= connections /\ m_socket[d] \in Nat /\ connections \in Nat
      BY DEF Types, ClientsOK, NetworkOK, Connections
    <3>2. \A d \in Clients : m_socket'[d] <= connections' /\ (m_socket'[d] = connections' <=> d = c)
                            /\ (d # c => m_socket'[d] = m_socket[d])
      BY <1>1, <2>1, <3>1 DEF Connect, Types, ClientsOK
    <3>3. /\ m_socket' \in [Clients -> Connections \cup {0}] /\ m_socket'[c] = connections' /\ connections' # 0
          /\ UNCHANGED <<pc, sent, received, answer, requests>>
      BY <1>1, <2>1 DEF Connect, Types, ClientsOK, historyVars, Connections
    <3>4. \A d, e \in Clients : m_socket'[d] = m_socket'[e] /\ m_socket'[d] # 0 => d = e
      BY <3>2 DEF Types, ClientsOK
    <3>5. \A d \in Clients : IsWaiting(d) => m_socket'[d] # 0
      BY <3>2, <3>3 DEF Types, ClientsOK
    <3>. QED  BY <3>2, <3>3, <3>4, <3>5 DEF Types, ClientsOK, IsWaiting
  <2>3. NetworkOK'
    BY <1>1, <2>1 DEF Connect, Types, NetworkOK, Connections
  <2>4. ServerOK' /\ HistoryOK'
    BY <1>1 DEF Connect, Types, ServerOK, HistoryOK, tcpServerVars, httpServerVars, historyVars
  <2>5. Accepted'
    <3>1. /\ Len(backlog) \in Nat /\ Len(backlog') = Len(backlog) + 1 /\ backlog'[Len(backlog) + 1] = connections'
          /\ \A j \in 1..Len(backlog) : backlog'[j] = backlog[j] /\ backlog[j] \in Connections
      BY <1>1, <2>1, AppendProperties, LenProperties, ElementOfSeq DEF Connect, Types, NetworkOK
    <3>2. m_clients' = m_clients /\ \A i \in DOMAIN m_clients : m_clients[i] \in Nat /\ m_clients[i] # connections'
      BY <1>1, <2>1 DEF Connect, Types, Accepted, ServerOK, NetworkOK, Connections, tcpServerVars
    <3>3. \A j \in 1..Len(backlog') : j \in 1..Len(backlog) \/ j = Len(backlog) + 1
      BY <3>1
    <3>4. \A j \in 1..Len(backlog) : backlog[j] <= connections /\ backlog[j] # connections'
      BY <2>1, <3>1 DEF Types, Accepted, Connections, NetworkOK
    <3>5. connections \in Nat
      BY DEF Types, NetworkOK
    <3>6. OneEach(m_clients)' /\ \A i \in DOMAIN m_clients' : m_clients'[i] <= connections'
      BY <2>1, <3>2, <3>5 DEF Types, Accepted, OneEach
    <3>7. \A i, j \in 1..Len(backlog') : backlog'[i] = backlog'[j] => i = j
      BY <3>1, <3>3, <3>4 DEF Types, Accepted
    <3>8. \A i \in DOMAIN m_clients', j \in 1..Len(backlog') : m_clients'[i] # backlog'[j]
      BY <3>1, <3>2, <3>3 DEF Types, Accepted
    <3>9. \A j \in 1..Len(backlog') : backlog'[j] <= connections'
      BY <2>1, <3>1, <3>3, <3>4, <3>5 DEF Connections
    <3>. QED  BY <3>6, <3>7, <3>8, <3>9 DEF Accepted
  <2>. QED  BY <2>2, <2>3, <2>4, <2>5 DEF Types
<1>2. CASE Reconnect(c)
  BY <1>2 DEF Reconnect, Types, ClientsOK, IsWaiting, NetworkOK, ServerOK, HistoryOK, Accepted, OneEach,
     networkVars, tcpServerVars, httpServerVars, historyVars
<1>3. CASE Disconnect(c)
  <2>1. m_socket[c] \in Connections /\ m_socket[c] \in Nat /\ "client" \in Sides
    BY <1>3 DEF Disconnect, Types, ClientsOK, Connections, Sides
  <2>2. CloseSockets("client", {m_socket[c]})
    BY <1>3 DEF Disconnect
  <2>3. NetworkOK'
    <3>1. /\ closed' \subseteq Connections
          /\ wire' \in [Sides -> [Connections -> Seq(Pieces)]] /\ arrived' \in [Sides -> [Connections -> Seq(Pieces)]]
          /\ \A side \in Sides, n \in Connections : wire'[side][n] \in {<<>>, wire[side][n]}
          /\ \A side \in Sides, n \in Connections : arrived'[side][n] \in {<<>>, arrived[side][n]}
      BY <2>1, <2>2, CloseTypes, ZenonT(30)
    <3>. QED  BY <1>3, <3>1 DEF Disconnect, Types, NetworkOK
  <2>4. ClientsOK'
    BY <1>3 DEF Disconnect, Types, ClientsOK, IsWaiting, historyVars, NoAnswer, NetworkOK
  <2>5. ServerOK' /\ HistoryOK' /\ Accepted'
    BY <1>3 DEF Disconnect, Types, ServerOK, HistoryOK, Accepted, OneEach, tcpServerVars, httpServerVars, historyVars
  <2>. QED  BY <2>3, <2>4, <2>5 DEF Types
<1>5. CASE SendFails(c)
  BY <1>5 DEF SendFails, NoAnswer, Types, ClientsOK, IsWaiting, NetworkOK, ServerOK, HistoryOK, Accepted, OneEach,
     networkVars, tcpServerVars, httpServerVars, historyVars
<1>7. CASE ResponseTimeout(c)
  <2>1. m_socket[c] \in Connections /\ "client" \in Sides
    BY <1>7 DEF ResponseTimeout, Types, ClientsOK, IsWaiting, Sides
  <2>2. NetworkOK'
    <3>0. arrived' = arrived \/ arrived' = [arrived EXCEPT !["client"][m_socket[c]] = <<>>]
      BY <1>7 DEF ResponseTimeout
    <3>1. arrived' \in [Sides -> [Connections -> Seq(Pieces)]]
      <4>1. CASE arrived' = arrived
        BY <4>1 DEF Types, NetworkOK
      <4>2. CASE arrived' = [arrived EXCEPT !["client"][m_socket[c]] = <<>>]
        BY <2>1, <4>2 DEF Types, NetworkOK
      <4>. QED  BY <3>0, <4>1, <4>2
    <3>2. \A side \in Sides, n \in Connections : arrived'[side][n] \in {<<>>, arrived[side][n]}
      <4>1. CASE arrived' = arrived
        BY <4>1
      <4>2. CASE arrived' = [arrived EXCEPT !["client"][m_socket[c]] = <<>>]
        BY <2>1, <4>2 DEF Types, NetworkOK
      <4>. QED  BY <3>0, <4>1, <4>2
    <3>. QED  BY <1>7, <3>1, <3>2 DEF ResponseTimeout, Types, NetworkOK
  <2>3. ClientsOK'
    BY <1>7 DEF ResponseTimeout, Types, ClientsOK, IsWaiting
  <2>4. ServerOK' /\ HistoryOK' /\ Accepted'
    BY <1>7, <2>1 DEF ResponseTimeout, Types, ServerOK, HistoryOK, Accepted, OneEach, tcpServerVars, httpServerVars
  <2>. QED  BY <2>2, <2>3, <2>4 DEF Types
<1>4. CASE SendRequest(c)
  <2>. DEFINE n == Len(requests) + 1
  <2>1. PICK k \in Kinds : /\ requests' = Append(requests, [kind |-> k, connection |-> m_socket[c]])
                          /\ Transmit("server", m_socket[c], Serialize(n, k.len, k.result))
    BY <1>4 DEF SendRequest
  <2>2. /\ m_socket[c] \in Connections /\ [kind |-> k, connection |-> m_socket[c]] \in Requests
        /\ Len(requests) \in Nat /\ Len(requests') = n /\ requests' \in Seq(Requests) /\ n <= MaxRequests
    BY <1>4, <2>1, AppendProperties, LenProperties DEF SendRequest, Types, ClientsOK, HistoryOK, Requests
  <2>3. k.len \in {0, 1} /\ k.result \in Results /\ n \in Nat
    BY <2>2, ConstantsAssumption
  <2>4. Serialize(n, k.len, k.result) \in Seq(Pieces)
    BY <2>3, SerializeIs DEF IsMessage
  <2>5. /\ wire' \in [Sides -> [Connections -> Seq(Pieces)]]
        /\ \A side \in Sides, m \in Connections \ {m_socket[c]} : wire'[side][m] = wire[side][m]
    BY <2>1, <2>2, <2>4, ConcatProperties, SMTT(30) DEF Transmit, Types, NetworkOK, Sides
  <2>6. m_socket[c] <= connections
    BY DEF Types, ClientsOK
  <2>7. NetworkOK'
    <3>1. UNCHANGED <<connections, closed, arrived, backlog>>
      BY <1>4 DEF SendRequest
    <3>2. \A side \in Sides, m \in Connections : m > connections => wire'[side][m] = <<>>
      <4>1. connections \in Nat /\ \A m \in Connections : m > connections => m # m_socket[c]
        BY <2>2, <2>6 DEF Types, NetworkOK, Connections
      <4>. QED  BY <2>5, <4>1 DEF Types, NetworkOK
    <3>. QED  BY <2>5, <3>1, <3>2 DEF Types, NetworkOK
  <2>8. ClientsOK'
    BY <1>4, <2>2 DEF SendRequest, NoAnswer, Types, ClientsOK, IsWaiting
  <2>9. HistoryOK'
    BY <1>4, <2>2 DEF SendRequest, Types, HistoryOK
  <2>10. ServerOK' /\ Accepted'
    BY <1>4 DEF SendRequest, Types, ServerOK, Accepted, OneEach, tcpServerVars, httpServerVars
  <2>. QED  BY <2>7, <2>8, <2>9, <2>10 DEF Types
<1>6. CASE ReceiveResponse(c)
  <2>1. m_socket[c] \in Connections /\ "client" \in Sides
    BY <1>6 DEF ReceiveResponse, Types, ClientsOK, IsWaiting, Sides
  <2>2. PICK buffer : buffer = received[c] \o arrived["client"][m_socket[c]]
    OBVIOUS
  <2>3. buffer \in Seq(Pieces)
    BY <2>1, <2>2, UnderWay, ConcatProperties DEF Types, ClientsOK
  <2>4. NetworkOK'
    <3>1. arrived' \in [Sides -> [Connections -> Seq(Pieces)]]
      BY <1>6, <2>1 DEF ReceiveResponse, Types, NetworkOK
    <3>2. \A side \in Sides, n \in Connections : arrived'[side][n] \in {<<>>, arrived[side][n]}
      BY <1>6, <2>1 DEF ReceiveResponse, Types, NetworkOK
    <3>. QED  BY <1>6, <3>1, <3>2 DEF ReceiveResponse, Types, NetworkOK
  <2>5. /\ pc[c] \in {"headers", "body"} /\ UNCHANGED <<m_socket, sent, connections, requests>>
        /\ \/ /\ received' = [received EXCEPT ![c] = <<>>] /\ answer' = [answer EXCEPT ![c] = buffer]
              /\ pc' = [pc EXCEPT ![c] = "idle"]
           \/ /\ received' = [received EXCEPT ![c] = buffer] /\ answer' = answer
              /\ \E s \in {"headers", "body"} : pc' = [pc EXCEPT ![c] = s]
    BY <1>6, <2>2 DEF ReceiveResponse, historyVars, Types, ClientsOK
  <2>6. ClientsOK'
    <3>1. ClientsOK /\ IsWaiting(c)
      BY <2>5 DEF Types, IsWaiting
    <3>2. CASE /\ received' = [received EXCEPT ![c] = <<>>] /\ answer' = [answer EXCEPT ![c] = buffer]
               /\ pc' = [pc EXCEPT ![c] = "idle"]
      BY <2>3, <2>5, <3>1, <3>2 DEF ClientsOK, IsWaiting
    <3>3. CASE /\ received' = [received EXCEPT ![c] = buffer] /\ answer' = answer
               /\ \E s \in {"headers", "body"} : pc' = [pc EXCEPT ![c] = s]
      BY <2>3, <2>5, <3>1, <3>3 DEF ClientsOK, IsWaiting
    <3>. QED  BY <2>5, <3>2, <3>3
  <2>7. ServerOK' /\ HistoryOK' /\ Accepted'
    BY <1>6 DEF ReceiveResponse, Types, ServerOK, HistoryOK, Accepted, OneEach, tcpServerVars, httpServerVars, historyVars
  <2>. QED  BY <2>4, <2>6, <2>7 DEF Types
<1>. QED  BY <1>1, <1>2, <1>3, <1>4, <1>5, <1>6, <1>7 DEF Client

\* stop() and start(): every connection that is accepted or waits is closed.
LEMMA StopTypes ==
    ASSUME Types, StopServer, running' \in BOOLEAN, todo = {}, server_pc = "idle",
           UNCHANGED <<clientVars, connections, m_next_client_id, m_client_buffers, server_pc, historyVars>>
    PROVE  Types'
<1>. DEFINE ns == Range(m_clients) \cup Range(backlog)
<1>1. ns \subseteq Connections
  <2>1. Range(m_clients) \subseteq Connections
    BY DEF Types, ServerOK, Range
  <2>2. Range(backlog) \subseteq Connections
    BY LenProperties, ElementOfSeq DEF Types, NetworkOK, Range
  <2>. QED  BY <2>1, <2>2
<1>2. "server" \in Sides /\ CloseSockets("server", ns)
  BY DEF StopServer, Sides
<1>. HIDE DEF ns
<1>3. NetworkOK'
  <2>1. /\ closed' \subseteq Connections
        /\ wire' \in [Sides -> [Connections -> Seq(Pieces)]] /\ arrived' \in [Sides -> [Connections -> Seq(Pieces)]]
        /\ \A side \in Sides, n \in Connections : wire'[side][n] \in {<<>>, wire[side][n]}
        /\ \A side \in Sides, n \in Connections : arrived'[side][n] \in {<<>>, arrived[side][n]}
    BY <1>1, <1>2, CloseTypes
  <2>2. backlog' \in Seq(Connections)
    BY DEF StopServer
  <2>. QED  BY <2>1, <2>2 DEF Types, NetworkOK
<1>4. ClientsOK' /\ HistoryOK'
  BY DEF Types, ClientsOK, IsWaiting, HistoryOK, clientVars, historyVars
<1>5. DOMAIN m_clients' = {} /\ m_clients' = [i \in {} |-> m_clients'[i]] /\ Len(backlog') = 0
  BY DEF StopServer
<1>6. ServerOK'
  <2>1. m_clients' \in [DOMAIN m_clients' -> Connections]
    BY <1>5
  <2>. QED  BY <1>5, <2>1 DEF StopServer, Types, ServerOK
<1>7. Accepted'
  BY <1>5 DEF Accepted, OneEach
<1>. QED  BY <1>3, <1>4, <1>6, <1>7 DEF Types

LEMMA NextClientIs ==
    ASSUME Types, server_pc = "handling"
    PROVE  NextClient \in todo /\ NextClient \in DOMAIN m_clients
<1>1. todo # {} /\ todo \subseteq Nat /\ todo \subseteq DOMAIN m_clients
  BY DEF Types, ServerOK
<1>2. PICK i \in todo : \A j \in todo : ~(<<j, i>> \in OpToRel(<, Nat))
  BY <1>1, NatLessThanWellFounded, WFMin
<1>3. \A j \in todo : ~(j < i)
  BY <1>1, <1>2 DEF OpToRel
<1>4. \A j \in todo : i <= j
  BY <1>1, <1>3
<1>. QED  BY <1>1, <1>4 DEF NextClient

LEMMA AcceptTypes ==
    ASSUME Types, Accept
    PROVE  Types'
<1>1. /\ backlog \in Seq(Connections) /\ Len(backlog) \in Nat \ {0} /\ Head(backlog) = backlog[1]
      /\ backlog' \in Seq(Connections) /\ Len(backlog') = Len(backlog) - 1
      /\ \A j \in 1..Len(backlog') : backlog'[j] = backlog[j + 1]
  BY HeadTailProperties, LenProperties, EmptySeq DEF Accept, Types, NetworkOK
<1>2. /\ m_next_client_id \in Nat /\ m_next_client_id' = m_next_client_id + 1
      /\ m_next_client_id \notin DOMAIN m_clients
      /\ DOMAIN m_clients' = DOMAIN m_clients \cup {m_next_client_id}
      /\ m_clients'[m_next_client_id] = backlog[1]
      /\ \A i \in DOMAIN m_clients : m_clients'[i] = m_clients[i]
      /\ m_clients' = [i \in DOMAIN m_clients' |-> m_clients'[i]]
  BY <1>1 DEF Accept, Types, ServerOK
<1>3. 1 \in 1..Len(backlog) /\ backlog[1] \in Connections
  BY <1>1, ElementOfSeq
<1>4. /\ UNCHANGED <<clientVars, connections, closed, wire, arrived, running, m_client_buffers, historyVars>>
      /\ todo' = DOMAIN m_clients' /\ server_pc' = IF todo' = {} THEN "idle" ELSE "handling"
  BY DEF Accept, HandleNext
<1>5. NetworkOK'
  BY <1>1, <1>4 DEF Types, NetworkOK
<1>6. ClientsOK' /\ HistoryOK'
  BY <1>4 DEF Types, ClientsOK, IsWaiting, HistoryOK, clientVars, historyVars
<1>7. ServerOK'
  <2>1. m_clients' \in [DOMAIN m_clients' -> Connections]
    <3>1. \A i \in DOMAIN m_clients' : m_clients'[i] \in Connections
      BY <1>2, <1>3 DEF Types, ServerOK
    <3>. QED  BY <1>2, <3>1
  <2>2. DOMAIN m_clients' \cup DOMAIN m_client_buffers' \subseteq {i \in Nat : i < m_next_client_id'}
    BY <1>2, <1>4 DEF Types, ServerOK
  <2>. QED  BY <1>2, <1>4, <2>1, <2>2 DEF Types, ServerOK
<1>8. Accepted'
  <2>1. OneEach(m_clients)'
    BY <1>2, <1>3 DEF Types, Accepted, OneEach
  <2>2. \A j \in 1..Len(backlog') : j + 1 \in 1..Len(backlog) /\ j + 1 # 1
    BY <1>1
  <2>3. \A i, j \in 1..Len(backlog') : backlog'[i] = backlog'[j] => i + 1 = j + 1
    BY <1>1, <2>2, SMTT(30) DEF Types, Accepted
  <2>4. \A i, j \in 1..Len(backlog') : i + 1 = j + 1 => i = j
    BY <1>1
  <2>5. \A i \in DOMAIN m_clients', j \in 1..Len(backlog') : m_clients'[i] # backlog'[j]
    BY <1>1, <1>2, <1>3, <2>2 DEF Types, Accepted
  <2>6. \A i \in DOMAIN m_clients' : m_clients'[i] <= connections'
    BY <1>2, <1>3, <1>4 DEF Types, Accepted
  <2>7. \A j \in 1..Len(backlog') : backlog'[j] <= connections'
    BY <1>1, <1>4, <2>2 DEF Types, Accepted
  <2>. QED  BY <2>1, <2>3, <2>4, <2>5, <2>6, <2>7 DEF Accepted
<1>. QED  BY <1>5, <1>6, <1>7, <1>8 DEF Types

\* handleClient() for i and its connection n.
Handling(i, n, buffer) ==
    /\ m_clients[i] = n /\ Up(n) = buffer \o wire["server"][n]
    /\ HandleNext(todo \ {i})
    /\ arrived' = [arrived EXCEPT !["server"][n] = <<>>]
    /\ UNCHANGED <<clientVars, connections, closed, backlog, tcpServerVars, requests, timed_out>>
    /\ \/ /\ UNCHANGED <<m_client_buffers, wire, handled>> /\ arrived["server"][n] = <<>>
       \/ /\ HasCompleteHeaders(buffer) /\ (Parses(buffer) => HasCompleteBody(buffer))
          /\ Respond(n, buffer) /\ EraseBuffer(i)
       \/ SetBuffer(i, buffer) /\ UNCHANGED <<wire, handled>>

LEMMA HandleClientIs ==
    ASSUME Types, HandleClient
    PROVE  \E i \in DOMAIN m_clients, n \in Connections, buffer \in Seq(Pieces) : Handling(i, n, buffer)
<1>1. PICK i : i = NextClient
  OBVIOUS
<1>2. i \in DOMAIN m_clients
  BY <1>1, NextClientIs DEF HandleClient
<1>3. PICK n \in Connections : n = m_clients[i]
  BY <1>2 DEF Types, ServerOK
<1>4. Buffer(i) = Held(n, m_clients, m_client_buffers)
  BY <1>2, <1>3, HeldIs DEF Buffer, Types, Accepted
<1>5. PICK buffer : buffer = Buffer(i) \o arrived["server"][n]
  OBVIOUS
<1>6. "server" \in Sides
  BY DEF Sides
<1>7. /\ Buffer(i) \in Seq(Pieces) /\ buffer \in Seq(Pieces) /\ wire["server"][n] \in Seq(Pieces)
      /\ Up(n) = buffer \o wire["server"][n]
  <2>1. PICK h \in Seq(Pieces) : h = Buffer(i)
    BY <1>4, UnderWay
  <2>2. PICK a \in Seq(Pieces) : a = arrived["server"][n]
    BY <1>6, UnderWay
  <2>3. PICK w \in Seq(Pieces) : w = wire["server"][n]
    BY <1>6, UnderWay
  <2>4. h \o a \in Seq(Pieces) /\ (h \o a) \o w = h \o (a \o w)
    BY ConcatProperties, ConcatAssociative, SMTT(30)
  <2>. QED  BY <1>4, <1>5, <2>1, <2>2, <2>3, <2>4 DEF Up
<1>8. Handling(i, n, buffer)
  BY <1>1, <1>3, <1>5, <1>7 DEF HandleClient, Handling
<1>. QED  BY <1>2, <1>7, <1>8

\* The number of a request that is answered, and its answer.
LEMMA AnswerIs ==
    ASSUME Types, FreshInv, NEW n \in Connections, NEW buffer \in Seq(Pieces), HasCompleteHeaders(buffer),
           NEW w \in Seq(Pieces), Up(n) = buffer \o w
    PROVE  /\ buffer # <<>>
           /\ buffer[1].n \in 1..Len(requests) /\ requests[buffer[1].n].connection = n
           /\ requests[buffer[1].n].kind \in Kinds
           /\ buffer[1].part = "line" =>
                 /\ \A h \in 1..Len(handled) : handled[h].n # buffer[1].n
                 /\ \A j \in 1..Len(w) : w[j].part = "line" => w[j].n # buffer[1].n
           /\ buffer[1].result \in Results
<1>1. buffer # <<>>
  BY DEF HasCompleteHeaders, Ends
<1>2. Fresh(buffer \o w, n, requests, handled)
  BY DEF FreshInv
<1>3. /\ buffer[1].n \in 1..Len(requests) /\ requests[buffer[1].n].connection = n
      /\ buffer[1].part = "line" =>
            /\ \A h \in 1..Len(handled) : handled[h].n # buffer[1].n
            /\ \A j \in 1..Len(w) : w[j].part = "line" => w[j].n # buffer[1].n
  BY <1>1, <1>2, FirstIsGone
<1>4. requests[buffer[1].n] \in Requests
  BY <1>3, ElementOfSeq DEF Types, HistoryOK
<1>5. buffer[1] \in Pieces
  <2>1. 1 \in 1..Len(buffer)
    BY <1>1, EmptySeq
  <2>. QED  BY <2>1, ElementOfSeq
<1>. QED  BY <1>1, <1>3, <1>4, <1>5 DEF Requests, Pieces

LEMMA HandleTypes ==
    ASSUME Types, FreshInv, HandleClient
    PROVE  Types'
<1>1. PICK i \in DOMAIN m_clients, n \in Connections, buffer \in Seq(Pieces) : Handling(i, n, buffer)
  BY HandleClientIs
<1>2. /\ UNCHANGED <<clientVars, connections, closed, backlog, tcpServerVars, requests, timed_out>>
      /\ todo' = todo \ {i} /\ server_pc' = IF todo' = {} THEN "idle" ELSE "handling"
      /\ arrived' = [arrived EXCEPT !["server"][n] = <<>>]
  BY <1>1 DEF Handling, HandleNext
<1>3. /\ arrived' \in [Sides -> [Connections -> Seq(Pieces)]]
      /\ \A side \in Sides, m \in Connections : arrived'[side][m] \in {<<>>, arrived[side][m]}
  BY <1>2 DEF Types, NetworkOK, Sides
<1>4. n <= connections /\ connections \in Nat
  BY <1>1 DEF Handling, Types, Accepted, NetworkOK
<1>5. ClientsOK' /\ Accepted'
  BY <1>2 DEF Types, ClientsOK, IsWaiting, Accepted, OneEach, clientVars, tcpServerVars
<1>6. /\ m_client_buffers' \in [DOMAIN m_client_buffers' -> Seq(Pieces)]
      /\ DOMAIN m_client_buffers' \subseteq DOMAIN m_client_buffers \cup {i}
  BY <1>1 DEF Handling, SetBuffer, EraseBuffer, Types, ServerOK
<1>7. ServerOK'
  BY <1>2, <1>6 DEF Types, ServerOK, tcpServerVars
<1>8. NetworkOK' /\ HistoryOK'
  <2>1. CASE UNCHANGED <<wire, handled>>
    BY <1>2, <1>3, <2>1 DEF Types, NetworkOK, HistoryOK
  <2>2. CASE HasCompleteHeaders(buffer) /\ Respond(n, buffer)
    <3>1. /\ buffer[1].n \in 1..Len(requests) /\ requests[buffer[1].n].kind \in Kinds
          /\ buffer[1].result \in Results
      <4>1. PICK w \in Seq(Pieces) : w = wire["server"][n]
        BY UnderWay DEF Sides
      <4>. QED  BY <1>1, <2>2, <4>1, AnswerIs, ZenonT(30) DEF Handling
    <3>2. /\ requests[buffer[1].n].kind.reply \in {0, 1} /\ "BAD_REQUEST" \in Results /\ buffer[1].n \in Nat
          /\ 1 \in {0, 1}
      BY <3>1, ConstantsAssumption DEF Results
    <3>3. PICK s \in Seq(Pieces) : Transmit("client", n, s)
      <4>1. CASE Parses(buffer)
        <5>1. Transmit("client", n, Serialize(buffer[1].n, requests[buffer[1].n].kind.reply, buffer[1].result))
          BY <2>2, <4>1 DEF Respond
        <5>2. \A k \in Nat, len \in {0, 1}, result \in Results : Serialize(k, len, result) \in Seq(Pieces)
          BY SerializeIs DEF IsMessage
        <5>. QED  BY <3>1, <3>2, <5>1, <5>2
      <4>2. CASE ~Parses(buffer)
        BY <2>2, <3>1, <3>2, <4>2, SerializeIs DEF Respond, IsMessage
      <4>. QED  BY <4>1, <4>2
    <3>4. /\ wire' \in [Sides -> [Connections -> Seq(Pieces)]]
          /\ \A side \in Sides, m \in Connections \ {n} : wire'[side][m] = wire[side][m]
      BY <3>3, ConcatProperties DEF Transmit, Types, NetworkOK, Sides
    <3>5. NetworkOK'
      <4>1. \A side \in Sides, m \in Connections : m > connections => wire'[side][m] = <<>>
        <5>1. \A m \in Connections : m > connections => m # n
          BY <1>4 DEF Connections
        <5>. QED  BY <3>4, <5>1 DEF Types, NetworkOK
      <4>. QED  BY <1>2, <1>3, <3>4, <4>1 DEF Types, NetworkOK
    <3>6. HistoryOK'
      <4>. DEFINE h == [n |-> buffer[1].n, connection |-> n, whole |-> WholeBody(buffer)]
      <4>1. h \in Handlings /\ h.n = buffer[1].n
        BY <3>2 DEF Handlings, WholeBody
      <4>2. handled' = handled \/ handled' = Append(handled, h)
        BY <2>2 DEF Respond
      <4>. HIDE DEF h
      <4>3. /\ Append(handled, h) \in Seq(Handlings) /\ Len(Append(handled, h)) = Len(handled) + 1
            /\ \A j \in 1..Len(handled) : Append(handled, h)[j] = handled[j]
            /\ Append(handled, h)[Len(handled) + 1] = h /\ Len(handled) \in Nat
        BY <4>1, AppendProperties, LenProperties DEF Types, HistoryOK
      <4>4. \A j \in 1..(Len(handled) + 1) : j \in 1..Len(handled) \/ j = Len(handled) + 1
        BY <4>3
      <4>. QED  BY <1>2, <3>1, <4>1, <4>2, <4>3, <4>4 DEF Types, HistoryOK
    <3>. QED  BY <3>5, <3>6
  <2>. QED  BY <1>1, <2>1, <2>2 DEF Handling
<1>. QED  BY <1>5, <1>7, <1>8 DEF Types

-----------------------------------------------------------------------------
(* Behaviour, action by action. *)

LEMMA NothingMoves ==
    ASSUME Inv, UNCHANGED <<m_socket, sent, received, requests, timed_out, handled>>,
           UNCHANGED <<m_clients, m_client_buffers, arrived, wire>>,
           \A c \in Clients : IsWaiting(c)' <=> IsWaiting(c),
           \A c \in Clients : answer'[c] \in {answer[c], NoAnswer}
    PROVE  Behaves'
<1>1. \A n \in Connections : Up(n)' = Up(n)
  BY DEF Up
<1>2. \A c \in Clients : Down(c)' = Down(c)
  BY DEF Down
<1>. QED  BY <1>1, <1>2, Quietly

LEMMA DeliverKeeps ==
    ASSUME Inv, NEW to \in Sides, NEW m \in Connections, Deliver(to, m)
    PROVE  Behaves'
<1>1. /\ wire[to][m] \in Seq(Pieces) /\ arrived[to][m] \in Seq(Pieces) /\ wire[to][m] # <<>>
      /\ wire \in [Sides -> [Connections -> Seq(Pieces)]] /\ arrived \in [Sides -> [Connections -> Seq(Pieces)]]
  BY UnderWay DEF Inv, Deliver, Types, NetworkOK
<1>2. \A side \in Sides, n \in Connections :
         arrived'[side][n] \o wire'[side][n] = arrived[side][n] \o wire[side][n]
  <2>1. ASSUME NEW side \in Sides, NEW n \in Connections, ~(side = to /\ n = m)
        PROVE  arrived'[side][n] = arrived[side][n] /\ wire'[side][n] = wire[side][n]
    BY <1>1, <2>1 DEF Deliver
  <2>2. arrived'[to][m] = Append(arrived[to][m], Head(wire[to][m])) /\ wire'[to][m] = Tail(wire[to][m])
    BY <1>1 DEF Deliver
  <2>3. arrived'[to][m] \o wire'[to][m] = arrived[to][m] \o wire[to][m]
    <3>1. PICK a \in Seq(Pieces) : a = arrived[to][m]
      BY <1>1
    <3>2. PICK w \in Seq(Pieces) : w = wire[to][m] /\ w # <<>>
      BY <1>1
    <3>3. Append(a, Head(w)) \o Tail(w) = a \o w
      <4>1. w # <<>>
        BY <3>2
      <4>. QED  BY <4>1, DeliveredIs
    <3>. QED  BY <2>2, <3>1, <3>2, <3>3
  <2>. QED  BY <2>1, <2>3
<1>3. /\ UNCHANGED <<pc, m_socket, sent, received, answer, requests, timed_out, handled>>
      /\ UNCHANGED <<m_clients, m_client_buffers>>
  BY DEF Deliver, clientVars, tcpServerVars, httpServerVars, historyVars
<1>4. \A n \in Connections : Up(n)' = Up(n)
  BY <1>2, <1>3 DEF Up, Sides
<1>5. \A c \in Clients : m_socket[c] # 0 => Down(c)' = Down(c)
  BY <1>2, <1>3 DEF Down, Sides, Inv, Types, ClientsOK
<1>. QED  BY <1>3, <1>4, <1>5, Quietly DEF IsWaiting

LEMMA StopKeeps ==
    ASSUME Inv, StopServer,
           UNCHANGED <<clientVars, connections, m_client_buffers, historyVars>>
    PROVE  Behaves'
<1>. DEFINE ns == Range(m_clients) \cup Range(backlog)
<1>1. ns \subseteq Connections
  <2>1. Range(m_clients) \subseteq Connections
    BY DEF Inv, Types, ServerOK, Range
  <2>2. Range(backlog) \subseteq Connections
    BY LenProperties, ElementOfSeq DEF Inv, Types, NetworkOK, Range
  <2>. QED  BY <2>1, <2>2
<1>2. Types /\ "server" \in Sides /\ "client" \in Sides \ {"server"} /\ CloseSockets("server", ns)
  BY DEF StopServer, Sides, Inv
<1>3. \A n \in Connections \ ns : \A i \in DOMAIN m_clients : m_clients[i] # n
  BY DEF Range
<1>. HIDE DEF ns
<1>4. /\ wire'["client"] = wire["client"] /\ arrived'["client"] = arrived["client"]
      /\ \A n \in Connections : /\ wire'["server"][n] = IF n \in ns THEN <<>> ELSE wire["server"][n]
                                /\ arrived'["server"][n] = IF n \in ns THEN <<>> ELSE arrived["server"][n]
  BY <1>1, <1>2, CloseTypes
<1>5. DOMAIN m_clients' = {}
  BY DEF StopServer
<1>6. \A n \in Connections : Held(n, m_clients', m_client_buffers') = <<>>
  BY <1>5, HeldNot
<1>7. ASSUME NEW n \in Connections
      PROVE  Up(n)' \in {Up(n), <<>>}
  <2>1. CASE n \in ns
    <3>1. Up(n)' = <<>> \o (<<>> \o <<>>)
      BY <1>4, <1>6, <2>1 DEF Up
    <3>. QED  BY <3>1
  <2>2. CASE n \notin ns
    <3>1. Held(n, m_clients, m_client_buffers) = <<>>
      BY <1>3, <2>2, HeldNot
    <3>. QED  BY <1>4, <1>6, <2>2, <3>1 DEF Up
  <2>. QED  BY <2>1, <2>2
<1>8. UNCHANGED <<pc, m_socket, sent, received, answer, requests, timed_out, handled>>
  BY DEF clientVars, historyVars
<1>9. \A c \in Clients : Down(c)' = Down(c)
  BY <1>4, <1>8 DEF Down
<1>. QED  BY <1>7, <1>8, <1>9, Quietly DEF IsWaiting

LEMMA AcceptKeeps ==
    ASSUME Inv, Accept
    PROVE  Behaves'
<1>1. /\ m_next_client_id \notin DOMAIN m_client_buffers /\ m_next_client_id \notin DOMAIN m_clients
      /\ DOMAIN m_clients' = DOMAIN m_clients \cup {m_next_client_id}
      /\ \A i \in DOMAIN m_clients : m_clients'[i] = m_clients[i]
  BY DEF Accept, Inv, Types, ServerOK
<1>2. /\ UNCHANGED <<pc, m_socket, sent, received, answer, requests, timed_out, handled>>
      /\ UNCHANGED <<wire, arrived, m_client_buffers>>
  BY DEF Accept, clientVars, historyVars
<1>3. \A n : Held(n, m_clients', m_client_buffers') = Held(n, m_clients, m_client_buffers)
  BY <1>1, <1>2, HeldSame
<1>4. \A n \in Connections : Up(n)' = Up(n)
  BY <1>2, <1>3 DEF Up
<1>5. \A c \in Clients : Down(c)' = Down(c)
  BY <1>2 DEF Down
<1>. QED  BY <1>2, <1>4, <1>5, Quietly DEF IsWaiting

\* A read that completes no request.
LEMMA BufferKeeps ==
    ASSUME Inv, NEW i \in DOMAIN m_clients, NEW n \in Connections, NEW buffer \in Seq(Pieces),
           Handling(i, n, buffer), UNCHANGED <<wire, handled>>,
           \/ UNCHANGED m_client_buffers /\ arrived["server"][n] = <<>>
           \/ SetBuffer(i, buffer)
    PROVE  Behaves'
<1>1. /\ UNCHANGED <<pc, m_socket, sent, received, answer, requests, timed_out, handled>>
      /\ UNCHANGED <<wire, m_clients>>
      /\ m_clients[i] = n /\ Up(n) = buffer \o wire["server"][n]
      /\ arrived' = [arrived EXCEPT !["server"][n] = <<>>]
      /\ OneEach(m_clients)
  BY DEF Handling, clientVars, tcpServerVars, Inv, Types, Accepted
<1>2. /\ arrived'["client"] = arrived["client"] /\ arrived'["server"][n] = <<>>
      /\ \A m \in Connections \ {n} : arrived'["server"][m] = arrived["server"][m]
  BY <1>1 DEF Inv, Types, NetworkOK, Sides
<1>3. \A m \in Connections \ {n} : Up(m)' = Up(m)
  <2>1. \A m \in Connections \ {n} : Held(m, m_clients', m_client_buffers') = Held(m, m_clients, m_client_buffers)
    <3>1. CASE UNCHANGED m_client_buffers
      BY <1>1, <3>1
    <3>2. CASE SetBuffer(i, buffer)
      <4>1. /\ DOMAIN m_client_buffers' = DOMAIN m_client_buffers \cup {i}
            /\ \A j \in DOMAIN m_client_buffers \ {i} : m_client_buffers'[j] = m_client_buffers[j]
        BY <3>2 DEF SetBuffer
      <4>. QED  BY <1>1, <4>1, HeldSame
    <3>. QED  BY <3>1, <3>2
  <2>. QED  BY <1>1, <1>2, <2>1 DEF Up
<1>4. Up(n)' = Up(n)
  <2>1. CASE UNCHANGED m_client_buffers /\ arrived["server"][n] = <<>>
    BY <1>1, <1>2, <2>1 DEF Up
  <2>2. CASE SetBuffer(i, buffer)
    <3>1. i \in DOMAIN m_client_buffers' /\ m_client_buffers'[i] = buffer
      BY <2>2 DEF SetBuffer
    <3>2. Held(n, m_clients', m_client_buffers') = buffer
      BY <1>1, <3>1, HeldIs
    <3>3. PICK w \in Seq(Pieces) : w = wire["server"][n]
      BY UnderWay DEF Inv, Sides
    <3>4. <<>> \o w = w
      BY ConcatEmptySeq
    <3>5. Up(n)' = buffer \o (<<>> \o w)
      BY <1>1, <1>2, <3>2, <3>3 DEF Up
    <3>. QED  BY <1>1, <3>3, <3>4, <3>5
  <2>. QED  BY <2>1, <2>2
<1>5. \A c \in Clients : Down(c)' = Down(c)
  BY <1>1, <1>2 DEF Down
<1>. QED  BY <1>1, <1>3, <1>4, <1>5, Quietly DEF IsWaiting

\* What the server answers to what it has buffered.
AnswerTo(buffer) ==
    LET first == buffer[1] IN
    IF Parses(buffer) THEN Serialize(first.n, requests[first.n].kind.reply, first.result)
    ELSE Serialize(first.n, 1, "BAD_REQUEST")

\* A whole request: it is handled, and its answer is under way.
LEMMA RespondKeeps ==
    ASSUME Inv, NEW i \in DOMAIN m_clients, NEW n \in Connections, NEW buffer \in Seq(Pieces),
           Handling(i, n, buffer), HasCompleteHeaders(buffer), Parses(buffer) => HasCompleteBody(buffer),
           Respond(n, buffer), EraseBuffer(i)
    PROVE  Behaves'
<1>. DEFINE r == buffer[1].n
<1>1. /\ UNCHANGED <<pc, m_socket, sent, received, answer, requests, timed_out, closed, connections>>
      /\ m_clients' = m_clients /\ m_clients[i] = n /\ Up(n) = buffer \o wire["server"][n]
      /\ arrived' = [arrived EXCEPT !["server"][n] = <<>>]
      /\ OneEach(m_clients)
  BY DEF Handling, clientVars, tcpServerVars, Inv, Types, Accepted
<1>2. PICK w \in Seq(Pieces) : w = wire["server"][n]
  BY UnderWay DEF Inv, Sides
<1>3. /\ buffer # <<>> /\ r \in 1..Len(requests) /\ requests[r].connection = n /\ requests[r].kind \in Kinds
      /\ buffer[1].part = "line" =>
            /\ \A h \in 1..Len(handled) : handled[h].n # r
            /\ \A j \in 1..Len(w) : w[j].part = "line" => w[j].n # r
      /\ buffer[1].result \in Results
  <2>1. Types /\ FreshInv /\ Up(n) = buffer \o w
    BY <1>1, <1>2 DEF Inv, Behaves
  <2>. HIDE DEF r
  <2>2. /\ buffer # <<>>
        /\ buffer[1].n \in 1..Len(requests) /\ requests[buffer[1].n].connection = n
        /\ requests[buffer[1].n].kind \in Kinds
        /\ buffer[1].part = "line" =>
              /\ \A x \in 1..Len(handled) : handled[x].n # buffer[1].n
              /\ \A j \in 1..Len(w) : w[j].part = "line" => w[j].n # buffer[1].n
        /\ buffer[1].result \in Results
    BY <2>1, AnswerIs
  <2>. QED  BY <2>2 DEF r
<1>4. PICK s : s = AnswerTo(buffer)
  OBVIOUS
<1>. DEFINE h == [n |-> r, connection |-> n, whole |-> WholeBody(buffer)]
<1>5. handled' = IF Parses(buffer) THEN Append(handled, h) ELSE handled
  BY DEF Respond
<1>6. h \in Handlings /\ h.n = r /\ h.connection = n /\ h.whole = WholeBody(buffer)
  <2>1. r \in Nat /\ WholeBody(buffer) \in BOOLEAN
    BY <1>3 DEF WholeBody
  <2>. QED  BY <2>1 DEF Handlings
<1>. HIDE DEF r, h
<1>7. /\ arrived'["client"] = arrived["client"] /\ arrived'["server"][n] = <<>>
      /\ \A m \in Connections \ {n} : arrived'["server"][m] = arrived["server"][m]
  BY <1>1 DEF Inv, Types, NetworkOK, Sides
<1>8. /\ wire'["server"] = wire["server"]
      /\ \A m \in Connections \ {n} : wire'["client"][m] = wire["client"][m]
      /\ wire'["client"][n] = IF n \in closed THEN wire["client"][n] ELSE wire["client"][n] \o s
  <2>1. wire \in [Sides -> [Connections -> Seq(Pieces)]] /\ "client" \in Sides /\ "server" \in Sides
    BY DEF Inv, Types, NetworkOK, Sides
  <2>2. wire' = IF n \in closed THEN wire ELSE [wire EXCEPT !["client"][n] = @ \o s]
    <3>1. Transmit("client", n, s)
      BY <1>4 DEF Respond, AnswerTo
    <3>. QED  BY <3>1 DEF Transmit
  <2>. QED  BY <2>1, <2>2
<1>9. Up(n)' = w
  <2>1. i \notin DOMAIN m_client_buffers'
    BY DEF EraseBuffer
  <2>2. Held(n, m_clients', m_client_buffers') = <<>>
    BY <1>1, <2>1, HeldIs
  <2>3. Up(n)' = <<>> \o (<<>> \o w)
    BY <1>2, <1>7, <1>8, <2>2 DEF Up
  <2>. QED  BY <2>3, ConcatEmptySeq
<1>10. \A m \in Connections \ {n} : Up(m)' = Up(m)
  <2>1. /\ DOMAIN m_client_buffers' = DOMAIN m_client_buffers \ {i}
        /\ \A j \in DOMAIN m_client_buffers \ {i} : m_client_buffers'[j] = m_client_buffers[j]
    BY DEF EraseBuffer
  <2>2. \A m \in Connections \ {n} : Held(m, m_clients', m_client_buffers') = Held(m, m_clients, m_client_buffers)
    BY <1>1, <2>1, HeldSame
  <2>. QED  BY <1>7, <1>8, <2>2 DEF Up
<1>11. ASSUME NEW m \in Connections
       PROVE  Fresh(Up(m)', m, requests', handled')
  <2>1. CASE ~Parses(buffer)
    <3>1. handled' = handled /\ Fresh(Up(m), m, requests, handled)
      BY <1>5, <2>1 DEF Inv, Behaves, FreshInv
    <3>2. CASE m = n
      <4>1. Fresh(buffer \o w, n, requests, handled)
        BY <1>1, <1>2, <3>1, <3>2
      <4>. QED  BY <1>1, <1>9, <3>1, <3>2, <4>1, FreshRest
    <3>. QED  BY <1>1, <1>10, <3>1, <3>2
  <2>2. CASE Parses(buffer)
    <3>1. handled' = Append(handled, h) /\ handled \in Seq(Handlings) /\ Fresh(Up(m), m, requests, handled)
      BY <1>5, <2>2 DEF Inv, Behaves, FreshInv, Types, HistoryOK
    <3>2. CASE m = n
      <4>1. Fresh(buffer \o w, n, requests, handled)
        BY <1>1, <1>2, <3>1, <3>2
      <4>2. Fresh(w, n, requests, handled)
        BY <4>1, FreshRest
      <4>3. \A j \in 1..Len(w) : w[j].part = "line" => w[j].n # h.n
        BY <1>3, <1>6, <2>2 DEF Parses
      <4>4. Fresh(w, n, requests, Append(handled, h))
        BY <1>6, <3>1, <4>2, <4>3, FreshAside
      <4>. QED  BY <1>1, <1>9, <3>1, <3>2, <4>4
    <3>3. CASE m # n
      <4>1. \A j \in 1..Len(Up(m)) : Up(m)[j].n # h.n
        BY <1>3, <1>6, <3>1, <3>3 DEF Fresh
      <4>2. Fresh(Up(m), m, requests, Append(handled, h))
        BY <1>6, <3>1, <4>1, FreshAside
      <4>. QED  BY <1>1, <1>10, <3>1, <3>3, <4>2
    <3>. QED  BY <3>2, <3>3
  <2>. QED  BY <2>1, <2>2
<1>12. FreshInv'
  BY <1>11 DEF FreshInv
\* Without a timeout, the client whose turn it was waits for this answer.
<1>13. ASSUME n \notin timed_out
       PROVE  \E c \in Clients : /\ m_socket[c] = n /\ m_socket[c] # 0 /\ IsWaiting(c) /\ Down(c) = <<>>
                                /\ Up(n) = Request(c)
                                /\ w = <<>> /\ Parses(buffer) /\ WholeBody(buffer)
                                /\ s = Answer(c) /\ s \in Seq(Pieces)
  <2>1. Up(n) # <<>>
    <3>1. Len(buffer \o w) # 0
      BY <1>3, ConcatProperties, EmptySeq, LenProperties
    <3>. QED  BY <1>1, <1>2, <3>1
  <2>2. PICK c \in Clients : m_socket[c] = n
    BY <1>13, <2>1 DEF Inv, Behaves, TurnInv
  <2>3. n # 0 /\ n \in Nat
    BY DEF Connections
  <2>4. IsWaiting(c) /\ Up(n) = Request(c) /\ Down(c) = <<>>
    BY <1>13, <2>1, <2>2, <2>3 DEF Inv, Behaves, TurnInv, InTurn
  <2>5. sent[c] \in 1..Len(requests)
    BY <2>4 DEF Inv, Types, ClientsOK
  <2>6. requests[sent[c]].kind \in Kinds /\ sent[c] \in Nat
    <3>1. requests[sent[c]] \in Requests
      BY <2>5, ElementOfSeq DEF Inv, Types, HistoryOK
    <3>. QED  BY <2>5, <3>1 DEF Requests
  <2>7. PICK number \in Nat : number = sent[c]
    BY <2>6
  <2>8. PICK len \in {0, 1}, result \in Results :
           len = requests[sent[c]].kind.len /\ result = requests[sent[c]].kind.result
    BY <2>6, ConstantsAssumption
  <2>9. PICK q : q = Request(c)
    OBVIOUS
  <2>10. q = Serialize(number, len, result)
    BY <2>7, <2>8, <2>9 DEF Request
  <2>11. IsMessage(q, number, len, result)
    BY <2>10, SerializeIs
  <2>12. buffer \o w = q
    BY <1>1, <1>2, <2>4, <2>9
  <2>13. Parses(buffer)
    <3>1. IsCut(buffer, w, q)
      BY <2>12 DEF IsCut
    <3>. QED  BY ONLY <2>11, <3>1, HasCompleteHeaders(buffer), StartOfMessage
  <2>14. HasCompleteBody(buffer)
    BY <2>13
  <2>15. w = <<>> /\ WholeBody(buffer) /\ buffer[1].n = number /\ buffer[1].result = result
    <3>1. IsCut(buffer, w, q)
      BY <2>12 DEF IsCut
    <3>2. IsWhole(buffer, w, q, number, result)
      BY <2>11, <2>14, <3>1, WholeMessage
    <3>. QED  BY ONLY <3>2 DEF IsWhole
  <2>16. s = Answer(c) /\ s \in Seq(Pieces)
    <3>1. AnswerTo(buffer) = Serialize(number, requests[number].kind.reply, result)
      BY <2>13, <2>15 DEF AnswerTo
    <3>2. Answer(c) = Serialize(number, requests[number].kind.reply, result)
      BY <2>7, <2>8 DEF Answer
    <3>3. requests[number].kind.reply \in {0, 1}
      BY <2>6, <2>7, ConstantsAssumption
    <3>4. \A reply \in {0, 1} : Serialize(number, reply, result) \in Seq(Pieces)
      BY SerializeIs DEF IsMessage
    <3>. QED  BY <1>4, <3>1, <3>2, <3>3, <3>4
  <2>. QED  BY <2>2, <2>3, <2>4, <2>13, <2>15, <2>16
<1>14. TurnInv'
  <2>1. ASSUME NEW c \in Clients, m_socket'[c] \notin timed_out' \cup {0}
        PROVE  InTurn(c)'
    <3>1. InTurn(c) /\ m_socket[c] \in Connections /\ m_socket[c] \notin timed_out /\ m_socket[c] # 0
      BY <1>1, <2>1 DEF Inv, Behaves, TurnInv, Types, ClientsOK
    <3>2. Request(c)' = Request(c) /\ Answer(c)' = Answer(c) /\ (IsWaiting(c)' <=> IsWaiting(c))
      BY <1>1 DEF Request, Answer, IsWaiting
    <3>3. CASE m_socket[c] # n
      <4>1. Up(m_socket[c])' = Up(m_socket[c])
        BY <1>1, <1>10, <3>1, <3>3
      <4>2. Down(c)' = Down(c)
        BY <1>1, <1>7, <1>8, <3>1, <3>3 DEF Down
      <4>. QED  BY <1>1, <3>1, <3>2, <4>1, <4>2 DEF InTurn
    <3>4. CASE m_socket[c] = n
      <4>1. IsWaiting(c) /\ Down(c) = <<>> /\ w = <<>> /\ s = Answer(c)
        <5>1. n \notin timed_out
          BY <3>1, <3>4
        <5>2. PICK d \in Clients : /\ m_socket[d] = n /\ m_socket[d] # 0 /\ IsWaiting(d) /\ Down(d) = <<>>
                                  /\ w = <<>> /\ s = Answer(d)
          BY <1>13, <5>1
        <5>3. c = d
          BY <3>4, <5>2 DEF Inv, Types, ClientsOK
        <5>. QED  BY <5>2, <5>3
      <4>2. Up(n)' = <<>>
        BY <1>9, <4>1
      <4>3. PICK x \in Seq(Pieces), y \in Seq(Pieces), z \in Seq(Pieces) :
               x = received[c] /\ y = arrived["client"][n] /\ z = wire["client"][n]
        BY UnderWay DEF Inv, Types, ClientsOK, Sides
      <4>4. x \o (y \o z) = <<>>
        BY <3>4, <4>1, <4>3 DEF Down
      <4>5. x = <<>> /\ y = <<>> /\ z = <<>>
        BY <4>4, ConcatProperties, ConcatEqualIffEmpty
      <4>6. wire'["client"][n] \in {<<>>, s}
        <5>1. s \in Seq(Pieces)
          BY <1>13, <3>1, <3>4
        <5>. QED  BY <1>8, <4>3, <4>5, <5>1, ConcatEmptySeq
      <4>7. Down(c)' \in {<<>>, s}
        <5>1. s \in Seq(Pieces)
          BY <1>13, <3>1, <3>4
        <5>2. PICK v \in Seq(Pieces) : v = wire'["client"][n] /\ v \in {<<>>, s}
          <6>1. <<>> \in Seq(Pieces) /\ wire'["client"][n] \in {<<>>, s}
            BY <4>6
          <6>. QED  BY <5>1, <6>1
        <5>3. Down(c)' = <<>> \o (<<>> \o v)
          BY <1>1, <1>7, <3>4, <4>3, <4>5, <5>2 DEF Down
        <5>. QED  BY <5>2, <5>3, ConcatEmptySeq
      <4>. QED  BY <1>1, <3>2, <3>4, <4>1, <4>2, <4>7 DEF InTurn
    <3>. QED  BY <3>3, <3>4
  <2>2. ASSUME NEW m \in Connections \ timed_out'
        PROVE  (Up(m) = <<>> \/ \E c \in Clients : m_socket[c] = m)'
    <3>1. CASE m = n
      BY <1>1, <1>13, <2>2, <3>1
    <3>2. CASE m # n
      BY <1>1, <1>10, <2>2, <3>2 DEF Inv, Behaves, TurnInv
    <3>. QED  BY <3>1, <3>2
  <2>. QED  BY <2>1, <2>2 DEF TurnInv
<1>15. HandledOnce' /\ HandledWhole'
  <2>1. CASE handled' = handled
    BY <1>1, <2>1 DEF Inv, Behaves, HandledOnce, HandledWhole
  <2>2. CASE Parses(buffer)
    <3>1. /\ handled' = Append(handled, h) /\ Len(handled) \in Nat /\ DOMAIN handled = 1..Len(handled)
          /\ DOMAIN handled' = 1..(Len(handled) + 1) /\ handled'[Len(handled) + 1] = h
          /\ \A j \in 1..Len(handled) : handled'[j] = handled[j]
      BY <1>5, <1>6, <2>2, AppendProperties, LenProperties DEF Inv, Types, HistoryOK
    <3>2. \A j \in DOMAIN handled' : j \in DOMAIN handled \/ j = Len(handled) + 1
      BY <3>1
    <3>3. \A j \in DOMAIN handled : handled[j].n # h.n
      BY <1>3, <1>6, <2>2, <3>1 DEF Parses
    <3>4. HandledOnce'
      BY <3>1, <3>2, <3>3 DEF Inv, Behaves, HandledOnce
    <3>5. n \notin timed_out => h.whole
      BY <1>6, <1>13
    <3>6. HandledWhole'
      BY <1>1, <1>6, <3>1, <3>2, <3>5 DEF Inv, Behaves, HandledWhole
    <3>. QED  BY <3>4, <3>6
  <2>. QED  BY <1>5, <2>1, <2>2
<1>16. AnswerMatches'
  BY <1>1 DEF Inv, Behaves, AnswerMatches
<1>. QED  BY <1>12, <1>14, <1>15, <1>16 DEF Behaves

LEMMA HandleKeeps ==
    ASSUME Inv, HandleClient
    PROVE  Behaves'
<1>1. PICK i \in DOMAIN m_clients, n \in Connections, buffer \in Seq(Pieces) : Handling(i, n, buffer)
  BY HandleClientIs DEF Inv
<1>2. CASE UNCHANGED <<m_client_buffers, wire, handled>> /\ arrived["server"][n] = <<>>
  BY <1>1, <1>2, BufferKeeps
<1>3. CASE SetBuffer(i, buffer) /\ UNCHANGED <<wire, handled>>
  BY <1>1, <1>3, BufferKeeps
<1>4. CASE /\ HasCompleteHeaders(buffer) /\ (Parses(buffer) => HasCompleteBody(buffer))
           /\ Respond(n, buffer) /\ EraseBuffer(i)
  BY <1>1, <1>4, RespondKeeps
<1>. QED  BY <1>1, <1>2, <1>3, <1>4 DEF Handling

\* A connection that is new has nothing under way.
LEMMA ConnectKeeps ==
    ASSUME Inv, NEW c \in Clients, Connect(c)
    PROVE  Behaves'
<1>1. /\ UNCHANGED <<pc, sent, received, answer, wire, arrived, m_clients, m_client_buffers>>
      /\ UNCHANGED <<requests, timed_out, handled>>
      /\ pc[c] = "idle" /\ m_socket[c] = 0
      /\ connections' = connections + 1 /\ connections' \in Connections /\ connections \in Nat
      /\ m_socket' = [m_socket EXCEPT ![c] = connections']
  BY ConstantsAssumption DEF Connect, tcpServerVars, httpServerVars, historyVars, Inv, Types, NetworkOK, Connections
<1>2. PICK n \in Connections : n = connections' /\ n > connections
  BY <1>1
<1>3. /\ \A d \in Clients : m_socket'[d] = IF d = c THEN n ELSE m_socket[d]
      /\ \A d \in Clients : m_socket[d] # n
  <2>1. \A d \in Clients : m_socket[d] <= connections /\ m_socket[d] \in Nat
    BY DEF Inv, Types, ClientsOK, Connections
  <2>. QED  BY <1>1, <1>2, <2>1 DEF Inv, Types, ClientsOK
<1>4. /\ wire["server"][n] = <<>> /\ arrived["server"][n] = <<>>
      /\ wire["client"][n] = <<>> /\ arrived["client"][n] = <<>>
  BY <1>2 DEF Inv, Types, NetworkOK, Sides
<1>5. Up(n) = <<>>
  <2>1. \A i \in DOMAIN m_clients : m_clients[i] # n
    <3>1. \A i \in DOMAIN m_clients : m_clients[i] <= connections /\ m_clients[i] \in Nat
      BY DEF Inv, Types, Accepted, ServerOK, Connections
    <3>. QED  BY <1>1, <1>2, <3>1
  <2>2. Held(n, m_clients, m_client_buffers) = <<>>
    BY <2>1, HeldNot
  <2>3. Up(n) = <<>> \o (<<>> \o <<>>)
    BY <1>4, <2>2 DEF Up
  <2>. QED  BY <2>3
<1>6. \A m \in Connections : Up(m)' = Up(m)
  BY <1>1 DEF Up
<1>7. Down(c)' = <<>>
  <2>1. received[c] = <<>>
    BY <1>1 DEF Inv, Types, ClientsOK, IsWaiting
  <2>2. Down(c)' = <<>> \o (<<>> \o <<>>)
    BY <1>1, <1>3, <1>4, <2>1 DEF Down
  <2>. QED  BY <2>2
<1>8. FreshInv'
  BY <1>1, <1>6 DEF Inv, Behaves, FreshInv
<1>9. TurnInv'
  <2>1. ASSUME NEW d \in Clients, m_socket'[d] \notin timed_out' \cup {0}
        PROVE  InTurn(d)'
    <3>1. CASE d = c
      <4>1. ~IsWaiting(d)' /\ m_socket'[d] = n
        BY <1>1, <1>3, <3>1 DEF IsWaiting
      <4>. QED  BY <1>5, <1>6, <1>7, <3>1, <4>1 DEF InTurn
    <3>2. CASE d # c
      <4>1. /\ m_socket'[d] = m_socket[d] /\ InTurn(d) /\ m_socket[d] \in Connections
        BY <1>1, <1>3, <2>1, <3>2 DEF Inv, Behaves, TurnInv, Types, ClientsOK
      <4>2. /\ Request(d)' = Request(d) /\ Answer(d)' = Answer(d) /\ (IsWaiting(d)' <=> IsWaiting(d))
            /\ Down(d)' = Down(d) /\ Up(m_socket[d])' = Up(m_socket[d])
        BY <1>1, <1>6, <4>1 DEF Request, Answer, IsWaiting, Down
      <4>. QED  BY <4>1, <4>2 DEF InTurn
    <3>. QED  BY <3>1, <3>2
  <2>2. ASSUME NEW m \in Connections \ timed_out'
        PROVE  (Up(m) = <<>> \/ \E d \in Clients : m_socket[d] = m)'
    <3>1. Up(m) = <<>> \/ \E d \in Clients : m_socket[d] = m
      BY <1>1, <2>2 DEF Inv, Behaves, TurnInv
    <3>2. \A d \in Clients : m_socket[d] = m => m_socket'[d] = m
      BY <1>1, <1>3, <2>2 DEF Connections
    <3>. QED  BY <1>6, <3>1, <3>2
  <2>. QED  BY <2>1, <2>2 DEF TurnInv
<1>10. HandledOnce' /\ HandledWhole'
  BY <1>1 DEF Inv, Behaves, HandledOnce, HandledWhole
<1>11. AnswerMatches'
  <2>1. m_socket[c] \notin timed_out
    BY <1>1 DEF Inv, Types, HistoryOK, Connections
  <2>2. \A d \in Clients : m_socket'[d] \notin timed_out => m_socket[d] \notin timed_out
    BY <1>3, <2>1
  <2>. QED  BY <1>1, <2>2 DEF Inv, Behaves, AnswerMatches
<1>. QED  BY <1>8, <1>9, <1>10, <1>11 DEF Behaves

LEMMA DisconnectKeeps ==
    ASSUME Inv, NEW c \in Clients, Disconnect(c)
    PROVE  Behaves'
<1>1. /\ UNCHANGED <<pc, sent, received, m_clients, m_client_buffers>>
      /\ UNCHANGED <<requests, timed_out, handled>>
      /\ pc[c] = "idle" /\ m_socket[c] # 0 /\ m_socket[c] \in Connections
      /\ \A d \in Clients \ {c} : m_socket'[d] = m_socket[d] /\ answer'[d] = answer[d]
      /\ m_socket'[c] = 0 /\ answer'[c] = NoAnswer
  BY DEF Disconnect, tcpServerVars, httpServerVars, historyVars, Inv, Types, ClientsOK
<1>2. PICK n \in Connections : n = m_socket[c]
  BY <1>1
<1>3. Types /\ "client" \in Sides /\ "server" \in Sides \ {"client"} /\ CloseSockets("client", {n})
  BY <1>2 DEF Disconnect, Sides, Inv
<1>4. /\ wire'["server"] = wire["server"] /\ arrived'["server"] = arrived["server"]
      /\ \A m \in Connections \ {n} : wire'["client"][m] = wire["client"][m] /\ arrived'["client"][m] = arrived["client"][m]
  BY <1>3, CloseTypes
<1>5. \A m \in Connections : Up(m)' = Up(m)
  BY <1>1, <1>4 DEF Up
<1>6. FreshInv'
  BY <1>1, <1>5 DEF Inv, Behaves, FreshInv
<1>7. TurnInv'
  <2>1. ASSUME NEW d \in Clients, m_socket'[d] \notin timed_out' \cup {0}
        PROVE  InTurn(d)'
    <3>1. d # c
      BY <1>1, <2>1
    <3>2. /\ m_socket'[d] = m_socket[d] /\ InTurn(d) /\ m_socket[d] \in Connections \ {n}
      BY <1>1, <1>2, <2>1, <3>1 DEF Inv, Behaves, TurnInv, Types, ClientsOK
    <3>3. /\ Request(d)' = Request(d) /\ Answer(d)' = Answer(d) /\ (IsWaiting(d)' <=> IsWaiting(d))
          /\ Down(d)' = Down(d) /\ Up(m_socket[d])' = Up(m_socket[d])
      BY <1>1, <1>4, <1>5, <3>2 DEF Request, Answer, IsWaiting, Down
    <3>. QED  BY <3>2, <3>3 DEF InTurn
  <2>2. ASSUME NEW m \in Connections \ timed_out'
        PROVE  (Up(m) = <<>> \/ \E d \in Clients : m_socket[d] = m)'
    <3>1. Up(m) = <<>> \/ \E d \in Clients : m_socket[d] = m
      BY <1>1, <2>2 DEF Inv, Behaves, TurnInv
    <3>2. CASE m = n
      <4>1. InTurn(c) /\ ~IsWaiting(c)
        BY <1>1, <1>2, <2>2, <3>2 DEF Inv, Behaves, TurnInv, IsWaiting
      <4>2. Up(n) = <<>>
        BY <1>2, <4>1 DEF InTurn
      <4>. QED  BY <1>5, <3>2, <4>2
    <3>3. CASE m # n
      BY <1>1, <1>2, <1>5, <3>1, <3>3
    <3>. QED  BY <3>2, <3>3
  <2>. QED  BY <2>1, <2>2 DEF TurnInv
<1>8. HandledOnce' /\ HandledWhole'
  BY <1>1 DEF Inv, Behaves, HandledOnce, HandledWhole
<1>9. AnswerMatches'
  BY <1>1 DEF Inv, Behaves, AnswerMatches
<1>. QED  BY <1>6, <1>7, <1>8, <1>9 DEF Behaves

\* The client whose call times out leaves its turn; nobody relies on it.
LEMMA TimeoutKeeps ==
    ASSUME Inv, NEW c \in Clients, ResponseTimeout(c)
    PROVE  Behaves'
<1>1. /\ UNCHANGED <<m_socket, sent, answer, wire, m_clients, m_client_buffers, requests, handled>>
      /\ m_socket[c] \in Connections /\ "client" \in Sides /\ timed_out' = timed_out \cup {m_socket[c]}
      /\ \A d \in Clients \ {c} : pc'[d] = pc[d] /\ received'[d] = received[d]
  BY DEF ResponseTimeout, tcpServerVars, httpServerVars, Inv, Types, ClientsOK, IsWaiting, Sides
<1>2. arrived' = arrived \/ arrived' = [arrived EXCEPT !["client"][m_socket[c]] = <<>>]
  BY DEF ResponseTimeout
<1>3. PICK n \in Connections : n = m_socket[c]
  BY <1>1
<1>4. /\ arrived'["server"] = arrived["server"]
      /\ \A m \in Connections \ {n} : arrived'["client"][m] = arrived["client"][m]
  BY <1>1, <1>2, <1>3 DEF Inv, Types, NetworkOK, Sides
<1>5. \A m \in Connections : Up(m)' = Up(m)
  BY <1>1, <1>4 DEF Up
<1>6. FreshInv'
  BY <1>1, <1>5 DEF Inv, Behaves, FreshInv
<1>7. TurnInv'
  <2>1. ASSUME NEW d \in Clients, m_socket'[d] \notin timed_out' \cup {0}
        PROVE  InTurn(d)'
    <3>1. d # c /\ m_socket[d] # n
      BY <1>1, <1>3, <2>1
    <3>2. InTurn(d) /\ m_socket[d] \in Connections
      BY <1>1, <2>1 DEF Inv, Behaves, TurnInv, Types, ClientsOK
    <3>3. /\ Request(d)' = Request(d) /\ Answer(d)' = Answer(d) /\ (IsWaiting(d)' <=> IsWaiting(d))
          /\ Down(d)' = Down(d) /\ Up(m_socket[d])' = Up(m_socket[d])
      BY <1>1, <1>4, <1>5, <3>1, <3>2 DEF Request, Answer, IsWaiting, Down
    <3>. QED  BY <1>1, <3>2, <3>3 DEF InTurn
  <2>2. ASSUME NEW m \in Connections \ timed_out'
        PROVE  (Up(m) = <<>> \/ \E d \in Clients : m_socket[d] = m)'
    BY <1>1, <1>5, <2>2 DEF Inv, Behaves, TurnInv
  <2>. QED  BY <2>1, <2>2 DEF TurnInv
<1>8. HandledOnce' /\ HandledWhole'
  BY <1>1 DEF Inv, Behaves, HandledOnce, HandledWhole
<1>9. AnswerMatches'
  BY <1>1 DEF Inv, Behaves, AnswerMatches
<1>. QED  BY <1>6, <1>7, <1>8, <1>9 DEF Behaves

LEMMA SendKeeps ==
    ASSUME Inv, NEW c \in Clients, SendRequest(c)
    PROVE  Behaves'
<1>1. PICK number \in Nat : number = Len(requests) + 1
  BY LenProperties DEF Inv, Types, HistoryOK
<1>2. PICK k \in Kinds : /\ requests' = Append(requests, [kind |-> k, connection |-> m_socket[c]])
                        /\ Transmit("server", m_socket[c], Serialize(number, k.len, k.result))
  BY <1>1 DEF SendRequest
<1>3. /\ UNCHANGED <<m_socket, received, arrived, m_clients, m_client_buffers, timed_out, handled, closed>>
      /\ pc[c] = "idle" /\ m_socket[c] \in Connections /\ m_socket[c] # 0
      /\ \A d \in Clients \ {c} : pc'[d] = pc[d] /\ sent'[d] = sent[d] /\ answer'[d] = answer[d]
      /\ pc'[c] = "headers" /\ sent'[c] = number /\ answer'[c] = NoAnswer
  BY <1>1 DEF SendRequest, tcpServerVars, httpServerVars, Inv, Types, ClientsOK
<1>4. PICK n \in Connections : n = m_socket[c]
  BY <1>3
<1>5. PICK r \in Requests : r = [kind |-> k, connection |-> n] /\ r.connection = n /\ r.kind = k
  <2>1. [kind |-> k, connection |-> n] \in Requests
    BY DEF Requests
  <2>. QED  BY <2>1
<1>6. PICK s : s = Serialize(number, k.len, k.result)
  OBVIOUS
<1>7. k.len \in {0, 1} /\ k.result \in Results
  BY ConstantsAssumption
<1>8. IsMessage(s, number, k.len, k.result) /\ s \in Seq(Pieces)
  <2>1. PICK len \in {0, 1}, result \in Results : len = k.len /\ result = k.result
    BY <1>7
  <2>2. s = Serialize(number, len, result)
    BY <1>6, <2>1
  <2>3. IsMessage(s, number, len, result)
    BY <2>2, SerializeIs
  <2>. QED  BY <2>1, <2>3 DEF IsMessage
<1>9. /\ requests \in Seq(Requests) /\ requests' = Append(requests, r) /\ requests'[number] = r
      /\ Len(requests) \in Nat /\ \A i \in 1..Len(requests) : requests'[i] = requests[i]
  <2>1. requests \in Seq(Requests) /\ requests' = Append(requests, r)
    BY <1>2, <1>4, <1>5 DEF Inv, Types, HistoryOK
  <2>. QED  BY <1>1, <2>1, AppendProperties, LenProperties
<1>10. /\ wire'["client"] = wire["client"]
       /\ \A m \in Connections \ {n} : wire'["server"][m] = wire["server"][m]
       /\ wire'["server"][n] = IF n \in closed THEN wire["server"][n] ELSE wire["server"][n] \o s
  <2>1. wire \in [Sides -> [Connections -> Seq(Pieces)]] /\ "client" \in Sides /\ "server" \in Sides
    BY DEF Inv, Types, NetworkOK, Sides
  <2>2. wire' = IF n \in closed THEN wire ELSE [wire EXCEPT !["server"][n] = @ \o s]
    BY <1>2, <1>4, <1>6 DEF Transmit
  <2>. QED  BY <2>1, <2>2
<1>11. \A m \in Connections \ {n} : Up(m)' = Up(m)
  BY <1>3, <1>10 DEF Up
<1>12. PICK u \in Seq(Pieces) : u = Up(n)
  BY UnderWay DEF Inv
<1>13. Up(n)' \in {u, u \o s}
  <2>1. PICK x \in Seq(Pieces), y \in Seq(Pieces), z \in Seq(Pieces) :
           x = Held(n, m_clients, m_client_buffers) /\ y = arrived["server"][n] /\ z = wire["server"][n]
    BY UnderWay DEF Inv, Sides
  <2>2. x \o (y \o (z \o s)) = (x \o (y \o z)) \o s
    <3>1. s \in Seq(Pieces)
      BY <1>8
    <3>2. y \o z \in Seq(Pieces) /\ (y \o z) \o s = y \o (z \o s)
      BY <3>1, ConcatProperties, ConcatAssociative, SMTT(30)
    <3>3. PICK v \in Seq(Pieces) : v = y \o z
      BY <3>2
    <3>4. (x \o v) \o s = x \o (v \o s)
      BY <3>1, ConcatAssociative, SMTT(30)
    <3>. QED  BY <3>2, <3>3, <3>4
  <2>3. Up(n)' \in {x \o (y \o z), x \o (y \o (z \o s))}
    BY <1>3, <1>10, <2>1 DEF Up
  <2>4. u = x \o (y \o z)
    BY <1>12, <2>1 DEF Up
  <2>. QED  BY <2>2, <2>3, <2>4
<1>14. \A d \in Clients : Down(d)' = Down(d)
  BY <1>3, <1>10 DEF Down
<1>15. ASSUME NEW m \in Connections
       PROVE  Fresh(Up(m)', m, requests', handled')
  <2>1. Fresh(Up(m), m, requests, handled)
    BY DEF Inv, Behaves, FreshInv
  <2>2. Fresh(Up(m), m, requests', handled)
    BY <1>9, <2>1, FreshStill
  <2>3. CASE m # n
    BY <1>3, <1>11, <2>2, <2>3
  <2>4. CASE m = n
    <3>1. PICK rs \in Seq(Requests) : rs = requests
      BY <1>9
    <3>2. PICK hs : hs = handled
      OBVIOUS
    <3>3. Fresh(u, n, rs, hs) /\ \A h \in 1..Len(hs) : hs[h].n \in 1..Len(rs)
      BY <1>12, <2>1, <2>4, <3>1, <3>2 DEF Inv, Types, HistoryOK
    <3>4. IsMessage(s, Len(rs) + 1, k.len, k.result)
      BY <1>1, <1>8, <3>1
    <3>5. Fresh(u \o s, n, Append(rs, r), hs)
      BY <1>5, <3>3, <3>4, FreshRequest
    <3>6. Fresh(u, n, Append(rs, r), hs)
      BY <1>9, <1>12, <2>2, <2>4, <3>1, <3>2
    <3>. QED  BY <1>3, <1>9, <1>13, <2>4, <3>1, <3>2, <3>5, <3>6
  <2>. QED  BY <2>3, <2>4
<1>16. FreshInv'
  BY <1>15 DEF FreshInv
<1>17. TurnInv'
  <2>1. ASSUME NEW d \in Clients, m_socket'[d] \notin timed_out' \cup {0}
        PROVE  InTurn(d)'
    <3>1. InTurn(d) /\ m_socket[d] \in Connections /\ m_socket'[d] = m_socket[d]
      BY <1>3, <2>1 DEF Inv, Behaves, TurnInv, Types, ClientsOK
    <3>2. CASE d # c
      <4>1. m_socket[d] # n
        BY <1>3, <1>4, <3>2 DEF Inv, Types, ClientsOK
      <4>2. CASE IsWaiting(d)
        <5>1. sent[d] \in 1..Len(requests) /\ sent'[d] = sent[d]
          BY <1>3, <3>2, <4>2 DEF Inv, Types, ClientsOK
        <5>2. Request(d)' = Request(d) /\ Answer(d)' = Answer(d) /\ IsWaiting(d)'
          BY <1>3, <1>9, <3>2, <4>2, <5>1 DEF Request, Answer, IsWaiting
        <5>. QED  BY <1>11, <1>14, <3>1, <4>1, <4>2, <5>2 DEF InTurn
      <4>3. CASE ~IsWaiting(d)
        <5>1. ~IsWaiting(d)'
          BY <1>3, <3>2, <4>3 DEF IsWaiting
        <5>. QED  BY <1>11, <1>14, <3>1, <4>1, <4>3, <5>1 DEF InTurn
      <4>. QED  BY <4>2, <4>3
    <3>3. CASE d = c
      <4>1. ~IsWaiting(c) /\ IsWaiting(c)'
        BY <1>3 DEF IsWaiting
      <4>2. u = <<>> /\ Down(c) = <<>>
        BY <1>4, <1>12, <3>1, <3>3, <4>1 DEF InTurn
      <4>3. Up(n)' \in {<<>>, s}
        BY <1>8, <1>13, <4>2, ConcatEmptySeq
      <4>4. Request(c)' = s
        <5>1. requests'[sent'[c]].kind = k
          BY <1>3, <1>5, <1>9
        <5>. QED  BY <1>3, <1>6, <5>1 DEF Request
      <4>. QED  BY <1>3, <1>4, <1>14, <3>3, <4>1, <4>2, <4>3, <4>4 DEF InTurn
    <3>. QED  BY <3>2, <3>3
  <2>2. ASSUME NEW m \in Connections \ timed_out'
        PROVE  (Up(m) = <<>> \/ \E d \in Clients : m_socket[d] = m)'
    BY <1>3, <1>4, <1>11, <2>2 DEF Inv, Behaves, TurnInv
  <2>. QED  BY <2>1, <2>2 DEF TurnInv
<1>18. HandledOnce' /\ HandledWhole'
  BY <1>3 DEF Inv, Behaves, HandledOnce, HandledWhole
<1>19. AnswerMatches'
  <2>1. \A d \in Clients : answer'[d] # NoAnswer => /\ d # c /\ answer[d] # NoAnswer
                                                    /\ sent[d] \in 1..Len(requests) /\ sent'[d] = sent[d]
    BY <1>3 DEF Inv, Types, ClientsOK
  <2>. QED  BY <1>3, <1>9, <2>1 DEF Inv, Behaves, AnswerMatches
<1>. QED  BY <1>16, <1>17, <1>18, <1>19 DEF Behaves

LEMMA ReceiveKeeps ==
    ASSUME Inv, NEW c \in Clients, ReceiveResponse(c)
    PROVE  Behaves'
<1>1. /\ UNCHANGED <<m_socket, sent, wire, m_clients, m_client_buffers, requests, timed_out, handled>>
      /\ m_socket[c] \in Connections /\ m_socket[c] # 0 /\ IsWaiting(c)
      /\ arrived' = [arrived EXCEPT !["client"][m_socket[c]] = <<>>]
  BY DEF ReceiveResponse, tcpServerVars, httpServerVars, historyVars, Inv, Types, ClientsOK, IsWaiting
<1>2. PICK n \in Connections : n = m_socket[c]
  BY <1>1
<1>3. PICK x \in Seq(Pieces), y \in Seq(Pieces), z \in Seq(Pieces) :
         x = received[c] /\ y = arrived["client"][n] /\ z = wire["client"][n]
  BY UnderWay DEF Inv, Types, ClientsOK, Sides
<1>4. PICK buffer \in Seq(Pieces) : buffer = x \o y /\ buffer # <<>> /\ Down(c) = buffer \o z
  <2>1. y # <<>>
    BY <1>2, <1>3 DEF ReceiveResponse
  <2>2. x \o y \in Seq(Pieces) /\ x \o y # <<>> /\ (x \o y) \o z = x \o (y \o z)
    BY <2>1, ConcatProperties, ConcatAssociative, ConcatEqualIffEmpty
  <2>. QED  BY <1>2, <1>3, <2>2 DEF Down
<1>. DEFINE done == HasCompleteHeaders(buffer) /\ HasCompleteBody(buffer)
<1>5. /\ \A d \in Clients \ {c} : pc'[d] = pc[d] /\ received'[d] = received[d] /\ answer'[d] = answer[d]
      /\ done => pc'[c] = "idle" /\ received'[c] = <<>> /\ answer'[c] = buffer
      /\ ~done => IsWaiting(c)' /\ received'[c] = buffer /\ answer'[c] = answer[c]
  BY <1>2, <1>3, <1>4 DEF ReceiveResponse, Inv, Types, ClientsOK, IsWaiting
<1>. HIDE DEF done
<1>6. /\ arrived'["server"] = arrived["server"] /\ arrived'["client"][n] = <<>>
      /\ \A m \in Connections \ {n} : arrived'["client"][m] = arrived["client"][m]
  BY <1>1, <1>2 DEF Inv, Types, NetworkOK, Sides
<1>7. \A m \in Connections : Up(m)' = Up(m)
  BY <1>1, <1>6 DEF Up
<1>8. FreshInv'
  BY <1>1, <1>7 DEF Inv, Behaves, FreshInv
<1>9. \A d \in Clients : Request(d)' = Request(d) /\ Answer(d)' = Answer(d)
  BY <1>1 DEF Request, Answer
\* Without a timeout, what completes is the answer to the last request.
<1>10. ASSUME n \notin timed_out, done
       PROVE  /\ buffer # <<>> /\ z = <<>> /\ Up(n) = <<>> /\ Parses(buffer) /\ buffer[1].n = sent[c]
              /\ buffer[1].result = requests[sent[c]].kind.result /\ WholeBody(buffer)
  <2>1. Down(c) # <<>>
    BY <1>4, ConcatProperties, ConcatEqualIffEmpty
  <2>2. Down(c) = Answer(c) /\ Up(n) = <<>>
    BY <1>1, <1>2, <1>10, <2>1 DEF Inv, Behaves, TurnInv, InTurn
  <2>3. sent[c] \in 1..Len(requests)
    BY <1>1 DEF Inv, Types, ClientsOK
  <2>4. requests[sent[c]].kind \in Kinds /\ sent[c] \in Nat
    <3>1. requests[sent[c]] \in Requests
      BY <2>3, ElementOfSeq DEF Inv, Types, HistoryOK
    <3>. QED  BY <2>3, <3>1 DEF Requests
  <2>5. PICK number \in Nat : number = sent[c]
    BY <2>4
  <2>6. PICK len \in {0, 1}, result \in Results :
           len = requests[sent[c]].kind.reply /\ result = requests[sent[c]].kind.result
    BY <2>4, ConstantsAssumption
  <2>7. PICK q : q = Answer(c)
    OBVIOUS
  <2>8. q = Serialize(number, len, result)
    BY <2>5, <2>6, <2>7 DEF Answer
  <2>9. IsMessage(q, number, len, result)
    BY <2>8, SerializeIs
  <2>10. buffer \o z = q
    BY <1>4, <2>2, <2>7
  <2>11. HasCompleteHeaders(buffer) /\ HasCompleteBody(buffer)
    BY <1>10 DEF done
  <2>12. z = <<>> /\ Parses(buffer) /\ buffer[1].n = number /\ buffer[1].result = result /\ WholeBody(buffer)
    <3>1. IsCut(buffer, z, q)
      BY <2>10 DEF IsCut
    <3>2. IsWhole(buffer, z, q, number, result)
      BY <2>9, <2>11, <3>1, WholeMessage
    <3>. QED  BY ONLY <3>2 DEF IsWhole
  <2>. QED  BY <1>4, <2>2, <2>5, <2>6, <2>12
<1>11. TurnInv'
  <2>1. ASSUME NEW d \in Clients, m_socket'[d] \notin timed_out' \cup {0}
        PROVE  InTurn(d)'
    <3>1. InTurn(d) /\ m_socket[d] \in Connections /\ m_socket'[d] = m_socket[d]
      BY <1>1, <2>1 DEF Inv, Behaves, TurnInv, Types, ClientsOK
    <3>2. CASE d # c
      <4>1. m_socket[d] # n
        BY <1>1, <1>2, <3>2 DEF Inv, Types, ClientsOK
      <4>2. Down(d)' = Down(d) /\ (IsWaiting(d)' <=> IsWaiting(d))
        BY <1>1, <1>5, <1>6, <3>1, <3>2, <4>1 DEF Down, IsWaiting
      <4>. QED  BY <1>7, <1>9, <3>1, <4>2 DEF InTurn
    <3>3. CASE d = c /\ done
      <4>1. ~IsWaiting(c)' /\ z = <<>> /\ Up(n) = <<>>
        BY <1>1, <1>2, <1>5, <1>10, <2>1, <3>3 DEF IsWaiting
      <4>2. Down(c)' = <<>> \o (<<>> \o <<>>)
        BY <1>1, <1>2, <1>3, <1>5, <1>6, <3>3, <4>1 DEF Down
      <4>3. Down(c)' = <<>>
        BY <4>2
      <4>. QED  BY <1>2, <1>7, <3>1, <3>3, <4>1, <4>3 DEF InTurn
    <3>4. CASE d = c /\ ~done
      <4>1. Down(c)' = Down(c)
        <5>1. Down(c)' = buffer \o (<<>> \o z)
          BY <1>1, <1>2, <1>3, <1>5, <1>6, <3>4 DEF Down
        <5>2. <<>> \o z = z
          BY ConcatEmptySeq
        <5>. QED  BY <1>4, <5>1, <5>2
      <4>2. IsWaiting(c)'
        BY <1>5, <3>4
      <4>. QED  BY <1>1, <1>7, <1>9, <3>1, <3>4, <4>1, <4>2 DEF InTurn
    <3>. QED  BY <3>2, <3>3, <3>4
  <2>2. ASSUME NEW m \in Connections \ timed_out'
        PROVE  (Up(m) = <<>> \/ \E d \in Clients : m_socket[d] = m)'
    BY <1>1, <1>7, <2>2 DEF Inv, Behaves, TurnInv
  <2>. QED  BY <2>1, <2>2 DEF TurnInv
<1>12. HandledOnce' /\ HandledWhole'
  BY <1>1 DEF Inv, Behaves, HandledOnce, HandledWhole
<1>13. AnswerMatches'
  <2>1. ASSUME NEW d \in Clients, answer'[d] # NoAnswer, m_socket[d] \notin timed_out
        PROVE  /\ Parses(answer'[d]) /\ answer'[d][1].n = sent[d]
               /\ answer'[d][1].result = requests[sent[d]].kind.result /\ WholeBody(answer'[d])
    <3>1. CASE d = c /\ done
      BY <1>2, <1>5, <1>10, <2>1, <3>1
    <3>2. CASE d # c \/ ~done
      BY <1>5, <2>1, <3>2 DEF Inv, Behaves, AnswerMatches
    <3>. QED  BY <3>1, <3>2
  <2>. QED  BY <1>1, <2>1 DEF AnswerMatches
<1>. QED  BY <1>8, <1>11, <1>12, <1>13 DEF Behaves

-----------------------------------------------------------------------------
(* The specification. *)

LEMMA InvInit == Init => Inv
<1>. SUFFICES ASSUME Init PROVE Inv
  OBVIOUS
<1>1. /\ \A side \in Sides, n \in Connections : wire[side][n] = <<>> /\ arrived[side][n] = <<>>
      /\ wire \in [Sides -> [Connections -> Seq(Pieces)]] /\ arrived \in [Sides -> [Connections -> Seq(Pieces)]]
  BY DEF Init
<1>2. DOMAIN m_clients = {} /\ m_clients = [i \in {} |-> m_clients[i]]
      /\ DOMAIN m_client_buffers = {} /\ m_client_buffers = [i \in {} |-> m_client_buffers[i]]
      /\ Len(requests) = 0 /\ Len(handled) = 0 /\ Len(backlog) = 0
      /\ \A c \in Clients : ~IsWaiting(c) /\ m_socket[c] = 0 /\ answer[c] = NoAnswer
  BY DEF Init, IsWaiting
<1>3. ClientsOK
  BY <1>2, ConstantsAssumption DEF Init, ClientsOK, NoAnswer
<1>4. NetworkOK
  BY <1>1, ConstantsAssumption DEF Init, NetworkOK
<1>5. ServerOK
  <2>1. m_clients \in [DOMAIN m_clients -> Connections] /\ m_client_buffers \in [DOMAIN m_client_buffers -> Seq(Pieces)]
    BY <1>2
  <2>. QED  BY <1>2, <2>1 DEF Init, ServerOK
<1>6. HistoryOK /\ Accepted
  BY <1>2, ConstantsAssumption DEF Init, HistoryOK, Accepted, OneEach
<1>7. \A n \in Connections : Up(n) = <<>>
  <2>1. ASSUME NEW n \in Connections
        PROVE  Up(n) = <<>>
    <3>1. Held(n, m_clients, m_client_buffers) = <<>>
      BY <1>2, HeldNot
    <3>2. Up(n) = <<>> \o (<<>> \o <<>>)
      BY <1>1, <3>1 DEF Up, Sides
    <3>. QED  BY <3>2
  <2>. QED  BY <2>1
<1>8. FreshInv
  BY <1>7, FreshNothing DEF FreshInv
<1>9. TurnInv
  BY <1>2, <1>7 DEF TurnInv
<1>10. HandledOnce /\ HandledWhole /\ AnswerMatches
  BY <1>2 DEF Init, HandledOnce, HandledWhole, AnswerMatches
<1>. QED  BY <1>3, <1>4, <1>5, <1>6, <1>8, <1>9, <1>10 DEF Inv, Types, Behaves

LEMMA InvStep == ASSUME Inv, [Next]_vars PROVE Inv'
<1>0. Types /\ FreshInv
  BY DEF Inv, Behaves
<1>1. ASSUME UNCHANGED vars
      PROVE  Inv'
  <2>1. Types'
    BY <1>0, <1>1 DEF vars, clientVars, networkVars, tcpServerVars, httpServerVars, historyVars,
       Types, ClientsOK, IsWaiting, NetworkOK, ServerOK, HistoryOK, Accepted, OneEach
  <2>2. Behaves'
    BY <1>1, NothingMoves DEF vars, clientVars, networkVars, tcpServerVars, httpServerVars, historyVars, IsWaiting
  <2>. QED  BY <2>1, <2>2 DEF Inv
<1>2. CASE Tick
  <2>1. Types'
    BY <1>0, <1>2 DEF Tick, clientVars, networkVars, tcpServerVars, historyVars,
       Types, ClientsOK, IsWaiting, NetworkOK, ServerOK, HistoryOK, Accepted, OneEach
  <2>2. Behaves'
    BY <1>2, NothingMoves DEF Tick, clientVars, networkVars, tcpServerVars, historyVars, IsWaiting
  <2>. QED  BY <2>1, <2>2 DEF Inv
<1>3. CASE Accept
  BY <1>0, <1>3, AcceptTypes, AcceptKeeps DEF Inv
<1>4. CASE AcceptNothing
  <2>1. Types'
    <3>1. /\ UNCHANGED <<clientVars, networkVars, tcpServerVars, m_client_buffers, historyVars>>
          /\ todo' = DOMAIN m_clients' /\ server_pc' = IF todo' = {} THEN "idle" ELSE "handling"
      BY <1>4 DEF AcceptNothing, HandleNext, tcpServerVars
    <3>2. ClientsOK' /\ NetworkOK'
      BY <1>0, <3>1 DEF clientVars, networkVars, historyVars, Types, ClientsOK, IsWaiting, NetworkOK
    <3>3. ServerOK' /\ HistoryOK' /\ Accepted'
      BY <1>0, <3>1, ZenonT(30) DEF networkVars, tcpServerVars, historyVars, Types, ServerOK, HistoryOK, Accepted, OneEach
    <3>. QED  BY <3>2, <3>3 DEF Types
  <2>2. Behaves'
    BY <1>4, NothingMoves DEF AcceptNothing, clientVars, networkVars, tcpServerVars, historyVars, IsWaiting
  <2>. QED  BY <2>1, <2>2 DEF Inv
<1>5. CASE HandleClient
  BY <1>0, <1>5, HandleTypes, HandleKeeps DEF Inv
<1>6. CASE Start \/ Stop
  <2>1. /\ StopServer /\ running' \in BOOLEAN /\ server_pc = "idle" /\ todo = {}
        /\ UNCHANGED <<clientVars, connections, m_next_client_id, m_client_buffers, server_pc, historyVars>>
    BY <1>0, <1>6 DEF Start, Stop, Types, ServerOK
  <2>2. Types'
    BY <1>0, <2>1, StopTypes
  <2>3. Behaves'
    BY <2>1, StopKeeps
  <2>. QED  BY <2>2, <2>3 DEF Inv
<1>7. ASSUME NEW c \in Clients, Client(c)
      PROVE  Inv'
  <2>1. Types'
    BY <1>0, <1>7, ClientTypes
  <2>2. CASE Reconnect(c)
    <3>1. \A d \in Clients : IsWaiting(d)' <=> IsWaiting(d)
      BY <1>0, <2>2 DEF Reconnect, IsWaiting, Types, ClientsOK
    <3>2. Behaves'
      BY <2>2, <3>1, NothingMoves DEF Reconnect, networkVars, tcpServerVars, httpServerVars, historyVars
    <3>. QED  BY <2>1, <3>2 DEF Inv
  <2>3. CASE SendFails(c)
    <3>1. \A d \in Clients : answer'[d] \in {answer[d], NoAnswer}
      BY <1>0, <2>3 DEF SendFails, Types, ClientsOK
    <3>2. Behaves'
      BY <2>3, <3>1, NothingMoves DEF SendFails, IsWaiting, networkVars, tcpServerVars, httpServerVars, historyVars
    <3>. QED  BY <2>1, <3>2 DEF Inv
  <2>. QED  BY <1>7, <2>1, <2>2, <2>3, ConnectKeeps, DisconnectKeeps, SendKeeps, ReceiveKeeps, TimeoutKeeps
            DEF Client, Inv
<1>8. ASSUME NEW to \in Sides, NEW n \in Connections, Deliver(to, n)
      PROVE  Inv'
  BY <1>0, <1>8, NetworkTypes, DeliverKeeps DEF Inv
<1>9. TickNotRunning => UNCHANGED vars
  BY DEF TickNotRunning
<1>. QED  BY <1>1, <1>2, <1>3, <1>4, <1>5, <1>6, <1>7, <1>8, <1>9 DEF Next, Serve

LEMMA InvAlways == Spec => []Inv
BY InvInit, InvStep, PTL DEF Spec

\* What the variables hold; a connection in the backlog has no id yet, and a
\* server that handles requests has clients left to handle.
THEOREM TypesHold == Spec => []TypeOK
<1>1. Inv => TypeOK
  <2>. SUFFICES ASSUME Inv PROVE TypeOK
    OBVIOUS
  <2>1. Types
    BY DEF Inv
  <2>2. sent \in [Clients -> 0..MaxRequests]
    BY <2>1, LenProperties, ConstantsAssumption DEF Types, ClientsOK, HistoryOK
  <2>3. \A side \in Sides, n \in Connections :
           (wire[side][n] # <<>> \/ arrived[side][n] # <<>>) => n <= connections
    BY <2>1 DEF Types, NetworkOK, Connections
  <2>4. \A i \in DOMAIN m_clients : i < m_next_client_id /\ m_clients[i] \notin Range(backlog)
    <3>1. DOMAIN backlog = 1..Len(backlog)
      BY <2>1, LenProperties DEF Types, NetworkOK
    <3>. QED  BY <2>1, <3>1 DEF Types, ServerOK, Accepted, Range
  <2>. QED  BY <2>1, <2>2, <2>3, <2>4 DEF Types, ClientsOK, NetworkOK, ServerOK, HistoryOK, TypeOK
<1>. QED  BY <1>1, InvAlways, PTL

\* Whatever the order of ticks, restarts, timeouts and repeated calls, the
\* handler of a route is called at most once for a request; without a timeout
\* it sees the whole body; and what is buffered for a client came from it.
THEOREM ServedOnce == Spec => []RequestsAreServedOnce
<1>1. Inv => BuffersAreOwn
  <2>. SUFFICES ASSUME Inv, NEW i \in DOMAIN m_client_buffers \cap DOMAIN m_clients,
                       NEW p \in Range(m_client_buffers[i])
                PROVE  requests[p.n].connection = m_clients[i]
    BY DEF BuffersAreOwn
  <2>1. PICK n \in Connections : n = m_clients[i]
    BY DEF Inv, Types, ServerOK
  <2>2. PICK x \in Seq(Pieces), y \in Seq(Pieces), z \in Seq(Pieces) :
           x = Held(n, m_clients, m_client_buffers) /\ y = arrived["server"][n] /\ z = wire["server"][n]
    BY UnderWay DEF Inv, Sides
  <2>3. x = m_client_buffers[i]
    BY <2>1, <2>2, HeldIs DEF Inv, Types, Accepted
  <2>4. Fresh(x \o (y \o z), n, requests, handled)
    BY <2>2 DEF Inv, Behaves, FreshInv, Up
  <2>5. PICK j \in 1..Len(x) : x[j] = p
    BY <2>3, LenProperties DEF Range
  <2>6. PICK u : u = x \o (y \o z)
    OBVIOUS
  <2>7. j \in 1..Len(u) /\ u[j] = p
    <3>1. y \o z \in Seq(Pieces) /\ Len(y \o z) \in Nat /\ Len(x) \in Nat
      BY ConcatProperties, LenProperties
    <3>. QED  BY <2>5, <2>6, <3>1, ConcatProperties
  <2>. QED  BY <2>1, <2>4, <2>6, <2>7 DEF Fresh
<1>2. Inv => RequestsAreServedOnce
  BY <1>1 DEF Inv, Behaves, RequestsAreServedOnce
<1>. QED  BY <1>2, InvAlways, PTL

\* As long as no call on a connection has timed out, the response a call
\* returns is the whole answer to its own request.
THEOREM AnswersMatch == Spec => []AnswerMatches
<1>1. Inv => AnswerMatches
  BY DEF Inv, Behaves
<1>. QED  BY <1>1, InvAlways, PTL
=============================================================================
