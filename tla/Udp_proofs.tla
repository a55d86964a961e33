----------------------------- MODULE Udp_proofs -----------------------------
(***************************************************************************)
(* For any sockets, ports, peers and payloads: descriptors are owned, and  *)
(* what a call returns is one datagram.                                    *)
(***************************************************************************)
EXTENDS Udp, FiniteSetTheorems, SequenceTheorems, NaturalsInduction, WellFoundedInduction, TLAPS

Endpoints == Remote \cup {NoEndpoint}
Datagrams == [from : Remote, to : [addr : Seq(Nat), port : Nat], data : Seq(Nat)]
Descriptors == [local : Nat, peer : [addr : Seq(Nat), port : Nat], queue : Seq(Datagrams)]

ObjectsOK == object \in [Sockets -> [fd : Nat, connected : BOOLEAN, port : LocalPorts \cup {0}]]
KernelOK ==
    /\ IsFiniteSet(DOMAIN kernel) /\ DOMAIN kernel \subseteq Nat \ {0}
    /\ kernel \in [DOMAIN kernel -> Descriptors]
    /\ \A fd \in DOMAIN kernel : kernel[fd].peer \in Endpoints

\* No datagram goes to port 0 of this host, so none waits at a descriptor
\* without a port.
SentOK == /\ sent \subseteq Datagrams
          /\ \A d \in sent : d.to.addr = Here => d.to.port # 0
QueuesOK == \A fd \in DOMAIN kernel : \A i \in 1..Len(kernel[fd].queue) :
                /\ kernel[fd].queue[i] \in sent
                /\ kernel[fd].queue[i].to = [addr |-> Here, port |-> kernel[fd].local]
ReceivedOK == received.from \in Endpoints

UdpInv == /\ ObjectsOK /\ KernelOK /\ SentOK /\ QueuesOK /\ ReceivedOK
          /\ DescriptorsAreOwned /\ PortIsTrue

-----------------------------------------------------------------------------
(* Numbers of descriptors. *)

LEMMA Lowest ==
    ASSUME NEW D, IsFiniteSet(D)
    PROVE  \E fd \in 1..(Cardinality(D) + 1) : fd \notin D /\ \A g \in 1..(fd - 1) : g \in D
<1>. DEFINE n == Cardinality(D)
            Free == (1..(n + 1)) \ D
<1>1. n \in Nat
  BY FS_CardinalityType
<1>2. Free # {}
  <2> SUFFICES ASSUME 1..(n + 1) \subseteq D
               PROVE  FALSE
    OBVIOUS
  <2>1. Cardinality(1..(n + 1)) = n + 1
    BY <1>1, FS_Interval
  <2>2. Cardinality(1..(n + 1)) <= n
    BY FS_Subset
  <2>. QED  BY <1>1, <2>1, <2>2
<1>3. Free \subseteq Nat
  BY <1>1
<1>4. PICK fd \in Free : \A g \in Free : ~(<<g, fd>> \in OpToRel(<, Nat))
  BY <1>2, <1>3, NatLessThanWellFounded, WFMin
<1>5. \A g \in Free : ~(g < fd)
  BY <1>3, <1>4 DEF OpToRel
<1>6. ASSUME NEW g \in 1..(fd - 1)
      PROVE  g \in D
  BY <1>1, <1>5, <1>6
<1>. QED  BY <1>6

LEMMA LowestFreeIs ==
    ASSUME NEW k, IsFiniteSet(DOMAIN k)
    PROVE  LowestFree(k) \in Nat \ {0} /\ LowestFree(k) \notin DOMAIN k
<1>1. Cardinality(DOMAIN k) \in Nat
  BY FS_CardinalityType
<1>. QED  BY <1>1, Lowest DEF LowestFree

-----------------------------------------------------------------------------
(* Addresses. *)

LEMMA ReverseIs ==
    ASSUME NEW a \in Seq(Nat)
    PROVE  Reverse(a) \in Seq(Nat)
<1>1. Len(a) \in Nat /\ \A i \in 1..Len(a) : a[Len(a) - i + 1] \in Nat
  BY LenProperties
<1>2. Reverse(a) \in [1..Len(a) -> Nat]
  BY <1>1 DEF Reverse
<1>3. \A n \in Nat : \A f \in [1..n -> Nat] : f \in Seq(Nat)
  OBVIOUS
<1>. QED  BY <1>1, <1>2, <1>3

LEMMA AnyAddressIs ==
    /\ AnyAddress \in Seq(Nat) /\ Reverse(AnyAddress) = AnyAddress
    /\ NoEndpoint \in [addr : Seq(Nat), port : Nat]
    /\ NoEndpoint.port = 0 /\ NoEndpoint.addr = AnyAddress
    /\ Endpoints \subseteq [addr : Seq(Nat), port : Nat]
<1>1. Len(Here) \in Nat /\ AnyAddress \in [1..Len(Here) -> Nat]
  BY UdpAssumption, LenProperties DEF AnyAddress
<1>2. AnyAddress \in Seq(Nat) /\ Len(AnyAddress) = Len(Here)
  BY <1>1
<1>3. Reverse(AnyAddress) = AnyAddress
  BY <1>1, <1>2, UdpAssumption, LenProperties DEF Reverse, AnyAddress
<1>. QED  BY <1>2, <1>3 DEF NoEndpoint, Endpoints, Remote

LEMMA NewDescriptorIs ==
    /\ NewDescriptor \in Descriptors /\ NewDescriptor.peer \in Endpoints
    /\ NewDescriptor.local = 0 /\ NewDescriptor.queue = <<>>
    /\ \A p \in Nat : /\ [NewDescriptor EXCEPT !.local = p] \in Descriptors
                      /\ [NewDescriptor EXCEPT !.local = p].local = p
                      /\ [NewDescriptor EXCEPT !.local = p].peer = NoEndpoint
                      /\ [NewDescriptor EXCEPT !.local = p].queue = <<>>
<1>1. NewDescriptor = [local |-> 0, peer |-> NoEndpoint, queue |-> <<>>] /\ <<>> \in Seq(Datagrams)
  BY DEF NewDescriptor
<1>2. \A p \in Nat : [NewDescriptor EXCEPT !.local = p] = [local |-> p, peer |-> NoEndpoint, queue |-> <<>>]
  BY DEF NewDescriptor
<1>. QED  BY <1>1, <1>2, AnyAddressIs DEF Descriptors, Endpoints

-----------------------------------------------------------------------------
(* Objects and descriptors. *)

\* The descriptors of the other objects.
Rest(s) == {object[t].fd : t \in Sockets \ {s}} \ {Closed}

LEMMA OwnedAfter ==
    ASSUME DescriptorsAreOwned, NEW s \in Sockets,
           object' \in [Sockets -> [fd : Nat, connected : BOOLEAN, port : LocalPorts \cup {0}]],
           \A t \in Sockets \ {s} : object'[t] = object[t],
           object'[s].fd \notin Rest(s),
           DOMAIN kernel' = Rest(s) \cup ({object'[s].fd} \ {Closed})
    PROVE  DescriptorsAreOwned'
<1>1. ASSUME NEW t \in Sockets, NEW u \in Sockets, object'[t].fd # Closed, object'[t].fd = object'[u].fd
      PROVE  t = u
  BY <1>1 DEF DescriptorsAreOwned, IsOpen, Rest
<1>2. DOMAIN kernel' = {object'[t].fd : t \in Sockets} \ {Closed}
  BY DEF Rest
<1>. QED  BY <1>1, <1>2 DEF DescriptorsAreOwned, IsOpen

\* Of an object that is open; and the descriptors when it is closed.
LEMMA OwnDescriptor ==
    ASSUME UdpInv, NEW s \in Sockets
    PROVE  /\ object[s].fd \in Nat /\ object[s].fd \notin Rest(s)
           /\ IsOpen(s) => object[s].fd \in DOMAIN kernel /\ DOMAIN kernel \ {object[s].fd} = Rest(s)
           /\ DOMAIN kernel = Rest(s) \cup ({object[s].fd} \ {Closed})
  BY DEF UdpInv, ObjectsOK, DescriptorsAreOwned, IsOpen, Rest, Closed

\* Descriptors that are as before.
LEMMA SameDescriptors ==
    ASSUME UdpInv, NEW k, k = [fd \in DOMAIN k |-> k[fd]], DOMAIN k \subseteq DOMAIN kernel,
           \A fd \in DOMAIN k : k[fd] = kernel[fd]
    PROVE  /\ IsFiniteSet(DOMAIN k) /\ DOMAIN k \subseteq Nat \ {0}
           /\ k \in [DOMAIN k -> Descriptors]
           /\ \A fd \in DOMAIN k : k[fd].peer \in Endpoints
  BY FS_Subset DEF UdpInv, KernelOK

LEMMA ClosedIs ==
    ASSUME UdpInv, NEW s \in Sockets, NEW closed,
           closed = IF IsOpen(s) THEN CloseDescriptor(kernel, object[s].fd) ELSE kernel
    PROVE  /\ DOMAIN closed = Rest(s)
           /\ IsFiniteSet(DOMAIN closed) /\ DOMAIN closed \subseteq Nat \ {0}
           /\ closed \in [DOMAIN closed -> Descriptors]
           /\ \A fd \in DOMAIN closed : closed[fd] = kernel[fd] /\ closed[fd].peer \in Endpoints
<1>1. DOMAIN closed = Rest(s) /\ DOMAIN closed \subseteq DOMAIN kernel
  BY OwnDescriptor DEF CloseDescriptor, IsOpen
<1>2. closed = [fd \in DOMAIN closed |-> closed[fd]] /\ \A fd \in DOMAIN closed : closed[fd] = kernel[fd]
  BY DEF CloseDescriptor, UdpInv, KernelOK
<1>. QED  BY <1>1, <1>2, SameDescriptors

\* The ports of the others are as before.
LEMMA OthersPorts ==
    ASSUME UdpInv, NEW s \in Sockets, \A t \in Sockets \ {s} : object'[t] = object[t],
           \A fd \in Rest(s) : fd \in DOMAIN kernel' /\ kernel'[fd].local = kernel[fd].local
    PROVE  \A t \in Sockets \ {s} : object'[t].port # 0 =>
              object'[t].fd # Closed /\ kernel'[object'[t].fd].local = object'[t].port
  BY DEF UdpInv, PortIsTrue, Rest, IsOpen
-----------------------------------------------------------------------------
(* The calls. *)

LEMMA ClosingKeeps ==
    ASSUME UdpInv, NEW s \in Sockets,
           kernel' = IF IsOpen(s) THEN CloseDescriptor(kernel, object[s].fd) ELSE kernel,
           object' = [object EXCEPT ![s] = NewObject], UNCHANGED <<sent, received>>
    PROVE  UdpInv'
<1>. DEFINE closed == IF IsOpen(s) THEN CloseDescriptor(kernel, object[s].fd) ELSE kernel
<1>1. /\ DOMAIN closed = Rest(s)
      /\ IsFiniteSet(DOMAIN closed) /\ DOMAIN closed \subseteq Nat \ {0}
      /\ closed \in [DOMAIN closed -> Descriptors]
      /\ \A fd \in DOMAIN closed : closed[fd] = kernel[fd] /\ closed[fd].peer \in Endpoints
  BY ClosedIs
<1>2. Rest(s) \subseteq DOMAIN kernel
  BY OwnDescriptor
<1>3. kernel' = closed /\ object' = [object EXCEPT ![s] = NewObject] /\ sent' = sent /\ received' = received
  OBVIOUS
<1>. HIDE DEF closed
<1>4. /\ object' \in [Sockets -> [fd : Nat, connected : BOOLEAN, port : LocalPorts \cup {0}]]
      /\ object'[s].fd = Closed /\ object'[s].port = 0
      /\ \A t \in Sockets \ {s} : object'[t] = object[t]
  BY <1>3 DEF UdpInv, ObjectsOK, NewObject, Closed
<1>5. KernelOK'
  BY <1>1, <1>3 DEF KernelOK
<1>6. DescriptorsAreOwned'
  BY <1>1, <1>3, <1>4, OwnedAfter DEF UdpInv, Rest
<1>7. PortIsTrue'
  BY <1>1, <1>3, <1>4, OthersPorts DEF PortIsTrue, IsOpen
<1>8. QueuesOK'
  BY <1>1, <1>2, <1>3 DEF UdpInv, QueuesOK
<1>9. SentOK' /\ ReceivedOK'
  BY <1>3 DEF UdpInv, SentOK, ReceivedOK
<1>. QED  BY <1>4, <1>5, <1>6, <1>7, <1>8, <1>9 DEF UdpInv, ObjectsOK

LEMMA BindKeeps ==
    ASSUME UdpInv, NEW s \in Sockets, NEW addr, NEW port \in LocalPorts, BindSocket(s, addr, port)
    PROVE  UdpInv'
<1>. DEFINE closed == IF IsOpen(s) THEN CloseDescriptor(kernel, object[s].fd) ELSE kernel
            new == LowestFree(closed)
<1>1. /\ DOMAIN closed = Rest(s)
      /\ IsFiniteSet(DOMAIN closed) /\ DOMAIN closed \subseteq Nat \ {0}
      /\ closed \in [DOMAIN closed -> Descriptors]
      /\ \A fd \in DOMAIN closed : closed[fd] = kernel[fd] /\ closed[fd].peer \in Endpoints
  BY ClosedIs
<1>2. Rest(s) \subseteq DOMAIN kernel
  BY OwnDescriptor
<1>3. new \in Nat \ {0} /\ new \notin Rest(s)
  BY <1>1, LowestFreeIs
<1>4. SentOK' /\ ReceivedOK' /\ sent' = sent
  BY DEF BindSocket, UdpInv, SentOK, ReceivedOK
<1>5. CASE /\ kernel' = WithDescriptor(closed, new, [NewDescriptor EXCEPT !.local = port])
           /\ object' = [object EXCEPT ![s] = [fd |-> new, connected |-> FALSE, port |-> port]]
  <2>. DEFINE d == [NewDescriptor EXCEPT !.local = port]
  <2>1. d \in Descriptors /\ d.local = port /\ d.peer \in Endpoints /\ d.queue = <<>>
    BY NewDescriptorIs, UdpAssumption DEF Endpoints
  <2>. HIDE DEF d, new, closed
  <2>2. /\ DOMAIN kernel' = Rest(s) \cup {new} /\ kernel'[new] = d
        /\ \A fd \in Rest(s) : kernel'[fd] = kernel[fd]
        /\ kernel' \in [DOMAIN kernel' -> Descriptors]
    BY <1>1, <1>3, <1>5, <2>1 DEF WithDescriptor, d
  <2>3. KernelOK'
    BY <1>1, <1>3, <2>1, <2>2, FS_AddElement DEF KernelOK
  <2>4. /\ object' \in [Sockets -> [fd : Nat, connected : BOOLEAN, port : LocalPorts \cup {0}]]
        /\ object'[s].fd = new /\ object'[s].port = port
        /\ \A t \in Sockets \ {s} : object'[t] = object[t]
    BY <1>3, <1>5 DEF UdpInv, ObjectsOK
  <2>5. DescriptorsAreOwned'
    BY <1>3, <2>2, <2>4, OwnedAfter DEF UdpInv, Closed
  <2>6. PortIsTrue'
    BY <1>3, <2>1, <2>2, <2>4, OthersPorts DEF PortIsTrue, IsOpen, Closed
  <2>7. QueuesOK'
    <3>1. \A fd \in Rest(s) : \A i \in 1..Len(kernel'[fd].queue) :
             /\ kernel'[fd].queue[i] \in sent'
             /\ kernel'[fd].queue[i].to = [addr |-> Here, port |-> kernel'[fd].local]
      BY <1>2, <1>4, <2>2 DEF UdpInv, QueuesOK
    <3>. QED  BY <2>1, <2>2, <3>1 DEF QueuesOK
  <2>. QED  BY <1>4, <2>3, <2>4, <2>5, <2>6, <2>7 DEF UdpInv, ObjectsOK
<1>6. CASE kernel' = closed /\ object' = [object EXCEPT ![s] = NewObject]
  BY <1>4, <1>6, ClosingKeeps DEF BindSocket
<1>. QED  BY <1>5, <1>6 DEF BindSocket

LEMMA CloseKeeps ==
    ASSUME UdpInv, NEW s \in Sockets, CloseSocket(s)
    PROVE  UdpInv'
  BY ClosingKeeps DEF CloseSocket

\* The descriptor that connect() goes on with, and the descriptors then.
Goes(s) == IF IsOpen(s) THEN object[s].fd ELSE LowestFree(kernel)
Opened(s) == IF IsOpen(s) THEN kernel ELSE WithDescriptor(kernel, Goes(s), NewDescriptor)

LEMMA OpenedIs ==
    ASSUME UdpInv, NEW s \in Sockets
    PROVE  LET fd == Goes(s)  opened == Opened(s) IN
           /\ fd \in Nat \ {0} /\ fd \notin Rest(s)
           /\ DOMAIN opened = Rest(s) \cup {fd} /\ IsFiniteSet(DOMAIN opened) /\ DOMAIN opened \subseteq Nat \ {0}
           /\ opened \in [DOMAIN opened -> Descriptors]
           /\ \A g \in DOMAIN opened : opened[g].peer \in Endpoints
           /\ \A g \in Rest(s) : g \in DOMAIN kernel /\ opened[g] = kernel[g]
           /\ \A g \in DOMAIN opened : \A i \in 1..Len(opened[g].queue) :
                 /\ opened[g].queue[i] \in sent
                 /\ opened[g].queue[i].to = [addr |-> Here, port |-> opened[g].local]
           /\ object[s].port # 0 => opened[fd].local = object[s].port
<1>. DEFINE fd == Goes(s)  opened == Opened(s)
<1>1. CASE IsOpen(s)
  <2>1. fd = object[s].fd /\ opened = kernel
    BY <1>1 DEF Goes, Opened
  <2>2. fd \in DOMAIN kernel /\ fd \notin Rest(s) /\ DOMAIN kernel = Rest(s) \cup {fd}
    BY <1>1, <2>1, OwnDescriptor DEF IsOpen
  <2>. QED  BY <2>1, <2>2 DEF UdpInv, KernelOK, QueuesOK, PortIsTrue
<1>2. CASE ~IsOpen(s)
  <2>1. fd \in Nat \ {0} /\ fd \notin DOMAIN kernel /\ opened = WithDescriptor(kernel, fd, NewDescriptor)
    BY <1>2, LowestFreeIs DEF Goes, Opened, UdpInv, KernelOK
  <2>2. DOMAIN kernel = Rest(s)
    BY <1>2, OwnDescriptor DEF IsOpen
  <2>3. /\ DOMAIN opened = DOMAIN kernel \cup {fd} /\ opened[fd] = NewDescriptor
        /\ \A g \in DOMAIN kernel : opened[g] = kernel[g]
        /\ opened = [g \in DOMAIN opened |-> opened[g]]
    BY <2>1 DEF WithDescriptor
  <2>4. IsFiniteSet(DOMAIN opened)
    BY <2>3, FS_AddElement DEF UdpInv, KernelOK
  <2>5. opened \in [DOMAIN opened -> Descriptors] /\ \A g \in DOMAIN opened : opened[g].peer \in Endpoints
    BY <2>3, NewDescriptorIs DEF UdpInv, KernelOK
  <2>6. \A g \in DOMAIN opened : \A i \in 1..Len(opened[g].queue) :
           /\ opened[g].queue[i] \in sent
           /\ opened[g].queue[i].to = [addr |-> Here, port |-> opened[g].local]
    BY <2>3, NewDescriptorIs DEF UdpInv, QueuesOK
  <2>7. object[s].port = 0
    BY <1>2 DEF UdpInv, PortIsTrue
  <2>. QED  BY <2>1, <2>2, <2>3, <2>4, <2>5, <2>6, <2>7 DEF UdpInv, KernelOK
<1>. QED  BY <1>1, <1>2

LEMMA ConnectKeeps ==
    ASSUME UdpInv, NEW s \in Sockets, NEW peer \in Peers, ConnectSocket(s, peer)
    PROVE  UdpInv'
<1>. DEFINE fd == Goes(s)
            opened == Opened(s)
            to == [peer EXCEPT !.addr = OnTheWire(@)]
            local == IF opened[fd].local = 0 THEN Ephemeral ELSE opened[fd].local
<1>5. to \in Remote
  BY UdpAssumption, ReverseIs DEF Remote, OnTheWire
<1>4. /\ sent' = sent /\ received' = received
      /\ \/ /\ kernel' = [opened EXCEPT ![fd].peer = to, ![fd].local = local]
            /\ object' = [object EXCEPT ![s].fd = fd, ![s].connected = TRUE]
         \/ kernel' = opened /\ object' = [object EXCEPT ![s].fd = fd]
  BY DEF ConnectSocket, Goes, Opened
<1>. HIDE DEF to
<1>1. /\ fd \in Nat \ {0} /\ fd \notin Rest(s)
      /\ DOMAIN opened = Rest(s) \cup {fd} /\ IsFiniteSet(DOMAIN opened) /\ DOMAIN opened \subseteq Nat \ {0}
      /\ opened \in [DOMAIN opened -> Descriptors]
      /\ \A g \in DOMAIN opened : opened[g].peer \in Endpoints
      /\ \A g \in Rest(s) : g \in DOMAIN kernel /\ opened[g] = kernel[g]
  BY OpenedIs
<1>2. \A g \in DOMAIN opened : \A i \in 1..Len(opened[g].queue) :
         /\ opened[g].queue[i] \in sent
         /\ opened[g].queue[i].to = [addr |-> Here, port |-> opened[g].local]
  BY OpenedIs
<1>3. object[s].port # 0 => opened[fd].local = object[s].port
  BY OpenedIs
<1>. HIDE DEF fd, opened
<1>6. local \in Nat /\ (opened[fd].local # 0 => local = opened[fd].local)
  BY <1>1, UdpAssumption DEF Descriptors
<1>7. opened[fd].local = 0 => Len(opened[fd].queue) = 0
  <2> SUFFICES ASSUME opened[fd].local = 0, Len(opened[fd].queue) # 0
               PROVE  FALSE
    OBVIOUS
  <2>1. opened[fd].queue \in Seq(Datagrams)
    BY <1>1 DEF Descriptors
  <2>2. 1 \in 1..Len(opened[fd].queue)
    BY <2>1, LenProperties
  <2>3. opened[fd].queue[1] \in sent /\ opened[fd].queue[1].to = [addr |-> Here, port |-> 0]
    BY <1>1, <1>2, <2>2
  <2>. QED  BY <2>3 DEF UdpInv, SentOK
<1>. HIDE DEF local
<1>8. /\ object' \in [Sockets -> [fd : Nat, connected : BOOLEAN, port : LocalPorts \cup {0}]]
      /\ object'[s].fd = fd /\ object'[s].port = object[s].port
      /\ \A t \in Sockets \ {s} : object'[t] = object[t]
  BY <1>1, <1>4 DEF UdpInv, ObjectsOK
<1>9. /\ DOMAIN kernel' = DOMAIN opened
      /\ \A g \in Rest(s) : kernel'[g] = kernel[g]
      /\ kernel'[fd].queue = opened[fd].queue
      /\ kernel'[fd].local \in {opened[fd].local, local}
      /\ kernel'[fd].peer \in Endpoints
      /\ kernel' \in [DOMAIN kernel' -> Descriptors]
  <2>1. CASE kernel' = opened
    BY <1>1, <2>1
  <2>2. CASE kernel' = [opened EXCEPT ![fd].peer = to, ![fd].local = local]
    <3>1. opened[fd] \in Descriptors
      BY <1>1
    <3>2. /\ DOMAIN kernel' = DOMAIN opened /\ kernel' = [g \in DOMAIN opened |-> kernel'[g]]
          /\ kernel'[fd] = [local |-> local, peer |-> to, queue |-> opened[fd].queue]
          /\ \A g \in DOMAIN opened \ {fd} : kernel'[g] = opened[g]
      <4>1. fd \in DOMAIN opened
        BY <1>1
      <4>. DEFINE new == [opened EXCEPT ![fd].peer = to, ![fd].local = local]
      <4>2. /\ DOMAIN new = DOMAIN opened /\ new = [g \in DOMAIN opened |-> new[g]]
            /\ new[fd] = [local |-> local, peer |-> to, queue |-> opened[fd].queue]
            /\ \A g \in DOMAIN opened \ {fd} : new[g] = opened[g]
        BY <3>1, <4>1 DEF Descriptors
      <4>3. kernel' = new
        BY <2>2
      <4>. HIDE DEF new
      <4>. QED  BY <4>2, <4>3
    <3>3. [local |-> local, peer |-> to, queue |-> opened[fd].queue] \in Descriptors
      BY <1>5, <1>6, <3>1 DEF Descriptors, Remote
    <3>. QED  BY <1>1, <1>5, <3>2, <3>3 DEF Endpoints
  <2>. QED  BY <1>4, <2>1, <2>2
<1>10. KernelOK'
  BY <1>1, <1>9 DEF KernelOK
<1>11. DescriptorsAreOwned'
  BY <1>1, <1>8, <1>9, OwnedAfter DEF UdpInv, Closed
<1>12. PortIsTrue'
  BY <1>1, <1>3, <1>6, <1>8, <1>9, OthersPorts DEF PortIsTrue, IsOpen, Closed
<1>13. QueuesOK'
  <2>1. \A g \in Rest(s) : \A i \in 1..Len(kernel'[g].queue) :
           /\ kernel'[g].queue[i] \in sent'
           /\ kernel'[g].queue[i].to = [addr |-> Here, port |-> kernel'[g].local]
    BY <1>1, <1>2, <1>4, <1>9
  <2>2. \A i \in 1..Len(kernel'[fd].queue) :
           /\ kernel'[fd].queue[i] \in sent'
           /\ kernel'[fd].queue[i].to = [addr |-> Here, port |-> kernel'[fd].local]
    BY <1>1, <1>2, <1>4, <1>6, <1>7, <1>9
  <2>. QED  BY <1>1, <1>9, <2>1, <2>2 DEF QueuesOK
<1>14. SentOK' /\ ReceivedOK'
  BY <1>4 DEF UdpInv, SentOK, ReceivedOK
<1>. QED  BY <1>8, <1>10, <1>11, <1>12, <1>13, <1>14 DEF UdpInv, ObjectsOK

\* A call that gives no object another descriptor, and no descriptor another port.
LEMMA OwnersStay ==
    ASSUME UdpInv, object' = object, DOMAIN kernel' = DOMAIN kernel,
           \A fd \in DOMAIN kernel : kernel[fd].local # 0 => kernel'[fd].local = kernel[fd].local
    PROVE  ObjectsOK' /\ DescriptorsAreOwned' /\ PortIsTrue'
<1>1. ObjectsOK' /\ DescriptorsAreOwned'
  BY DEF UdpInv, ObjectsOK, DescriptorsAreOwned, IsOpen
<1>2. ASSUME NEW s \in Sockets, object'[s].port # 0
      PROVE  IsOpen(s)' /\ kernel'[object'[s].fd].local = object'[s].port
  <2>1. IsOpen(s) /\ kernel[object[s].fd].local = object[s].port /\ object[s].port # 0
    BY <1>2 DEF UdpInv, PortIsTrue
  <2>2. object[s].fd \in DOMAIN kernel
    BY <2>1, OwnDescriptor
  <2>. QED  BY <2>1, <2>2 DEF IsOpen
<1>. QED  BY <1>1, <1>2 DEF PortIsTrue

\* A descriptor without a port has no datagrams.
LEMMA NoPortNoDatagrams ==
    ASSUME UdpInv, NEW fd \in DOMAIN kernel, kernel[fd].local = 0
    PROVE  Len(kernel[fd].queue) = 0
<1> SUFFICES ASSUME Len(kernel[fd].queue) # 0
             PROVE  FALSE
  OBVIOUS
<1>1. kernel[fd].queue \in Seq(Datagrams)
  BY DEF UdpInv, KernelOK, Descriptors
<1>2. 1 \in 1..Len(kernel[fd].queue)
  BY <1>1, LenProperties
<1>3. kernel[fd].queue[1] \in sent /\ kernel[fd].queue[1].to = [addr |-> Here, port |-> 0]
  BY <1>2 DEF UdpInv, QueuesOK
<1>. QED  BY <1>3 DEF UdpInv, SentOK

LEMMA SendFromKeeps ==
    ASSUME UdpInv, NEW fd \in DOMAIN kernel, NEW to \in Remote \cup {NoEndpoint},
           NEW data \in Payloads, SendFrom(fd, to, data)
    PROVE  UdpInv'
<1>. DEFINE local == IF kernel[fd].local = 0 THEN Ephemeral ELSE kernel[fd].local
            datagram == [from |-> [addr |-> Here, port |-> local], to |-> to, data |-> data]
<1>1. /\ kernel' = [kernel EXCEPT ![fd].local = local] /\ sent' = sent \cup {datagram}
      /\ object' = object /\ received' = received
  BY DEF SendFrom
<1>2. kernel[fd] \in Descriptors /\ kernel \in [DOMAIN kernel -> Descriptors]
  BY DEF UdpInv, KernelOK
<1>3. local \in Nat \ {0} /\ (kernel[fd].local # 0 => local = kernel[fd].local)
  BY <1>2, UdpAssumption DEF Descriptors
<1>4. /\ DOMAIN kernel' = DOMAIN kernel /\ kernel' \in [DOMAIN kernel -> Descriptors]
      /\ kernel'[fd].local = local /\ kernel'[fd].peer = kernel[fd].peer
      /\ kernel'[fd].queue = kernel[fd].queue
      /\ \A g \in DOMAIN kernel \ {fd} : kernel'[g] = kernel[g]
  BY <1>1, <1>2, <1>3 DEF Descriptors
<1>5. datagram \in Datagrams /\ (to.addr = Here => to.port # 0)
  BY <1>3, AnyAddressIs, UdpAssumption DEF Datagrams, Remote
<1>6. SentOK'
  BY <1>1, <1>5 DEF UdpInv, SentOK
<1>. HIDE DEF local, datagram
<1>7. KernelOK'
  BY <1>4 DEF UdpInv, KernelOK
<1>8. QueuesOK'
  BY <1>1, <1>3, <1>4, NoPortNoDatagrams DEF UdpInv, QueuesOK
<1>9. ObjectsOK' /\ DescriptorsAreOwned' /\ PortIsTrue'
  BY <1>1, <1>3, <1>4, OwnersStay
<1>. QED  BY <1>1, <1>6, <1>7, <1>8, <1>9 DEF UdpInv, ReceivedOK

LEMMA SendToKeeps ==
    ASSUME UdpInv, NEW s \in Sockets, NEW data \in Payloads, SendTo(s, data)
    PROVE  UdpInv'
<1>. DEFINE to == [received.from EXCEPT !.addr = OnTheWire(@)]
<1>1. object[s].fd \in DOMAIN kernel
  BY OwnDescriptor DEF SendTo
<1>2. received.from \in Endpoints /\ SendFrom(object[s].fd, to, data)
  BY DEF SendTo, UdpInv, ReceivedOK
<1>3. to \in Endpoints
  BY <1>2, ReverseIs, AnyAddressIs DEF Endpoints, Remote, NoEndpoint, OnTheWire
<1>. HIDE DEF to
<1>. QED  BY <1>1, <1>2, <1>3, SendFromKeeps DEF Endpoints

LEMMA SendKeeps ==
    ASSUME UdpInv, NEW s \in Sockets, NEW data \in Payloads, Send(s, data)
    PROVE  UdpInv'
<1>1. object[s].fd \in DOMAIN kernel
  BY OwnDescriptor DEF Send
<1>2. kernel[object[s].fd].peer \in Endpoints
  BY <1>1 DEF UdpInv, KernelOK
<1>. QED  BY <1>1, <1>2, SendFromKeeps DEF Send, Endpoints

\* What is first in a queue, and what is left.
LEMMA FirstIs ==
    ASSUME UdpInv, NEW s \in Sockets, Waiting(s)
    PROVE  /\ object[s].fd \in DOMAIN kernel
           /\ kernel[object[s].fd].queue \in Seq(Datagrams) /\ kernel[object[s].fd].queue # <<>>
           /\ Front0(s) \in sent /\ Front0(s) \in Datagrams
           /\ Front0(s).to = [addr |-> Here, port |-> kernel[object[s].fd].local]
           /\ Front0(s).to.port = kernel[object[s].fd].local
           /\ Front0(s).from \in Remote /\ Front0(s).data \in Seq(Nat)
<1>. DEFINE fd == object[s].fd
<1>1. fd \in DOMAIN kernel /\ kernel[fd].queue # <<>>
  BY OwnDescriptor DEF Waiting
<1>2. kernel[fd].queue \in Seq(Datagrams)
  BY <1>1 DEF UdpInv, KernelOK, Descriptors
<1>3. 1 \in 1..Len(kernel[fd].queue) /\ Front0(s) = kernel[fd].queue[1]
  BY <1>1, <1>2, EmptySeq, LenProperties, HeadTailProperties DEF Front0
<1>4. Front0(s) \in sent /\ Front0(s).to = [addr |-> Here, port |-> kernel[fd].local]
  BY <1>1, <1>3 DEF UdpInv, QueuesOK
<1>5. Front0(s) \in Datagrams
  BY <1>4 DEF UdpInv, SentOK
<1>6. Front0(s).from \in Remote /\ Front0(s).data \in Seq(Nat)
  BY <1>5 DEF Datagrams
<1>7. Front0(s).to.port = kernel[fd].local
  BY <1>4
<1>. QED  BY <1>1, <1>2, <1>4, <1>5, <1>6, <1>7

LEMMA TakenKeeps ==
    ASSUME UdpInv, NEW s \in Sockets, Waiting(s), Taken0(s), object' = object, sent' = sent,
           received'.from \in Endpoints
    PROVE  UdpInv'
<1>. DEFINE fd == object[s].fd
            q == kernel[fd].queue
<1>1. fd \in DOMAIN kernel /\ q \in Seq(Datagrams) /\ q # <<>>
  BY FirstIs
<1>2. kernel[fd] \in Descriptors /\ kernel \in [DOMAIN kernel -> Descriptors]
  BY <1>1 DEF UdpInv, KernelOK
<1>3. /\ Tail(q) \in Seq(Datagrams) /\ Len(Tail(q)) = Len(q) - 1 /\ Len(q) \in Nat
      /\ \A i \in 1..Len(Tail(q)) : Tail(q)[i] = q[i + 1]
  BY <1>1, HeadTailProperties, LenProperties
<1>4. kernel' = [kernel EXCEPT ![fd].queue = Tail(q)]
  BY <1>1, <1>2 DEF Taken0, Descriptors
<1>5. /\ DOMAIN kernel' = DOMAIN kernel /\ kernel' \in [DOMAIN kernel -> Descriptors]
      /\ kernel'[fd].local = kernel[fd].local /\ kernel'[fd].peer = kernel[fd].peer
      /\ kernel'[fd].queue = Tail(q)
      /\ \A g \in DOMAIN kernel \ {fd} : kernel'[g] = kernel[g]
  BY <1>1, <1>2, <1>3, <1>4 DEF Descriptors
<1>6. KernelOK'
  BY <1>5 DEF UdpInv, KernelOK
<1>7. QueuesOK'
  <2>1. \A i \in 1..Len(Tail(q)) : i + 1 \in 1..Len(q)
    BY <1>3
  <2>2. \A i \in 1..Len(kernel'[fd].queue) :
           /\ kernel'[fd].queue[i] \in sent
           /\ kernel'[fd].queue[i].to = [addr |-> Here, port |-> kernel'[fd].local]
    BY <1>1, <1>3, <1>5, <2>1 DEF UdpInv, QueuesOK
  <2>3. \A g \in DOMAIN kernel \ {fd} : \A i \in 1..Len(kernel'[g].queue) :
           /\ kernel'[g].queue[i] \in sent
           /\ kernel'[g].queue[i].to = [addr |-> Here, port |-> kernel'[g].local]
    BY <1>5 DEF UdpInv, QueuesOK
  <2>. QED  BY <1>5, <2>2, <2>3 DEF QueuesOK
<1>8. ObjectsOK' /\ DescriptorsAreOwned' /\ PortIsTrue'
  BY <1>5, OwnersStay
<1>. QED  BY <1>6, <1>7, <1>8 DEF UdpInv, SentOK, ReceivedOK

LEMMA ReceiveKeeps ==
    ASSUME UdpInv, NEW s \in Sockets, ReceiveFrom(s)
    PROVE  UdpInv' /\ DatagramsStayWhole
<1>1. Waiting(s) /\ Taken0(s) /\ object' = object /\ sent' = sent
  BY DEF ReceiveFrom
<1>2. /\ received'.by = s /\ received'.from = Front0(s).from
      /\ received'.data = Front0(s).data /\ received'.whole = TRUE
  BY DEF ReceiveFrom
<1>3. received'.from \in Endpoints
  BY <1>1, <1>2, FirstIs DEF Endpoints
<1>4. UdpInv'
  BY <1>1, <1>3, TakenKeeps
<1>5. /\ Front0(s) \in sent /\ Front0(s).to.port = kernel[object[s].fd].local
      /\ received'.whole = TRUE /\ received'.data = Front0(s).data /\ received'.from = Front0(s).from
  BY <1>1, <1>2, FirstIs
<1>. QED  BY <1>2, <1>4, <1>5 DEF DatagramsStayWhole

LEMMA ReadKeeps ==
    ASSUME UdpInv, NEW s \in Sockets, NEW n \in Nat, ReadUpTo(s, n)
    PROVE  UdpInv' /\ DatagramsStayWhole
<1>. DEFINE d == Front0(s).data
            m == IF n < Len(d) THEN n ELSE Len(d)
<1>1. Waiting(s) /\ Taken0(s) /\ object' = object /\ sent' = sent /\ n > 0
  BY DEF ReadUpTo
<1>2. /\ received'.by = s /\ received'.from = NoEndpoint
      /\ received'.data = SubSeq(d, 1, m) /\ (received'.whole <=> n >= Len(d))
  BY DEF ReadUpTo
<1>3. UdpInv'
  BY <1>1, <1>2, TakenKeeps DEF Endpoints
<1>4. Front0(s) \in sent /\ Front0(s).to.port = kernel[object[s].fd].local /\ d \in Seq(Nat)
  BY <1>1, FirstIs
<1>5. IF received'.whole THEN received'.data = d ELSE IsStrictPrefix(received'.data, d)
  <2>. HIDE DEF d
  <2>1. Len(d) \in Nat
    BY <1>4, LenProperties
  <2>2. CASE n >= Len(d)
    <3>1. m = Len(d)
      BY <2>1, <2>2
    <3>2. SubSeq(d, 1, Len(d)) = d
      BY <1>4, <2>1
    <3>. QED  BY <1>2, <2>2, <3>1, <3>2
  <2>3. CASE n < Len(d)
    <3>1. m = n /\ ~(n >= Len(d))
      BY <2>1, <2>3
    <3>2. Len(SubSeq(d, 1, n)) = n /\ \A i \in 1..n : SubSeq(d, 1, n)[i] = d[i]
      BY <1>4, <2>1, <2>3, SubSeqProperties
    <3>3. SubSeq(SubSeq(d, 1, n), 1, n) = SubSeq(d, 1, n)
      BY <1>4, <2>1, <2>3, <3>2, SubSeqProperties
    <3>4. IsStrictPrefix(SubSeq(d, 1, n), d)
      BY <2>1, <2>3, <3>2, <3>3 DEF IsStrictPrefix, IsPrefix
    <3>. QED  BY <1>2, <3>1, <3>4
  <2>. QED  BY <2>1, <2>2, <2>3
<1>. QED  BY <1>2, <1>3, <1>4, <1>5 DEF DatagramsStayWhole

LEMMA DeliverKeeps ==
    ASSUME UdpInv, NEW datagram \in sent, NEW fd \in DOMAIN kernel, Deliver(datagram, fd)
    PROVE  UdpInv'
<1>. DEFINE q == kernel[fd].queue
            all == Append(q, datagram)
<1>1. /\ kernel[fd] \in Descriptors /\ kernel \in [DOMAIN kernel -> Descriptors]
      /\ q \in Seq(Datagrams) /\ datagram \in Datagrams
  BY DEF UdpInv, KernelOK, SentOK, Descriptors
<1>2. /\ all \in Seq(Datagrams) /\ Len(all) = Len(q) + 1 /\ Len(q) \in Nat
      /\ \A i \in 1..Len(q) : all[i] = q[i]
      /\ all[Len(q) + 1] = datagram
  BY <1>1, AppendProperties, LenProperties
<1>3. /\ datagram.to = [addr |-> Here, port |-> kernel[fd].local]
      /\ object' = object /\ sent' = sent /\ received' = received
  BY DEF Deliver
<1>4. kernel' = [kernel EXCEPT ![fd].queue = all]
  BY <1>1 DEF Deliver, Descriptors
<1>5. /\ DOMAIN kernel' = DOMAIN kernel /\ kernel' \in [DOMAIN kernel -> Descriptors]
      /\ kernel'[fd].local = kernel[fd].local /\ kernel'[fd].peer = kernel[fd].peer
      /\ kernel'[fd].queue = all
      /\ \A g \in DOMAIN kernel \ {fd} : kernel'[g] = kernel[g]
  BY <1>1, <1>2, <1>4 DEF Descriptors
<1>6. KernelOK'
  BY <1>5 DEF UdpInv, KernelOK
<1>7. QueuesOK'
  <2>1. \A i \in 1..Len(all) : i \in 1..Len(q) \/ i = Len(q) + 1
    BY <1>2
  <2>2. \A i \in 1..Len(kernel'[fd].queue) :
           /\ kernel'[fd].queue[i] \in sent
           /\ kernel'[fd].queue[i].to = [addr |-> Here, port |-> kernel'[fd].local]
    BY <1>2, <1>3, <1>5, <2>1 DEF UdpInv, QueuesOK
  <2>3. \A g \in DOMAIN kernel \ {fd} : \A i \in 1..Len(kernel'[g].queue) :
           /\ kernel'[g].queue[i] \in sent
           /\ kernel'[g].queue[i].to = [addr |-> Here, port |-> kernel'[g].local]
    BY <1>5 DEF UdpInv, QueuesOK
  <2>. QED  BY <1>3, <1>5, <2>2, <2>3 DEF QueuesOK
<1>8. ObjectsOK' /\ DescriptorsAreOwned' /\ PortIsTrue'
  BY <1>3, <1>5, OwnersStay
<1>. QED  BY <1>3, <1>6, <1>7, <1>8 DEF UdpInv, SentOK, ReceivedOK

LEMMA PeerSendsKeeps ==
    ASSUME UdpInv, NEW peer \in Peers, NEW port \in LocalPorts, NEW data \in Payloads,
           PeerSends(peer, port, data)
    PROVE  UdpInv'
<1>. DEFINE datagram == [from |-> peer, to |-> [addr |-> Here, port |-> port], data |-> data]
<1>1. sent' = sent \cup {datagram} /\ object' = object /\ kernel' = kernel /\ received' = received
  BY DEF PeerSends
<1>2. datagram \in Datagrams /\ datagram.to.port # 0
  BY UdpAssumption DEF Datagrams
<1>3. SentOK'
  BY <1>1, <1>2 DEF UdpInv, SentOK
<1>4. KernelOK' /\ QueuesOK' /\ ReceivedOK'
  BY <1>1 DEF UdpInv, KernelOK, QueuesOK, ReceivedOK
<1>5. ObjectsOK' /\ DescriptorsAreOwned' /\ PortIsTrue'
  BY <1>1, OwnersStay
<1>. QED  BY <1>3, <1>4, <1>5 DEF UdpInv

-----------------------------------------------------------------------------
(* Every state and every step. *)

LEMMA InvAtFirst == UdpInit => UdpInv
<1> SUFFICES ASSUME UdpInit
             PROVE  UdpInv
  OBVIOUS
<1>1. \A s \in Sockets : object[s].fd = Closed /\ object[s].port = 0 /\ object[s].connected = FALSE
  BY DEF UdpInit, NewObject
<1>2. ObjectsOK
  BY <1>1 DEF UdpInit, ObjectsOK, NewObject, Closed
<1>3. DOMAIN kernel = {} /\ kernel = [fd \in DOMAIN kernel |-> kernel[fd]]
  BY DEF UdpInit
<1>4. KernelOK /\ QueuesOK
  BY <1>3, FS_EmptySet DEF KernelOK, QueuesOK
<1>5. SentOK /\ ReceivedOK
  BY DEF UdpInit, SentOK, ReceivedOK, Nothing0, Endpoints
<1>6. DescriptorsAreOwned /\ PortIsTrue
  BY <1>1, <1>3 DEF DescriptorsAreOwned, PortIsTrue, IsOpen
<1>. QED  BY <1>2, <1>4, <1>5, <1>6 DEF UdpInv

\* Only the calls that read return something.
LEMMA StepKeeps ==
    ASSUME UdpInv, [UdpNext]_udpVars
    PROVE  UdpInv' /\ DatagramsStayWhole
<1>1. CASE UNCHANGED udpVars
  <2>1. ObjectsOK' /\ KernelOK' /\ SentOK' /\ QueuesOK' /\ ReceivedOK'
    BY <1>1 DEF UdpInv, ObjectsOK, KernelOK, SentOK, QueuesOK, ReceivedOK, udpVars
  <2>2. DescriptorsAreOwned' /\ PortIsTrue' /\ DatagramsStayWhole
    BY <1>1 DEF UdpInv, DescriptorsAreOwned, PortIsTrue, IsOpen, DatagramsStayWhole, udpVars
  <2>. QED  BY <2>1, <2>2 DEF UdpInv
<1>2. ASSUME NEW s \in Sockets, NEW port \in LocalPorts, NEW addr \in {AnyAddress, Here},
             BindSocket(s, addr, port)
      PROVE  UdpInv' /\ DatagramsStayWhole
  BY <1>2, BindKeeps DEF BindSocket, DatagramsStayWhole
<1>3. ASSUME NEW s \in Sockets, NEW peer \in Peers, ConnectSocket(s, peer)
      PROVE  UdpInv' /\ DatagramsStayWhole
  BY <1>3, ConnectKeeps DEF ConnectSocket, DatagramsStayWhole
<1>4. ASSUME NEW s \in Sockets, CloseSocket(s)
      PROVE  UdpInv' /\ DatagramsStayWhole
  BY <1>4, CloseKeeps DEF CloseSocket, DatagramsStayWhole
<1>5. ASSUME NEW s \in Sockets, ReceiveFrom(s)
      PROVE  UdpInv' /\ DatagramsStayWhole
  BY <1>5, ReceiveKeeps
<1>6. ASSUME NEW s \in Sockets, NEW data \in Payloads, SendTo(s, data)
      PROVE  UdpInv' /\ DatagramsStayWhole
  BY <1>6, SendToKeeps DEF SendTo, SendFrom, DatagramsStayWhole
<1>7. ASSUME NEW s \in Sockets, NEW data \in Payloads, Send(s, data)
      PROVE  UdpInv' /\ DatagramsStayWhole
  BY <1>7, SendKeeps DEF Send, SendFrom, DatagramsStayWhole
<1>8. ASSUME NEW s \in Sockets, NEW n \in 1..2, ReadUpTo(s, n)
      PROVE  UdpInv' /\ DatagramsStayWhole
  BY <1>8, ReadKeeps
<1>9. ASSUME NEW datagram \in sent, NEW fd \in DOMAIN kernel, Deliver(datagram, fd)
      PROVE  UdpInv' /\ DatagramsStayWhole
  BY <1>9, DeliverKeeps DEF Deliver, DatagramsStayWhole
<1>10. ASSUME NEW peer \in Peers, NEW port \in LocalPorts, NEW data \in Payloads,
              PeerSends(peer, port, data)
       PROVE  UdpInv' /\ DatagramsStayWhole
  BY <1>10, PeerSendsKeeps DEF PeerSends, DatagramsStayWhole
<1>. QED  BY <1>1, <1>2, <1>3, <1>4, <1>5, <1>6, <1>7, <1>8, <1>9, <1>10 DEF UdpNext

LEMMA SendFromSends ==
    ASSUME NEW fd, NEW to, NEW data, SendFrom(fd, to, data)
    PROVE  \E datagram \in sent' : datagram.to = to /\ datagram.data = data
<1>. DEFINE local == IF kernel[fd].local = 0 THEN Ephemeral ELSE kernel[fd].local
            datagram == [from |-> [addr |-> Here, port |-> local], to |-> to, data |-> data]
<1>1. sent' = sent \cup {datagram}
  BY DEF SendFrom
<1>2. datagram.to = to /\ datagram.data = data
  OBVIOUS
<1>. QED  BY <1>1, <1>2

\* To turn an address that reads the same from both ends changes nothing.
LEMMA AnswersToTheSender ==
    ASSUME UdpInv
    PROVE  AnswersGoBack
<1> SUFFICES ASSUME NEW s \in Sockets, NEW d \in Payloads, SendTo(s, d),
                    received.from.addr = Reverse(received.from.addr)
             PROVE  \E datagram \in sent' : datagram.to = received.from /\ datagram.data = d
  BY DEF AnswersGoBack
<1>. DEFINE to == [received.from EXCEPT !.addr = OnTheWire(@)]
<1>1. SendFrom(object[s].fd, to, d)
  BY DEF SendTo
<1>2. received.from \in [addr : Seq(Nat), port : Nat]
  BY AnyAddressIs DEF UdpInv, ReceivedOK
<1>3. to = received.from
  BY <1>2 DEF OnTheWire
<1>4. \E datagram \in sent' : datagram.to = to /\ datagram.data = d
  <2>. HIDE DEF to
  <2>. QED  BY <1>1, SendFromSends
<1>. QED  BY <1>3, <1>4

\* UdpInv is what every state has; it is inductive.
LEMMA UdpInvAlways == UdpSpec => []UdpInv
<1>1. UdpInit => UdpInv
  BY InvAtFirst
<1>2. UdpInv /\ [UdpNext]_udpVars => UdpInv'
  BY StepKeeps
<1>. QED  BY <1>1, <1>2, PTL DEF UdpSpec

\* However many sockets, ports, peers, payloads and datagrams there are, and
\* whatever calls fail (bind() and connect() of udp.cpp): each descriptor has
\* one owner, localPort() is true, what a call returns is one datagram that was
\* sent to its port, and an answer goes back to where the datagram came from.
THEOREM DatagramsAreExchanged == UdpSpec => SocketsExchangeDatagrams
<1>. DEFINE Step == DescriptorsAreOwned /\ PortIsTrue /\ DatagramsStayWhole /\ AnswersGoBack
<1>1. UdpInv /\ [UdpNext]_udpVars => [Step]_udpVars
  BY StepKeeps, AnswersToTheSender DEF UdpInv
<1>2. UdpSpec => [][Step]_udpVars
  BY <1>1, UdpInvAlways, PTL DEF UdpSpec
<1>. QED  BY <1>2 DEF SocketsExchangeDatagrams
=============================================================================
