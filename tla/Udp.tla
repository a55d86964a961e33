--------------------------------- MODULE Udp --------------------------------
(***************************************************************************)
(* network::udp::socket (src/src/udp.cpp): the socket objects of a         *)
(* program, the descriptors they own, and a network that loses, repeats    *)
(* and reorders datagrams.                                                 *)
(*                                                                         *)
(* An address is a sequence of octets, and an endpoint an address with a   *)
(* port.  Objects are not moved: the default move leaves the descriptor    *)
(* with both of them.                                                      *)
(***************************************************************************)
EXTENDS Integers, Sequences, SequencesExt, FiniteSets

CONSTANTS Sockets,       \* the objects
          Here,          \* the address of the program's host
          LocalPorts,    \* the ports that are bound
          Ephemeral,     \* the port that the system gives a socket without one
          Peers,         \* the endpoints of others
          Payloads,      \* what is sent: sequences of bytes
          MaxDatagrams,  \* bound: datagrams that are sent
          MaxWaiting     \* bound: datagrams that wait at a descriptor

VARIABLES object,        \* m_socket, m_connected and m_local_port of each object
          kernel,        \* the open descriptors: what is bound, connected, queued
          sent,          \* every datagram that was sent, by the program or a peer
          received       \* what the last call returned

udpVars == <<object, kernel, sent, received>>

Closed == 0                   \* invalid_socket
AnyAddress == [i \in DOMAIN Here |-> 0]
NoEndpoint == [addr |-> AnyAddress, port |-> 0]
Remote == [addr : Seq(Nat), port : Nat \ {0}]

\* Port 0, for which the system chooses one, is not bound.
ASSUME UdpAssumption ==
    /\ MaxDatagrams \in Nat /\ MaxWaiting \in Nat
    /\ LocalPorts \subseteq Nat \ {0} /\ Ephemeral \in Nat \ {0} /\ Ephemeral \notin LocalPorts
    /\ Here \in Seq(Nat) /\ Here # AnyAddress
    /\ Peers \subseteq Remote /\ Payloads \subseteq Seq(Nat)

Nothing0 == [by |-> "", from |-> NoEndpoint, data |-> <<>>, whole |-> TRUE]

NewObject == [fd |-> Closed, connected |-> FALSE, port |-> 0]
NewDescriptor == [local |-> 0, peer |-> NoEndpoint, queue |-> <<>>]
LowestFree(k) == CHOOSE fd \in 1..(Cardinality(DOMAIN k) + 1) :
                    fd \notin DOMAIN k /\ \A g \in 1..(fd - 1) : g \in DOMAIN k
WithDescriptor(k, fd, d) == [g \in DOMAIN k \cup {fd} |-> IF g = fd THEN d ELSE k[g]]
CloseDescriptor(k, fd) == [g \in DOMAIN k \ {fd} |-> k[g]]

\* fill_sockaddr(): the octets get to the network in the order of this machine.
OnTheWire(addr) == Reverse(addr)

IsOpen(s) == object[s].fd # Closed

-----------------------------------------------------------------------------
UdpInit == /\ object = [s \in Sockets |-> NewObject]
           /\ kernel = [fd \in {} |-> NewDescriptor]
           /\ sent = {} /\ received = Nothing0

\* Mutant: what was open is not closed.
BindSocket_Leaks(s, addr, port) ==
    LET fd == LowestFree(kernel)
    IN /\ OnTheWire(addr) \in {Here, AnyAddress}
       /\ kernel' = WithDescriptor(kernel, fd, [NewDescriptor EXCEPT !.local = port])
       /\ object' = [object EXCEPT ![s] = [fd |-> fd, connected |-> FALSE, port |-> port]]
       /\ UNCHANGED <<sent, received>>
\* bind() closes what is open; the system may refuse the address or the port.
BindSocket(s, addr, port) ==
    LET closed == IF IsOpen(s) THEN CloseDescriptor(kernel, object[s].fd) ELSE kernel
        fd == LowestFree(closed)
    IN \/ /\ OnTheWire(addr) \in {Here, AnyAddress}
          /\ kernel' = WithDescriptor(closed, fd, [NewDescriptor EXCEPT !.local = port])
          /\ object' = [object EXCEPT ![s] = [fd |-> fd, connected |-> FALSE, port |-> port]]
          /\ UNCHANGED <<sent, received>>
       \/ /\ kernel' = closed
          /\ object' = [object EXCEPT ![s] = NewObject]
          /\ UNCHANGED <<sent, received>>

\* connect() opens a descriptor when there is none, and keeps it also when the
\* system refuses the rest.
ConnectSocket(s, peer) ==
    LET fd == IF IsOpen(s) THEN object[s].fd ELSE LowestFree(kernel)
        opened == IF IsOpen(s) THEN kernel ELSE WithDescriptor(kernel, fd, NewDescriptor)
        to == [peer EXCEPT !.addr = OnTheWire(@)]
        local == IF opened[fd].local = 0 THEN Ephemeral ELSE opened[fd].local
    IN \/ /\ kernel' = [opened EXCEPT ![fd].peer = to, ![fd].local = local]
          /\ object' = [object EXCEPT ![s].fd = fd, ![s].connected = TRUE]
          /\ UNCHANGED <<sent, received>>
       \/ /\ kernel' = opened
          /\ object' = [object EXCEPT ![s].fd = fd]
          /\ UNCHANGED <<sent, received>>

CloseSocket(s) ==
    /\ IsOpen(s)
    /\ kernel' = CloseDescriptor(kernel, object[s].fd)
    /\ object' = [object EXCEPT ![s] = NewObject]
    /\ UNCHANGED <<sent, received>>

\* What the system does with a datagram of a descriptor, which gets a port.
SendFrom(fd, to, data) ==
    LET local == IF kernel[fd].local = 0 THEN Ephemeral ELSE kernel[fd].local
    IN /\ Cardinality(sent) < MaxDatagrams
       /\ kernel' = [kernel EXCEPT ![fd].local = local]
       /\ sent' = sent \cup {[from |-> [addr |-> Here, port |-> local], to |-> to, data |-> data]}
       /\ UNCHANGED <<object, received>>

\* sendTo() to where the last datagram came from; nothing is sent of no bytes.
SendTo(s, data) ==
    /\ IsOpen(s) /\ data # <<>> /\ received.by = s
    /\ SendFrom(object[s].fd, [received.from EXCEPT !.addr = OnTheWire(@)], data)

\* send() and write(); the system refuses it without a peer.
Send(s, data) ==
    /\ IsOpen(s) /\ data # <<>> /\ kernel[object[s].fd].peer # NoEndpoint
    /\ SendFrom(object[s].fd, kernel[object[s].fd].peer, data)

Waiting(s) == IsOpen(s) /\ kernel[object[s].fd].queue # <<>>
Front0(s) == Head(kernel[object[s].fd].queue)
Taken0(s) == kernel' = [kernel EXCEPT ![object[s].fd].queue = Tail(@)]

\* receiveFrom(): without a timeout it waits for ever, with one it may come back
\* with nothing.
ReceiveFrom(s) ==
    /\ Waiting(s) /\ Taken0(s)
    /\ received' = [by |-> s, from |-> Front0(s).from, data |-> Front0(s).data, whole |-> TRUE]
    /\ UNCHANGED <<object, sent>>

\* read() of at most n bytes: what is left of the datagram is gone.  readAll()
\* reads as many as there can be.
ReadUpTo(s, n) ==
    /\ Waiting(s) /\ n > 0 /\ Taken0(s)
    /\ received' = [by |-> s, from |-> NoEndpoint,
                    data |-> SubSeq(Front0(s).data, 1, IF n < Len(Front0(s).data) THEN n ELSE Len(Front0(s).data)),
                    whole |-> n >= Len(Front0(s).data)]
    /\ UNCHANGED <<object, sent>>

\* The network: a datagram to a port of this host comes to a descriptor that is
\* bound to it and has no other peer, any number of times or never.
Deliver(datagram, fd) ==
    /\ datagram.to = [addr |-> Here, port |-> kernel[fd].local]
    /\ kernel[fd].peer \in {NoEndpoint, datagram.from}
    /\ Len(kernel[fd].queue) < MaxWaiting
    /\ kernel' = [kernel EXCEPT ![fd].queue = Append(@, datagram)]
    /\ UNCHANGED <<object, sent, received>>
PeerSends(peer, port, data) ==
    /\ Cardinality(sent) < MaxDatagrams
    /\ sent' = sent \cup {[from |-> peer, to |-> [addr |-> Here, port |-> port], data |-> data]}
    /\ UNCHANGED <<object, kernel, received>>

UdpNext ==
    \/ \E s \in Sockets :
        \/ \E port \in LocalPorts : BindSocket(s, AnyAddress, port) \/ BindSocket(s, Here, port)
        \/ \E peer \in Peers : ConnectSocket(s, peer)
        \/ CloseSocket(s) \/ ReceiveFrom(s)
        \/ \E data \in Payloads : SendTo(s, data) \/ Send(s, data)
        \/ \E n \in 1..2 : ReadUpTo(s, n)
    \/ \E datagram \in sent, fd \in DOMAIN kernel : Deliver(datagram, fd)
    \/ \E peer \in Peers, port \in LocalPorts, data \in Payloads : PeerSends(peer, port, data)

UdpSpec == UdpInit /\ [][UdpNext]_udpVars

-----------------------------------------------------------------------------
\* Whatever calls fail, every descriptor that is open belongs to one object, and
\* no object has one that is closed.
DescriptorsAreOwned ==
    /\ \A s, t \in Sockets : IsOpen(s) /\ object[s].fd = object[t].fd => s = t
    /\ DOMAIN kernel = {object[s].fd : s \in Sockets} \ {Closed}

\* A call returns one datagram that was sent to this port, with its sender, and
\* not parts of two: it is whole unless fewer bytes were asked for.
DatagramsStayWhole ==
    received' # received =>
     LET fd == object[received'.by].fd IN
     \E d \in sent :
         /\ d.to.port = kernel[fd].local
         /\ received'.from \in {NoEndpoint, d.from}
         /\ IF received'.whole THEN received'.data = d.data ELSE IsStrictPrefix(received'.data, d.data)

\* What the object says of its port is what the system knows, or nothing: a
\* datagram to localPort() finds the socket.
PortIsTrue ==
    \A s \in Sockets : object[s].port # 0 => IsOpen(s) /\ kernel[object[s].fd].local = object[s].port

\* An answer to a datagram goes to where it came from, if the address reads the
\* same from both ends.
AnswersGoBack ==
    \A s \in Sockets, d \in Payloads :
       SendTo(s, d) /\ received.from.addr = Reverse(received.from.addr) =>
           \E datagram \in sent' : datagram.to = received.from /\ datagram.data = d

\* Whatever call has failed before, the sockets know what they own; and over a
\* network that loses, repeats and reorders, a call returns one datagram and an
\* answer goes to its sender.
SocketsExchangeDatagrams ==
    [][DescriptorsAreOwned /\ PortIsTrue /\ DatagramsStayWhole /\ AnswersGoBack]_udpVars
=============================================================================
