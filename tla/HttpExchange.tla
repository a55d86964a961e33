---------------------------- MODULE HttpExchange ----------------------------
(***************************************************************************)
(* network::http::client over network::tcp::client talking to              *)
(* network::http::server over network::tcp::server (src/src/httpclient.cpp,*)
(* tcpclient.cpp, httpserver.cpp, tcpserver.cpp).                          *)
(*                                                                         *)
(* The server is one thread that calls tick() in a loop and may call       *)
(* stop() and start() in between.  Every client is a thread of its own.    *)
(* A connection keeps what is sent in order and delivers it piece by       *)
(* piece, so that a reader finds any prefix of a message.                  *)
(***************************************************************************)
EXTENDS HttpMessages, FiniteSets

CONSTANTS Clients,             \* http::client objects
          Kinds,               \* the requests they make: [len, result, reply]
          NonBlockingAccept,   \* OS_WINDOWS: FIONBIO is set on the socket
          MaxConnections,      \* bound: connections that are made
          MaxRequests,         \* bound: requests that are sent
          MaxStarts            \* bound: calls of start()

ASSUME ConstantsAssumption ==
    /\ Kinds \subseteq [len : {0, 1}, reply : {0, 1}, result : Results]
    /\ NonBlockingAccept \in BOOLEAN
    /\ MaxConnections \in Nat /\ MaxRequests \in Nat /\ MaxStarts \in Nat

VARIABLES
    \* clients
    pc,             \* client -> idle, headers, body: receive_response(); hung
    m_socket,       \* client -> its connection, 0 is invalid_socket
    sent,           \* client -> the number of its last request
    received,       \* client -> what receive_response() has buffered
    answer,         \* history: client -> the buffer its last call returned
    \* the network
    connections,    \* number of connections made
    closed,         \* connections that a side has closed
    wire,           \* side -> connection -> pieces on their way to that side
    arrived,        \* side -> connection -> pieces that wait to be read there
    backlog,        \* connections that wait for accept()
    \* the server
    running,        \* m_running, and m_listen_socket is valid
    starts,         \* calls of start()
    m_clients,      \* client_id -> connection
    m_next_client_id,
    m_client_buffers,
    todo,           \* the ids tick() has still to handle
    server_pc,      \* idle, accepting, handling
    \* history
    requests,       \* number -> its kind and its connection
    timed_out,      \* connections on which receive_response() timed out
    handled         \* what the server took for requests, in order

clientVars == <<pc, m_socket, sent, received, answer>>
networkVars == <<connections, closed, wire, arrived, backlog>>
tcpServerVars == <<running, starts, m_clients, m_next_client_id>>
httpServerVars == <<m_client_buffers, todo, server_pc>>
historyVars == <<requests, timed_out, handled>>
vars == <<clientVars, networkVars, tcpServerVars, httpServerVars, historyVars>>

Connections == 1..MaxConnections
Sides == {"client", "server"}

NoAnswer == <<>>

Init ==
    /\ pc = [c \in Clients |-> "idle"]
    /\ m_socket = [c \in Clients |-> 0]
    /\ sent = [c \in Clients |-> 0]
    /\ received = [c \in Clients |-> <<>>]
    /\ answer = [c \in Clients |-> NoAnswer]
    /\ connections = 0
    /\ closed = {}
    /\ wire = [e \in Sides |-> [n \in Connections |-> <<>>]]
    /\ arrived = wire
    /\ backlog = <<>>
    /\ running = FALSE
    /\ starts = 0
    /\ m_clients = <<>>
    /\ m_next_client_id = 1
    /\ m_client_buffers = <<>>
    /\ todo = {}
    /\ server_pc = "idle"
    /\ requests = <<>>
    /\ timed_out = {}
    /\ handled = <<>>

TypeOK ==
    /\ pc \in [Clients -> {"idle", "headers", "body", "hung"}]
    /\ m_socket \in [Clients -> Connections \cup {0}]
    /\ sent \in [Clients -> 0..MaxRequests]
    /\ connections \in 0..MaxConnections
    /\ closed \subseteq Connections /\ timed_out \subseteq Connections
    /\ \A side \in Sides, n \in Connections :
          (wire[side][n] # <<>> \/ arrived[side][n] # <<>>) => n <= connections
    /\ running \in BOOLEAN
    /\ \A i \in DOMAIN m_clients : i < m_next_client_id /\ m_clients[i] \notin Range(backlog)
    /\ todo \subseteq DOMAIN m_clients
    /\ server_pc \in {"idle", "accepting", "handling"}
    /\ server_pc = "handling" <=> todo # {}

-----------------------------------------------------------------------------
(* The network. *)

\* n's other side will find `pieces` in order, unless it is closed.
Transmit(to, n, pieces) ==
    wire' = IF n \in closed THEN wire ELSE [wire EXCEPT ![to][n] = @ \o pieces]

Deliver(to, n) ==
    /\ wire[to][n] # <<>>
    /\ arrived' = [arrived EXCEPT ![to][n] = Append(@, Head(wire[to][n]))]
    /\ wire' = [wire EXCEPT ![to][n] = Tail(@)]
    /\ UNCHANGED <<clientVars, connections, closed, backlog, tcpServerVars,
                   httpServerVars, historyVars>>

\* close() by `side`: what was on its way to it is lost.
CloseSockets(side, ns) ==
    /\ closed' = closed \cup ns
    /\ wire' = [wire EXCEPT ![side] = [n \in Connections |-> IF n \in ns THEN <<>> ELSE @[n]]]
    /\ arrived' = [arrived EXCEPT ![side] =
                      [n \in Connections |-> IF n \in ns THEN <<>> ELSE @[n]]]

-----------------------------------------------------------------------------
(* Clients. *)

\* tcp::client::connect() without a connection; it returns false when nothing
\* listens, which changes nothing.
Connect(c) ==
    /\ pc[c] = "idle" /\ m_socket[c] = 0 /\ running
    /\ connections < MaxConnections
    /\ connections' = connections + 1
    /\ m_socket' = [m_socket EXCEPT ![c] = connections']
    /\ backlog' = Append(backlog, connections')
    /\ UNCHANGED <<pc, sent, received, answer, closed, wire, arrived, tcpServerVars,
                   httpServerVars, historyVars>>

\* ... and with one: disconnect() locks the mutex that connect() holds.
Reconnect(c) ==
    /\ pc[c] = "idle" /\ m_socket[c] # 0
    /\ pc' = [pc EXCEPT ![c] = "hung"]
    /\ UNCHANGED <<m_socket, sent, received, answer, networkVars, tcpServerVars,
                   httpServerVars, historyVars>>

Disconnect(c) ==
    /\ pc[c] = "idle" /\ m_socket[c] # 0
    /\ CloseSockets("client", {m_socket[c]})
    /\ m_socket' = [m_socket EXCEPT ![c] = 0]
    /\ answer' = [answer EXCEPT ![c] = NoAnswer]
    /\ UNCHANGED <<pc, sent, received, connections, backlog, tcpServerVars,
                   httpServerVars, historyVars>>

\* send_request(): write() ...
SendRequest(c) ==
    LET n == Len(requests) + 1 IN
    /\ pc[c] = "idle" /\ m_socket[c] # 0
    /\ n <= MaxRequests
    /\ \E k \in Kinds :
          /\ requests' = Append(requests, [kind |-> k, connection |-> m_socket[c]])
          /\ Transmit("server", m_socket[c], Serialize(n, k.len, k.result))
    /\ sent' = [sent EXCEPT ![c] = n]
    /\ answer' = [answer EXCEPT ![c] = NoAnswer]
    /\ pc' = [pc EXCEPT ![c] = "headers"]
    /\ UNCHANGED <<m_socket, received, connections, closed, arrived, backlog,
                   tcpServerVars, httpServerVars, timed_out, handled>>

\* ... which returns 0 when the kernel knows that the server closed.
SendFails(c) ==
    /\ pc[c] = "idle" /\ m_socket[c] \in closed
    /\ answer[c] # NoAnswer
    /\ answer' = [answer EXCEPT ![c] = NoAnswer]
    /\ UNCHANGED <<pc, m_socket, sent, received, networkVars, tcpServerVars,
                   httpServerVars, historyVars>>

\* Mutant: the buffer outlives the call.
ReceiveResponse_KeepsBuffer(c) ==
    LET n == m_socket[c]
        buffer == received[c] \o arrived["client"][n]
        done == HasCompleteHeaders(buffer) /\ HasCompleteBody(buffer) IN
    /\ pc[c] \in {"headers", "body"} /\ arrived["client"][n] # <<>>
    /\ arrived' = [arrived EXCEPT !["client"][n] = <<>>]
    /\ received' = [received EXCEPT ![c] = buffer]
    /\ answer' = [answer EXCEPT ![c] = IF done THEN buffer ELSE @]
    /\ pc' = [pc EXCEPT ![c] = IF done THEN "idle"
                               ELSE IF HasCompleteHeaders(buffer) THEN "body"
                               ELSE "headers"]
    /\ UNCHANGED <<m_socket, sent, connections, closed, wire, backlog,
                   tcpServerVars, httpServerVars, historyVars>>

\* receive_response(): a turn of its loops that finds data.
ReceiveResponse(c) ==
    LET n == m_socket[c]
        buffer == received[c] \o arrived["client"][n]
        done == HasCompleteHeaders(buffer) /\ HasCompleteBody(buffer) IN
    /\ pc[c] \in {"headers", "body"} /\ arrived["client"][n] # <<>>
    /\ arrived' = [arrived EXCEPT !["client"][n] = <<>>]
    /\ received' = [received EXCEPT ![c] = IF done THEN <<>> ELSE buffer]
    /\ answer' = [answer EXCEPT ![c] = IF done THEN buffer ELSE @]
    /\ pc' = [pc EXCEPT ![c] = IF done THEN "idle"
                               ELSE IF HasCompleteHeaders(buffer) THEN "body"
                               ELSE "headers"]
    /\ UNCHANGED <<m_socket, sent, connections, closed, wire, backlog,
                   tcpServerVars, httpServerVars, historyVars>>

\* elapsed > m_timeout, which is looked at after the read: what has been read,
\* even a whole response, is lost with the local buffer.
ResponseTimeout(c) ==
    LET n == m_socket[c] IN
    /\ pc[c] \in {"headers", "body"}
    /\ arrived' \in {arrived, [arrived EXCEPT !["client"][n] = <<>>]}
    /\ received' = [received EXCEPT ![c] = <<>>]
    /\ pc' = [pc EXCEPT ![c] = "idle"]
    /\ timed_out' = timed_out \cup {n}
    /\ UNCHANGED <<m_socket, sent, answer, connections, closed, wire, backlog,
                   tcpServerVars, httpServerVars, requests, handled>>

-----------------------------------------------------------------------------
(* The server. *)

\* stop() of tcp::server.  m_client_buffers of http::server stays.
StopServer ==
    /\ CloseSockets("server", Range(m_clients) \cup Range(backlog))
    /\ m_clients' = <<>>
    /\ backlog' = <<>>
    /\ todo' = {}

\* Mutant: the ids start again.
Stop_ResetsIds ==
    /\ server_pc = "idle" /\ running
    /\ StopServer
    /\ running' = FALSE
    /\ m_next_client_id' = 1
    /\ UNCHANGED <<clientVars, connections, starts, m_client_buffers, server_pc,
                   historyVars>>

Stop ==
    /\ server_pc = "idle" /\ running
    /\ StopServer
    /\ running' = FALSE
    /\ UNCHANGED <<clientVars, connections, starts, m_next_client_id,
                   m_client_buffers, server_pc, historyVars>>

\* start(): stops first when it is listening; socket(), bind() or listen() may
\* fail, and it throws.
Start ==
    /\ server_pc = "idle" /\ starts < MaxStarts
    /\ starts' = starts + 1
    /\ StopServer
    /\ running' \in BOOLEAN
    /\ UNCHANGED <<clientVars, connections, m_next_client_id, m_client_buffers,
                   server_pc, historyVars>>

\* tick() when the server is not running returns -1 and finds no client.
TickNotRunning == server_pc = "idle" /\ ~running /\ UNCHANGED vars

Tick ==
    /\ server_pc = "idle" /\ running
    /\ server_pc' = "accepting"
    /\ UNCHANGED <<clientVars, networkVars, tcpServerVars, m_client_buffers, todo,
                   historyVars>>

\* The rest of tick(): the loop over clients().
HandleNext(ids) ==
    /\ todo' = ids
    /\ server_pc' = IF ids = {} THEN "idle" ELSE "handling"

\* Mutant: the connection is accepted again.
Accept_Again ==
    /\ server_pc = "accepting" /\ backlog # <<>>
    /\ m_clients' = [i \in DOMAIN m_clients \cup {m_next_client_id} |->
                       IF i = m_next_client_id THEN Head(backlog) ELSE m_clients[i]]
    /\ m_next_client_id' = m_next_client_id + 1
    /\ backlog' = backlog
    /\ HandleNext(DOMAIN m_clients')
    /\ UNCHANGED <<clientVars, connections, closed, wire, arrived, running, starts,
                   m_client_buffers, historyVars>>

Accept ==
    /\ server_pc = "accepting" /\ backlog # <<>>
    /\ m_clients' = [i \in DOMAIN m_clients \cup {m_next_client_id} |->
                       IF i = m_next_client_id THEN Head(backlog) ELSE m_clients[i]]
    /\ m_next_client_id' = m_next_client_id + 1
    /\ backlog' = Tail(backlog)
    /\ HandleNext(DOMAIN m_clients')
    /\ UNCHANGED <<clientVars, connections, closed, wire, arrived, running, starts,
                   m_client_buffers, historyVars>>

\* accept() finds no connection: it returns only if the socket does not block.
AcceptNothing ==
    /\ server_pc = "accepting" /\ backlog = <<>> /\ NonBlockingAccept
    /\ HandleNext(DOMAIN m_clients)
    /\ UNCHANGED <<clientVars, networkVars, tcpServerVars, m_client_buffers,
                   historyVars>>

Buffer(i) == IF i \in DOMAIN m_client_buffers THEN m_client_buffers[i] ELSE <<>>

SetBuffer(i, buffer) ==
    m_client_buffers' = [j \in DOMAIN m_client_buffers \cup {i} |->
                            IF j = i THEN buffer ELSE m_client_buffers[j]]

EraseBuffer(i) ==
    m_client_buffers' = [j \in DOMAIN m_client_buffers \ {i} |-> m_client_buffers[j]]

\* The response to what the buffer starts with: the route's, or 400 when it
\* does not start with a request line.
Respond(n, buffer) ==
    LET first == buffer[1]
        request == requests[first.n].kind IN
    /\ IF Parses(buffer)
       THEN Transmit("client", n, Serialize(first.n, request.reply, first.result))
       ELSE Transmit("client", n, Serialize(first.n, 1, "BAD_REQUEST"))
    /\ handled' = IF Parses(buffer)
                  THEN Append(handled, [n |-> first.n, connection |-> n,
                                        whole |-> WholeBody(buffer)])
                  ELSE handled

NextClient == CHOOSE i \in todo : \A j \in todo : i <= j

\* handleClient() for the next id of clients(): all that has arrived is added to
\* the buffer; a request that is complete is answered and the whole buffer
\* erased.  The end of the stream is readable and reads as nothing.
HandleClient ==
    LET i == NextClient
        n == m_clients[i]
        buffer == Buffer(i) \o arrived["server"][n] IN
    /\ server_pc = "handling"
    /\ HandleNext(todo \ {i})
    /\ arrived' = [arrived EXCEPT !["server"][n] = <<>>]
    /\ IF arrived["server"][n] = <<>>
       THEN UNCHANGED <<m_client_buffers, wire, handled>>
       ELSE IF /\ HasCompleteHeaders(buffer)
               /\ Parses(buffer) => HasCompleteBody(buffer)
       THEN Respond(n, buffer) /\ EraseBuffer(i)
       ELSE SetBuffer(i, buffer) /\ UNCHANGED <<wire, handled>>
    /\ UNCHANGED <<clientVars, connections, closed, backlog, tcpServerVars,
                   requests, timed_out>>

-----------------------------------------------------------------------------

Serve == Tick \/ Accept \/ AcceptNothing \/ HandleClient

Client(c) ==
    \/ Connect(c) \/ Reconnect(c) \/ Disconnect(c) \/ SendRequest(c)
    \/ SendFails(c) \/ ReceiveResponse(c) \/ ResponseTimeout(c)

Next ==
    \/ Serve \/ Start \/ Stop \/ TickNotRunning
    \/ \E c \in Clients : Client(c)
    \/ \E to \in Sides, n \in Connections : Deliver(to, n)

Spec == Init /\ [][Next]_vars

\* tick() is called in a loop, what is sent arrives, and receive_response()
\* polls.  Nothing obliges an application to start, stop, connect or send, and
\* no time limit has to pass.
Fairness ==
    /\ WF_vars(Serve)
    /\ \A c \in Clients : WF_vars(ReceiveResponse(c))
    /\ \A to \in Sides, n \in Connections : WF_vars(Deliver(to, n))

FairSpec == Spec /\ Fairness

-----------------------------------------------------------------------------
(* Properties. *)

\* As long as no call on a connection has timed out, the response a call
\* returns is the one to its own request, with the status of that request's
\* route and exactly the body the server sent, however it was cut.  After a
\* timeout the next call on that connection takes the late response for its own.
AnswerMatches ==
    \A c \in Clients :
        answer[c] # NoAnswer /\ m_socket[c] \notin timed_out =>
            /\ Parses(answer[c])
            /\ answer[c][1].n = sent[c]
            /\ answer[c][1].result = requests[sent[c]].kind.result
            /\ WholeBody(answer[c])

\* The handler of a route is called at most once for a request, timeouts and
\* repeated calls notwithstanding.
HandledOnce ==
    \A i, j \in DOMAIN handled : handled[i].n = handled[j].n => i = j

\* On a connection on which no call timed out, the handler sees the body of the
\* request, all of it and nothing else.
HandledWhole ==
    \A i \in DOMAIN handled : handled[i].connection \notin timed_out => handled[i].whole

\* What the server has buffered for a client came from that client, although
\* stop() clears the clients and leaves the buffers.
BuffersAreOwn ==
    \A i \in DOMAIN m_client_buffers \cap DOMAIN m_clients :
        \A p \in Range(m_client_buffers[i]) :
            requests[p.n].connection = m_clients[i]

\* A request on a healthy connection to a server that goes on running is
\* answered, where accept() does not block (Windows).  Elsewhere tick() waits in
\* accept() for the next connection, and no client is answered meanwhile.
Waiting(c) == pc[c] \in {"headers", "body"} /\ m_socket[c] \notin timed_out \cup closed
RequestAnswered == \A c \in Clients : Waiting(c) ~> ~Waiting(c)

\* tcpserver.hpp, tick(): "This function is not blocking" - it comes back from
\* accept() whether or not somebody connects.
TickReturns == server_pc = "accepting" ~> server_pc # "accepting"

\* tcpclient.cpp, connect(): "Close existing connection if any".
ReconnectCloses ==
    [][\A c \in Clients : Reconnect(c) => m_socket'[c] # m_socket[c]]_vars

\* Whatever the order of ticks, restarts, timeouts and repeated calls, a request
\* is handled at most once, whole, and from what its own client has sent.
RequestsAreServedOnce == HandledOnce /\ HandledWhole /\ BuffersAreOwn
=============================================================================
