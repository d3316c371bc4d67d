------------------------------ MODULE Server14 ------------------------------
(***************************************************************************)
(* The server of v1.4/src with the application of v1.4/Test: TcpServer     *)
(* owns each TcpConnection by a unique_ptr in tcpConnections_, so the      *)
(* close callback frees the connection and its Channel while handleEvents()*)
(* of that Channel runs.  An application cannot change a connection: it    *)
(* gets a const pointer.  The peers go on between two handlers.            *)
(***************************************************************************)
EXTENDS Peers, EarlyChannel

CONSTANT ReadSize           \* bytes of one read()

VARIABLES
    chan,           \* the channels of the acceptor and of the connections
    tcp,            \* the TcpConnection objects
    tcpConnections, \* TcpServer::tcpConnections_
    pc,             \* where the loop is
    stage,          \* which `if' of handleEvents()
    cur,            \* the channel whose handleEvents() runs
    active,         \* activeChannels_ still to handle
    log             \* history: what the application was told

vars == <<network, chan, tcp, tcpConnections, pc, stage, cur, active, log>>
objects == <<chan, tcp, tcpConnections, log>>

Acceptor == 0
Channels == Peers \cup {Acceptor}

(* A TcpConnection; `live' until its unique_ptr is erased. *)
TcpType ==
    [live : BOOLEAN, connectState : {"CONNECTING", "CONNECTED", "DISCONNECTED"}]

TypeOK ==
    /\ NetworkTypeOK
    /\ chan \in [Channels -> ChannelType]
    /\ tcp \in [Peers -> TcpType]
    /\ tcpConnections \subseteq Peers
    /\ pc \in {"setup", "poll", "batch", "handle", "dead"}
    /\ stage \in {"HUP", "IN"}
    /\ cur \in Channels
    /\ active \subseteq Channels
    /\ log \in [Peers -> [ups : Nat, downs : Nat, received : Bytes]]

(* The constructors of EventLoop, Epoller, Acceptor and TcpServer. *)
Init ==
    /\ NetworkInit
    /\ chan = [c \in Channels |-> NewChannel]
    /\ tcp = [p \in Peers |-> [live |-> FALSE, connectState |-> "CONNECTING"]]
    /\ tcpConnections = {}
    /\ pc = "setup"
    /\ stage = "HUP"
    /\ cur = Acceptor
    /\ active = {}
    /\ log = [p \in Peers |-> [ups |-> 0, downs |-> 0, received |-> <<>>]]

(* accept4() takes a descriptor that nothing closes, TcpConnection::socket_   *)
(* one that is closed with the object.                                        *)
FdsLeft == Cardinality(Fds) - Cardinality(UsedFds)
           - Cardinality({p \in Peers : tcp[p].live})

Conditions(c) ==
    IF c = Acceptor THEN IF backlog = <<>> THEN {} ELSE {"IN"}
    ELSE IF sock[c].at # "open" THEN {}
    ELSE (IF Readable(sock[c]) THEN {"IN"} ELSE {})
           \cup (IF Writable(sock[c]) THEN {"OUT"} ELSE {})
           \cup (IF sock[c].rst THEN {"HUP"} ELSE {})

(* Acceptor::listen() *)
Listen == chan' = [chan EXCEPT ![Acceptor] = EnabledReadable(@)]

(* TcpServer::start(), and loop() is entered. *)
Start ==
    /\ pc = "setup"
    /\ Listen
    /\ pc' = "poll"
    /\ UNCHANGED <<network, tcp, tcpConnections, stage, cur, active, log>>

ReportOf(c) == Reported(chan[c], Conditions(c))

Poll ==
    /\ pc = "poll"
    /\ \E c \in Channels : ReportOf(c) # {}
    /\ active' = {c \in Channels : ReportOf(c) # {}}
    /\ chan' = [c \in Channels |->
                  IF c \in active' THEN [chan[c] EXCEPT !.revents = ReportOf(c)]
                  ELSE chan[c]]
    /\ pc' = "batch"
    /\ UNCHANGED <<network, tcp, tcpConnections, stage, cur, log>>

StartHandle(c) ==
    /\ pc = "batch"
    /\ c \in active
    /\ active' = active \ {c}
    /\ cur' = c
    /\ stage' = "HUP"
    /\ pc' = "handle"
    /\ UNCHANGED <<network, objects>>

EndBatch ==
    /\ pc = "batch"
    /\ active = {}
    /\ pc' = "poll"
    /\ UNCHANGED <<network, objects, stage, cur, active>>

(* handleEvents() goes on after the handler of a stage. *)
Return ==
    /\ stage' = "IN"
    /\ pc' = IF stage = "HUP" THEN "handle" ELSE "batch"
    /\ UNCHANGED <<cur, active>>

Abort ==
    /\ pc' = "dead"
    /\ UNCHANGED <<stage, cur, active>>

Freed(c) == c # Acceptor /\ ~tcp[c].live

At(s) ==
    /\ pc = "handle"
    /\ stage = s
    /\ ~Freed(cur)
    /\ s \in chan[cur].revents

(* The event was not reported, or freed memory does not show it. *)
Skip ==
    /\ pc = "handle"
    /\ Freed(cur) \/ stage \notin chan[cur].revents
    /\ Return
    /\ UNCHANGED <<network, objects>>

(* Freed memory shows the event, and a destroyed callback is called. *)
ReadFreedChannel ==
    /\ pc = "handle"
    /\ Freed(cur)
    /\ Abort
    /\ UNCHANGED <<network, objects>>

(* connectionEstablished(): watch, then tell the application UP. *)
ConnectionEstablished(p) ==
    /\ chan' = [chan EXCEPT ![p] = EnabledReadable(NewChannel)]
    /\ tcp' = [tcp EXCEPT ![p] = [live |-> TRUE, connectState |-> "CONNECTED"]]
    /\ log' = [log EXCEPT ![p].ups = @ + 1]

(* TcpServer::newConnection() *)
NewConnection(p) ==
    /\ ConnectionEstablished(p)
    /\ tcpConnections' = tcpConnections \cup {p}

(* Without descriptors the assertion of Sockets::accept(), or that of the     *)
(* constructor of socket_, fails.                                             *)
AcceptFails ==
    /\ At("IN")
    /\ cur = Acceptor
    /\ FdsLeft < 2
    /\ Abort
    /\ UNCHANGED <<network, objects>>

(* Acceptor::accept(), with the callback to TcpServer. *)
Accept ==
    /\ At("IN")
    /\ cur = Acceptor
    /\ FdsLeft >= 2
    /\ sock' = Accepted(LowestFree)
    /\ backlog' = Tail(backlog)
    /\ NewConnection(Head(backlog))
    /\ Return
    /\ UNCHANGED sent

(* Mutant: the connection is not erased. *)
RemoveNothing(p) == UNCHANGED tcpConnections /\ tcp' = [tcp EXCEPT
                        ![p].connectState = "DISCONNECTED"]

(* TcpServer::removeConnection(): erase() frees the connection. *)
RemoveConnection(p) ==
    /\ tcpConnections' = tcpConnections \ {p}
    /\ tcp' = [tcp EXCEPT ![p] = [live |-> FALSE, connectState |-> "DISCONNECTED"]]

HandleClose(p) ==
    /\ chan' = [chan EXCEPT ![p] = DiabledAllEvents(@)]
    /\ log' = [log EXCEPT ![p].downs = @ + 1]
    /\ RemoveConnection(p)
    /\ Return
    /\ UNCHANGED network

HangUpEvent ==
    /\ At("HUP")
    /\ cur \in Peers
    /\ HandleClose(cur)

EndOfFile(n) == n = 0

HandleRead ==
    /\ At("IN")
    /\ cur \in Peers
    /\ LET n == RecvResult(sock[cur], ReadSize) IN
         IF EndOfFile(n) THEN HandleClose(cur)
         ELSE /\ sock' = [sock EXCEPT ![cur] = AfterRecv(@, n)]
              /\ log' = [log EXCEPT ![cur].received = @ \o SubSeq(sock[cur].rcv, 1, n)]
              /\ Return
              /\ UNCHANGED <<backlog, sent, chan, tcp, tcpConnections>>

LoopStep ==
    \/ Start
    \/ Poll
    \/ \E c \in Channels : StartHandle(c)
    \/ EndBatch
    \/ Skip
    \/ ReadFreedChannel
    \/ AcceptFails
    \/ Accept
    \/ HangUpEvent
    \/ HandleRead

PeersMove ==
    /\ pc \notin {"setup", "dead"}
    /\ PeerStep
    /\ UNCHANGED <<objects, pc, stage, cur, active>>

Next == LoopStep \/ PeersMove
Spec == Init /\ [][Next]_vars /\ WF_vars(LoopStep)

-----------------------------------------------------------------------------
(* A freed connection leaves no pointer to its Channel in epoll or in the     *)
(* batch: handleClose() is its only end, and disabling takes it out.          *)
(* (TcpConnection.cpp:78-85, TcpServer.cpp:49-55)                             *)
NoDanglingChannel ==
    \A p \in Peers : ~tcp[p].live => ~chan[p].added /\ p \notin active

(* The map owns exactly the connections that are CONNECTED and that the       *)
(* application was told are UP, and not yet, once, that they are DOWN.        *)
(* (TcpServer.cpp:31-55)                                                      *)
MapIsConnected ==
    \A p \in Peers :
        /\ p \in tcpConnections <=> tcp[p].live /\ tcp[p].connectState = "CONNECTED"
        /\ p \in tcpConnections <=> log[p].ups = 1 /\ log[p].downs = 0
        /\ log[p].downs <= log[p].ups /\ log[p].ups <= 1

(* The application gets the peer's bytes in order, and of a peer that closed  *)
(* without a reset all of them before it is told DOWN.                        *)
(* (TcpConnection.cpp:63-85)                                                  *)
ReceivedBeforeDown ==
    \A p \in Peers :
        /\ log[p].received = [k \in 1..Len(log[p].received) |-> k]
        /\ log[p].downs = 1 /\ ~sock[p].rst => Len(log[p].received) = sent[p]
=============================================================================
