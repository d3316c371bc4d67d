------------------------------ MODULE Server15 ------------------------------
(***************************************************************************)
(* The server of v1.5/src with the applications of v1.5/Test.  Connections *)
(* are held by shared_ptr and have an input and an output buffer; an       *)
(* application may send.  The block for EPOLLOUT in handleEvents() is      *)
(* commented out (Channel.cpp:42-48), so handleWrite() never runs.         *)
(*                                                                         *)
(* A handler is cut where the application is called: the peers go on       *)
(* between the read() of handleRead() and the write() of the send() in the *)
(* message callback.                                                       *)
(***************************************************************************)
EXTENDS Peers, EarlyChannel

CONSTANTS
    Apps,       \* the programs of v1.5/Test that are tried
    Greeting    \* what the daytime server sends

VARIABLES
    app,            \* the program that runs
    chan,           \* the channels of the acceptor and of the connections
    tcp,            \* the TcpConnection objects
    tcpConnections, \* TcpServer::tcpConnections_
    pc,             \* where the loop is
    stage,          \* which `if' of handleEvents()
    cur,            \* the channel whose handleEvents() runs
    who,            \* the connection whose callback runs
    active,         \* activeChannels_ still to handle
    log             \* history: the callbacks, what was sent and written

objects == <<chan, tcp, tcpConnections, log>>
loopVars == <<pc, stage, cur, who, active>>
vars == <<network, app, objects, loopVars>>

Acceptor == 0
Channels == Peers \cup {Acceptor}
ConnectStates == {"CONNECTED", "CONNECTING", "DISCONNECTED", "DISCONNECTING"}

TcpType ==
    [live : BOOLEAN, connectState : ConnectStates, input : Bytes, output : Bytes]

TypeOK ==
    /\ NetworkTypeOK
    /\ app \in Apps
    /\ chan \in [Channels -> ChannelType]
    /\ tcp \in [Peers -> TcpType]
    /\ tcpConnections \subseteq Peers
    /\ pc \in {"setup", "poll", "batch", "handle", "up", "message", "dead"}
    /\ stage \in {"HUP", "IN"}
    /\ cur \in Channels
    /\ who \in Channels
    /\ active \subseteq Channels
    /\ log \in [Peers -> [ups : Nat, downs : Nat, asked : Bytes, written : Bytes]]

(* A TcpConnection as its constructor leaves it. *)
NewTcp == [live |-> TRUE, connectState |-> "CONNECTING", input |-> <<>>, output |-> <<>>]

(* The constructors of EventLoop, Epoller, Acceptor and TcpServer. *)
Init ==
    /\ NetworkInit
    /\ app \in Apps
    /\ chan = [c \in Channels |-> NewChannel]
    /\ tcp = [p \in Peers |-> [NewTcp EXCEPT !.live = FALSE]]
    /\ tcpConnections = {}
    /\ pc = "setup"
    /\ stage = "HUP"
    /\ cur = Acceptor
    /\ who = Acceptor
    /\ active = {}
    /\ log = [p \in Peers |-> [ups |-> 0, downs |-> 0, asked |-> <<>>, written |-> <<>>]]

FdsLeft == Cardinality(Fds) - Cardinality(UsedFds)
           - Cardinality({p \in Peers : tcp[p].live})

Conditions(c) ==
    IF c = Acceptor THEN IF backlog = <<>> THEN {} ELSE {"IN"}
    ELSE IF sock[c].at # "open" THEN {}
    ELSE (IF Readable(sock[c]) THEN {"IN"} ELSE {})
           \cup (IF Writable(sock[c]) THEN {"OUT"} ELSE {})
           \cup (IF sock[c].rst THEN {"HUP"} ELSE {})

-----------------------------------------------------------------------------
(* The loop: EventLoop::loop(), Epoller::poll(), Channel::handleEvents(). *)

(* Acceptor::listen() *)
Listen == chan' = [chan EXCEPT ![Acceptor] = EnabledReadable(@)]

(* TcpServer::start(), and loop() is entered. *)
Start ==
    /\ pc = "setup"
    /\ Listen
    /\ pc' = "poll"
    /\ UNCHANGED <<network, app, tcp, tcpConnections, stage, cur, who, active, log>>

ReportOf(c) == Reported(chan[c], Conditions(c))

Poll ==
    /\ pc = "poll"
    /\ \E c \in Channels : ReportOf(c) # {}
    /\ active' = {c \in Channels : ReportOf(c) # {}}
    /\ chan' = [c \in Channels |->
                  IF c \in active' THEN [chan[c] EXCEPT !.revents = ReportOf(c)]
                  ELSE chan[c]]
    /\ pc' = "batch"
    /\ UNCHANGED <<network, app, tcp, tcpConnections, stage, cur, who, log>>

StartHandle(c) ==
    /\ pc = "batch"
    /\ c \in active
    /\ active' = active \ {c}
    /\ cur' = c
    /\ stage' = "HUP"
    /\ pc' = "handle"
    /\ UNCHANGED <<network, app, objects, who>>

EndBatch ==
    /\ pc = "batch"
    /\ active = {}
    /\ pc' = "poll"
    /\ UNCHANGED <<network, app, objects, stage, cur, who, active>>

(* handleEvents() goes on after the handler of a stage; there is no third. *)
Return ==
    /\ stage' = "IN"
    /\ pc' = IF stage = "HUP" THEN "handle" ELSE "batch"
    /\ UNCHANGED <<cur, who, active>>

CallBack(p, callback) ==
    /\ who' = p
    /\ pc' = callback
    /\ UNCHANGED <<stage, cur, active>>

Abort ==
    /\ pc' = "dead"
    /\ UNCHANGED <<stage, cur, who, active>>

Freed(c) == c # Acceptor /\ ~tcp[c].live

At(s) ==
    /\ pc = "handle"
    /\ stage = s
    /\ ~Freed(cur)
    /\ s \in chan[cur].revents

(* The event was not reported, or freed memory does not show it. *)
Skip ==
    /\ pc = "handle"
    /\ Freed(cur) \/ stage \notin chan[cur].revents
    /\ Return
    /\ UNCHANGED <<network, app, objects>>

(* Freed memory shows the event, and a destroyed callback is called. *)
ReadFreedChannel ==
    /\ pc = "handle"
    /\ Freed(cur)
    /\ Abort
    /\ UNCHANGED <<network, app, objects>>

-----------------------------------------------------------------------------
(* Acceptor and TcpServer. *)

(* connectionEstablished(): watch, then tell the application UP. *)
ConnectionEstablished(p) ==
    /\ chan' = [chan EXCEPT ![p] = EnabledReadable(NewChannel)]
    /\ tcp' = [tcp EXCEPT ![p] = [NewTcp EXCEPT !.connectState = "CONNECTED"]]
    /\ log' = [log EXCEPT ![p].ups = @ + 1]
    /\ CallBack(p, "up")

(* TcpServer::newConnection(), which inserts the connection in ReturnUp. *)
NewConnection(p) ==
    /\ ConnectionEstablished(p)
    /\ UNCHANGED tcpConnections

(* Without descriptors the assertion of Sockets::accept(), or that of the     *)
(* constructor of socket_, fails.                                             *)
AcceptFails ==
    /\ At("IN")
    /\ cur = Acceptor
    /\ FdsLeft < 2
    /\ Abort
    /\ UNCHANGED <<network, app, objects>>

(* Acceptor::accept(), with the callback to TcpServer. *)
Accept ==
    /\ At("IN")
    /\ cur = Acceptor
    /\ FdsLeft >= 2
    /\ sock' = Accepted(LowestFree)
    /\ backlog' = Tail(backlog)
    /\ NewConnection(Head(backlog))
    /\ UNCHANGED <<sent, app>>

(* TcpServer::removeConnection() drops the last pointer but those of the      *)
(* callbacks, so the connection is freed when handleClose() is through.       *)
RemoveConnection(p) ==
    /\ tcpConnections' = tcpConnections \ {p}
    /\ tcp' = [tcp EXCEPT ![p].live = FALSE, ![p].connectState = "DISCONNECTED"]

-----------------------------------------------------------------------------
(* TcpConnection. *)

(* handleClose(); the applications do nothing when they are told DOWN. *)
HandleClose(p) ==
    /\ chan' = [chan EXCEPT ![p] = DiabledAllEvents(@)]
    /\ log' = [log EXCEPT ![p].downs = @ + 1]
    /\ RemoveConnection(p)
    /\ Return
    /\ UNCHANGED <<network, app>>

HangUpEvent ==
    /\ At("HUP")
    /\ cur \in Peers
    /\ HandleClose(cur)

EndOfFile(n) == n = 0

(* Buffer::append() at the level of Buffer's abstract specification, ByteStream. *)
Appended(buffer, bytes) == buffer \o bytes

(* Buffer::readFd() has room for all there is. *)
ReadFd(p, n) ==
    /\ sock' = [sock EXCEPT ![p] = AfterRecv(@, n)]
    /\ tcp' = [tcp EXCEPT ![p].input = Appended(@, SubSeq(sock[p].rcv, 1, n))]

HandleRead ==
    /\ At("IN")
    /\ cur \in Peers
    /\ LET n == RecvResult(sock[cur], MaxIn) IN
         IF EndOfFile(n) THEN HandleClose(cur)
         ELSE /\ ReadFd(cur, n)
              /\ IF n > 0 THEN CallBack(cur, "message") ELSE Return
              /\ UNCHANGED <<backlog, sent, app, chan, tcpConnections, log>>

(* Mutant: output that waits does not keep a send() from writing. *)
WritesAnyway(p) == TRUE

MayWrite(p) == ~IsWriting(chan[p]) /\ tcp[p].output = <<>>

(* What a send() leaves for the output buffer. *)
Unsent(p, bytes) ==
    SubSeq(bytes, 1 + IF MayWrite(p) THEN Taken(sock[p], bytes) ELSE 0, Len(bytes))

WatchOutput(p, bytes) ==
    IF Unsent(p, bytes) # <<>> /\ ~IsWriting(chan[p])
    THEN EnabledWritable(chan[p]) ELSE chan[p]

(* send(), with the arguments of the callback's connection; `input' is what   *)
(* the caller leaves of the input buffer.  A write to a connection that was   *)
(* reset ends the process, as nobody handles SIGPIPE.                         *)
Send(p, bytes, input) ==
    /\ sock' = IF MayWrite(p) THEN [sock EXCEPT ![p] = AfterSend(@, bytes)] ELSE sock
    /\ tcp' = [tcp EXCEPT ![p].output = Appended(@, Unsent(p, bytes)), ![p].input = input]
    /\ chan' = [chan EXCEPT ![p] = WatchOutput(p, bytes)]
    /\ log' = [log EXCEPT ![p].asked = @ \o bytes,
                          ![p].written = @ \o SubSeq(bytes, 1, Len(bytes)
                                                       - Len(Unsent(p, bytes)))]
    /\ UNCHANGED <<backlog, sent>>

Killed(p) == MayWrite(p) /\ RaisesSigpipe(sock[p])

-----------------------------------------------------------------------------
(* The programs of v1.5/Test: their callbacks, and what runs after them. *)

(* shutdown(): its condition holds on connections that are not CONNECTED;     *)
(* socket_ is not connected, and shutdownWrite() aborts.                      *)
ShutsDown(p, ch) == tcp[p].connectState # "CONNECTED" /\ ~IsWriting(ch)

(* The daytime server's onConnection() when UP. *)
Greet(p) ==
    /\ Send(p, Greeting, tcp[p].input)
    /\ IF ShutsDown(p, chan'[p]) THEN Abort ELSE Return

(* onConnection() when UP, then newConnection() inserts the connection. *)
ReturnUp ==
    /\ pc = "up"
    /\ UNCHANGED app
    /\ IF app = "daytime" /\ Killed(who) THEN Abort /\ UNCHANGED <<network, objects>>
       ELSE /\ IF app = "daytime" THEN Greet(who)
               ELSE Return /\ UNCHANGED <<network, chan, tcp, log>>
            /\ tcpConnections' = tcpConnections \cup {who}

(* What retrieveAsString() leaves in the input buffer. *)
Retrieved(p) == <<>>

(* onMessage(): retrieveAsString(), and the echo server sends it back. *)
ReturnMessage ==
    /\ pc = "message"
    /\ UNCHANGED app
    /\ IF app = "echo" /\ Killed(who) THEN Abort /\ UNCHANGED <<network, objects>>
       ELSE /\ IF app = "echo" THEN Send(who, tcp[who].input, Retrieved(who))
               ELSE /\ tcp' = [tcp EXCEPT ![who].input = Retrieved(who)]
                    /\ UNCHANGED <<network, chan, log>>
            /\ Return
            /\ UNCHANGED tcpConnections

LoopStep ==
    \/ Start
    \/ Poll
    \/ \E c \in Channels : StartHandle(c)
    \/ EndBatch
    \/ Skip
    \/ ReadFreedChannel
    \/ AcceptFails
    \/ Accept
    \/ HangUpEvent
    \/ HandleRead
    \/ ReturnUp
    \/ ReturnMessage

PeersMove ==
    /\ pc \notin {"setup", "dead"}
    /\ PeerStep
    /\ UNCHANGED <<app, objects, loopVars>>

Next == LoopStep \/ PeersMove
Spec == Init /\ [][Next]_vars /\ WF_vars(LoopStep)
-----------------------------------------------------------------------------
(* A freed connection leaves no pointer to its Channel in epoll or in the     *)
(* batch, and every channel is registered as it says (TcpConnection.cpp:118). *)
NoDanglingChannel ==
    /\ \A p \in Peers : ~tcp[p].live => ~chan[p].added /\ p \notin active
    /\ \A c \in Channels : Mirrors(chan[c])

(* The map owns exactly the connections that are live, but for the one whose  *)
(* UP callback runs; all of them are CONNECTED, were told UP and not DOWN,    *)
(* and no callback comes twice.  (TcpServer.cpp:30-54)                        *)
MapIsConnected ==
    \A p \in Peers :
        /\ log[p].downs <= log[p].ups /\ log[p].ups <= 1
        /\ tcp[p].live <=> log[p].ups = 1 /\ log[p].downs = 0
        /\ tcp[p].live => tcp[p].connectState = "CONNECTED"
        /\ pc # "dead" =>
             (p \in tcpConnections <=> tcp[p].live /\ ~(pc = "up" /\ who = p))

(* What was sent is what was written and what waits, in this order, and the   *)
(* channel watches EPOLLOUT exactly if something waits.                       *)
(* (TcpConnection.cpp:132-164)                                                *)
OutputConserved ==
    \A p \in Peers : tcp[p].live =>
        /\ log[p].asked = log[p].written \o tcp[p].output
        /\ IsWriting(chan[p]) <=> tcp[p].output # <<>>

(* The echo server sends back every byte it has read, in order.               *)
(* (Test/EchoServerTest.cpp:28-34, TcpConnection.cpp:65-77)                   *)
EchoInOrder ==
    app = "echo" => \A p \in Peers : tcp[p].live =>
        log[p].asked \o tcp[p].input \o sock[p].rcv = [k \in 1..sent[p] |-> k]
=============================================================================
