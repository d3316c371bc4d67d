----------------------------- MODULE NetServer ------------------------------
(***************************************************************************)
(* The server of v1.7/src: EventLoop, Epoller, Channel, Acceptor,          *)
(* TcpServer and TcpConnection in their one thread, the kernel's sockets,  *)
(* the peers, and an application that hangs on the connection and message  *)
(* callbacks.                                                              *)
(*                                                                         *)
(* A handler is cut only where it calls the application: the calls the     *)
(* application makes there are actions of their own, and so are the peers' *)
(* packets, which arrive at any moment.  pc says which callback runs; the  *)
(* part of a handler after the callback is the action Return...            *)
(*                                                                         *)
(* A connection object is freed when the last shared_ptr goes: the one in  *)
(* tcpConnections_ and the temporaries of a running callback.  Its Channel *)
(* goes with it, also when handleEvents() of that Channel is running: what *)
(* it then reads is freed memory, and either it finds no event there or    *)
(* the process crashes.                                                    *)
(***************************************************************************)
EXTENDS Channel, Integers, Sequences, FiniteSets

CONSTANTS
    Conns,          \* the connections that peers may open
    Listener,       \* the Acceptor's channel
    OnUp,           \* the calls the application may make when told UP
    OnMessage,      \* ... in the message callback
    OnDown,         \* ... when told DOWN
    ChecksConnected,\* the application asks connected() before it sends or shuts down
    Message,        \* the bytes of one application message
    MaxOut,         \* bound: bytes the application sends on a connection
    MaxIn,          \* bound: bytes a peer sends on a connection
    SndBuf,         \* bytes the kernel takes before write() is short
    Backlog,        \* connections that wait for accept()
    MaxFds          \* descriptors left to the process for connections

Calls == {"send", "echo", "retrieve", "shutdown", "remove", "quit"}

ASSUME ConnsAssumption == IsFiniteSet(Conns) /\ Listener \notin Conns
ASSUME CallsAssumption ==
    /\ OnUp \subseteq Calls
    /\ OnMessage \subseteq Calls
    /\ OnDown \subseteq Calls \ {"remove"}
    /\ ChecksConnected \in BOOLEAN
ASSUME BoundsAssumption ==
    /\ Message \in Seq(Nat) /\ Message # <<>>
    /\ MaxOut \in Nat /\ MaxIn \in Nat
    /\ SndBuf \in Nat \ {0} /\ Backlog \in Nat \ {0} /\ MaxFds \in Nat

VARIABLES
    chan,           \* Channel objects with their epoll registration
    tcp,            \* TcpConnection objects
    tcpConnections, \* TcpServer::tcpConnections_
    sock,           \* the kernel's sockets of the accepted connections
    backlog,        \* the kernel's queue of connections to accept
    pc,             \* where the thread is
    stage,          \* which `if' of handleEvents()
    cur,            \* the channel whose handleEvents() runs
    who,            \* the connection whose callback runs
    caller,         \* where connectionDestroy() returns to
    active,         \* activeChannels_ still to handle
    quit,           \* quit_
    cause,          \* why the process died
    peer,           \* what each peer has sent and received
    log             \* history: what the application asked and was told

loopVars == <<pc, stage, cur, who, caller, active, quit, cause>>
objects == <<chan, tcp, tcpConnections>>
network == <<sock, backlog, peer>>
vars == <<chan, tcp, tcpConnections, sock, backlog, pc, stage, cur, who,
          caller, active, quit, cause, peer, log>>

Channels == Conns \cup {Listener}
States == {"CONNECTED", "CONNECTING", "DISCONNECTED", "DISCONNECTING"}
Stages == {"HUP", "IN", "OUT"}
Callbacks == {"up", "message", "down", "removed"}
PCs == {"setup", "poll", "dispatch", "handle", "exit", "dead"} \cup Callbacks
Causes == {"none", "accept", "socket", "write", "sigpipe", "shutdown",
           "assert", "epoll_ctl", "wild"}
Bytes == Seq(Nat)

TcpType == [state : States, live : BOOLEAN, input : Bytes, output : Bytes]
SockType == [fd : {"none", "queued", "open"}, rcv : Bytes, snd : Bytes,
             fin : BOOLEAN, rst : BOOLEAN, err : {"none", "ECONNRESET", "EPIPE"}]
PeerType == [sent : Nat, got : Bytes]
LogType == [asked : Bytes, ups : Nat, downs : Nat, shut : BOOLEAN]

TypeOK ==
    /\ chan \in [Channels -> ChannelType]
    /\ tcp \in [Conns -> TcpType]
    /\ tcpConnections \in SUBSET Conns
    /\ sock \in [Conns -> SockType]
    /\ backlog \in Seq(Conns)
    /\ pc \in PCs
    /\ stage \in Stages
    /\ cur \in Channels
    /\ who \in Conns
    /\ caller \in {"up", "message", "handle"}
    /\ active \in SUBSET Channels
    /\ quit \in BOOLEAN
    /\ cause \in Causes
    /\ peer \in [Conns -> PeerType]
    /\ log \in [Conns -> LogType]

Init ==
    /\ chan = [c \in Channels |-> NewChannel]
    /\ tcp = [c \in Conns |-> [state |-> "CONNECTING", live |-> FALSE,
                               input |-> <<>>, output |-> <<>>]]
    /\ tcpConnections = {}
    /\ sock = [c \in Conns |-> [fd |-> "none", rcv |-> <<>>, snd |-> <<>>,
                                fin |-> FALSE, rst |-> FALSE, err |-> "none"]]
    /\ backlog = <<>>
    /\ pc = "setup"
    /\ stage = "HUP"
    /\ cur = Listener
    /\ who \in Conns
    /\ caller = "handle"
    /\ active = {}
    /\ quit = FALSE
    /\ cause = "none"
    /\ peer = [c \in Conns |-> [sent |-> 0, got |-> <<>>]]
    /\ log = [c \in Conns |-> [asked |-> <<>>, ups |-> 0, downs |-> 0,
                               shut |-> FALSE]]

-----------------------------------------------------------------------------
(* Descriptors: accept4() takes one for the connection, which nothing ever   *)
(* closes; `new Sockets()' takes one for TcpConnection::socket_, which is    *)
(* never connected and is closed with the object.                            *)
FdsInUse == Cardinality({c \in Conns : sock[c].fd = "open"})
            + Cardinality({c \in Conns : tcp[c].live})

Serving == pc \notin {"setup", "exit", "dead"}

(* The conditions that epoll sees on a descriptor. *)
SocketEvents(s) ==
    (IF s.rcv # <<>> \/ s.fin \/ s.rst THEN {ReadableEvent} ELSE {})
      \cup (IF Len(s.snd) < SndBuf \/ s.rst THEN {WritableEvent} ELSE {})
      \cup (IF s.rst THEN {HangUp} ELSE {})

Ready(c) ==
    IF c = Listener
    THEN IF backlog # <<>> THEN {ReadableEvent} ELSE {}
    ELSE IF sock[c].fd = "open" THEN SocketEvents(sock[c]) ELSE {}

(* write() on a reset connection raises SIGPIPE, but for the first call      *)
(* after a reset that met no FIN, which returns the pending ECONNRESET.      *)
RaisesSigpipe(s) == s.rst /\ s.err # "ECONNRESET"
Accepts(s, n) ==
    IF s.rst THEN 0
    ELSE IF n <= SndBuf - Len(s.snd) THEN n ELSE SndBuf - Len(s.snd)
AfterWrite(s, bytes) ==
    [s EXCEPT !.snd = @ \o SubSeq(bytes, 1, Accepts(s, Len(bytes))),
              !.err = IF s.rst THEN "none" ELSE @]
Unwritten(s, bytes) == SubSeq(bytes, Accepts(s, Len(bytes)) + 1, Len(bytes))

-----------------------------------------------------------------------------
(* The peers and the network. *)

Connect(c) ==
    /\ Serving
    /\ sock[c].fd = "none"
    /\ Len(backlog) < Backlog
    /\ sock' = [sock EXCEPT ![c].fd = "queued"]
    /\ backlog' = Append(backlog, c)
    /\ UNCHANGED <<peer, objects, loopVars, log>>

(* The k-th byte that a peer sends is the number k. *)
PeerSend(c) ==
    /\ Serving
    /\ sock[c].fd # "none" /\ ~sock[c].fin /\ ~sock[c].rst
    /\ peer[c].sent < MaxIn
    /\ peer' = [peer EXCEPT ![c].sent = @ + 1]
    /\ sock' = [sock EXCEPT ![c].rcv = Append(@, peer[c].sent + 1)]
    /\ UNCHANGED <<backlog, objects, loopVars, log>>

PeerRecv(c) ==
    /\ Serving
    /\ sock[c].snd # <<>>
    /\ peer' = [peer EXCEPT ![c].got = Append(@, Head(sock[c].snd))]
    /\ sock' = [sock EXCEPT ![c].snd = Tail(@)]
    /\ UNCHANGED <<backlog, objects, loopVars, log>>

(* FIN: the peer sends no more; it may go on receiving. *)
PeerClose(c) ==
    /\ Serving
    /\ sock[c].fd # "none" /\ ~sock[c].fin /\ ~sock[c].rst
    /\ sock' = [sock EXCEPT ![c].fin = TRUE]
    /\ UNCHANGED <<backlog, peer, objects, loopVars, log>>

(* RST: what was written and not received is lost, what was received can    *)
(* still be read.                                                            *)
PeerReset(c) ==
    /\ Serving
    /\ sock[c].fd # "none" /\ ~sock[c].rst
    /\ sock' = [sock EXCEPT ![c].rst = TRUE,
                            ![c].snd = <<>>,
                            ![c].err = IF sock[c].fin THEN "EPIPE" ELSE "ECONNRESET"]
    /\ UNCHANGED <<backlog, peer, objects, loopVars, log>>

PeerStep ==
    \E c \in Conns :
        \/ Connect(c)
        \/ PeerSend(c)
        \/ PeerRecv(c)
        \/ PeerClose(c)
        \/ PeerReset(c)

-----------------------------------------------------------------------------
(* The loop (EventLoop::loop, Epoller::poll, Channel::handleEvents). *)

NextStage(s) == IF s = "HUP" THEN "IN" ELSE "OUT"
AfterStage(s) == IF s = "OUT" THEN "dispatch" ELSE "handle"

(* abort(), a failed assert or a signal: nothing else matters any more. *)
Crash(why) ==
    /\ pc' = "dead"
    /\ cause' = why
    /\ UNCHANGED <<stage, cur, who, caller, active, quit, objects, network, log>>

(* Goes on at p, unless the call on the channel ended the process. *)
Goto(p, ch) ==
    /\ pc' = IF ch.fault = "none" THEN p ELSE "dead"
    /\ cause' = IF ch.fault = "none" THEN cause ELSE ch.fault

(* Mutant: listen() does not enable reading on the accepting channel. *)
StartSilent ==
    /\ pc = "setup"
    /\ pc' = "poll"
    /\ UNCHANGED <<objects, network, stage, cur, who, caller, active, quit, cause, log>>

(* TcpServer::start(), Acceptor::listen(), then EventLoop::loop(). *)
Start ==
    /\ pc = "setup"
    /\ LET ch == EnabledReadable(chan[Listener]) IN
         /\ chan' = [chan EXCEPT ![Listener] = ch]
         /\ Goto("poll", ch)
    /\ UNCHANGED <<tcp, tcpConnections, network, stage, cur, who, caller, active,
                   quit, log>>

ReadyChannels == {c \in Channels : Reported(chan[c], Ready(c)) # {}}

(* epoll_wait: every ready channel, as there are fewer than 128 (the batches *)
(* of a full event array are modelled in Poller).                             *)
Poll ==
    /\ pc = "poll"
    /\ ~quit
    /\ ReadyChannels # {}
    /\ active' = ReadyChannels
    /\ chan' = [c \in Channels |->
                  IF c \in ReadyChannels
                  THEN [chan[c] EXCEPT !.revents = Reported(chan[c], Ready(c))]
                  ELSE chan[c]]
    /\ pc' = "dispatch"
    /\ UNCHANGED <<tcp, tcpConnections, network, stage, cur, who, caller, quit,
                   cause, log>>

StartHandle(c) ==
    /\ pc = "dispatch"
    /\ c \in active
    /\ cur' = c
    /\ active' = active \ {c}
    /\ stage' = "HUP"
    /\ pc' = "handle"
    /\ UNCHANGED <<who, caller, quit, cause, objects, network, log>>

EndBatch ==
    /\ pc = "dispatch"
    /\ active = {}
    /\ pc' = IF quit THEN "exit" ELSE "poll"
    /\ UNCHANGED <<stage, cur, who, caller, active, quit, cause, objects, network, log>>

Freed(c) == c # Listener /\ ~tcp[c].live

(* handleEvents() finds the event of stage s in revents_. *)
At(s) ==
    /\ pc = "handle"
    /\ stage = s
    /\ ~Freed(cur)
    /\ s \in chan[cur].revents

(* No such event, no such callback, or nothing left there in freed memory. *)
SkipStage ==
    /\ pc = "handle"
    /\ Freed(cur) \/ stage \notin chan[cur].revents
    /\ stage' = NextStage(stage)
    /\ pc' = AfterStage(stage)
    /\ UNCHANGED <<cur, who, caller, active, quit, cause, objects, network, log>>

(* handleEvents() finds an event in the memory of its freed Channel and calls *)
(* the destroyed callback.                                                    *)
ReadFreedChannel ==
    /\ pc = "handle"
    /\ Freed(cur)
    /\ Crash("wild")

-----------------------------------------------------------------------------
(* Acceptor::accept() and TcpServer::newConnection(), up to the application. *)

Established(c) ==
    LET ch == EnabledReadable(NewChannel) IN
      /\ chan' = [chan EXCEPT ![c] = ch]
      /\ tcp' = [tcp EXCEPT ![c] = [state |-> "CONNECTED", live |-> TRUE,
                                    input |-> <<>>, output |-> <<>>]]
      /\ log' = [log EXCEPT ![c].ups = @ + 1]
      /\ who' = c
      /\ Goto("up", ch)

(* accept4() fails (nothing is queued, or EMFILE) and Sockets::accept asserts, *)
(* or the socket() of TcpConnection::socket_ does.                              *)
AcceptFails ==
    /\ At("IN")
    /\ cur = Listener
    /\ backlog = <<>> \/ FdsInUse + 1 >= MaxFds
    /\ Crash(IF backlog = <<>> \/ FdsInUse >= MaxFds THEN "accept" ELSE "socket")

Accept ==
    /\ At("IN")
    /\ cur = Listener
    /\ backlog # <<>>
    /\ FdsInUse + 1 < MaxFds
    /\ Established(Head(backlog))
    /\ sock' = [sock EXCEPT ![Head(backlog)].fd = "open"]
    /\ backlog' = Tail(backlog)
    /\ UNCHANGED <<tcpConnections, stage, cur, caller, active, quit, peer>>

(* newConnection() inserts the connection after connectionEstablished(). *)
ReturnUp ==
    /\ pc = "up"
    /\ tcpConnections' = tcpConnections \cup {who}
    /\ stage' = NextStage(stage)
    /\ pc' = AfterStage(stage)
    /\ UNCHANGED <<cur, who, caller, active, quit, cause, chan, tcp, network, log>>

-----------------------------------------------------------------------------
(* TcpConnection's handlers. *)

(* handleClose(), up to the application. *)
HandleClose(c) ==
    LET ch == DiabledAllEvents(chan[c]) IN
      /\ chan' = [chan EXCEPT ![c] = ch]
      /\ tcp' = [tcp EXCEPT ![c].state = "DISCONNECTED"]
      /\ log' = [log EXCEPT ![c].downs = @ + 1]
      /\ who' = c
      /\ Goto("down", ch)
      /\ UNCHANGED <<tcpConnections, network, stage, cur, caller, active, quit>>

HangUpEvent ==
    /\ At("HUP")
    /\ cur \in Conns
    /\ HandleClose(cur)

(* Mutant: end of file is treated as an error. *)
ReadResultsNoEnd(s) == IF s.rcv # <<>> THEN 1..Len(s.rcv) ELSE {-1}

(* What readv() may return: data first, then end of file, then an error. *)
ReadResults(s) ==
    IF s.rcv # <<>> THEN 1..Len(s.rcv)
    ELSE IF s.fin \/ (s.rst /\ s.err = "none") THEN {0}
    ELSE {-1}

(* Mutant: the last byte of the read is not counted. *)
ReadBytesShort(c, n) ==
    /\ sock' = [sock EXCEPT ![c].rcv = SubSeq(@, n + 1, Len(@))]
    /\ tcp' = [tcp EXCEPT ![c].input = @ \o SubSeq(sock[c].rcv, 1, n - 1)]
    /\ who' = c
    /\ pc' = "message"
    /\ UNCHANGED <<chan, tcpConnections, backlog, peer, stage, cur, caller, active,
                   quit, cause, log>>

(* readFd() appends what it read; then the application is called. *)
ReadBytes(c, n) ==
    /\ sock' = [sock EXCEPT ![c].rcv = SubSeq(@, n + 1, Len(@))]
    /\ tcp' = [tcp EXCEPT ![c].input = @ \o SubSeq(sock[c].rcv, 1, n)]
    /\ who' = c
    /\ pc' = "message"
    /\ UNCHANGED <<chan, tcpConnections, backlog, peer, stage, cur, caller, active,
                   quit, cause, log>>

(* An error is ignored; it is pending no longer. *)
ReadError(c) ==
    /\ sock' = [sock EXCEPT ![c].err = "none"]
    /\ stage' = NextStage(stage)
    /\ pc' = AfterStage(stage)
    /\ UNCHANGED <<objects, backlog, peer, cur, who, caller, active, quit, cause, log>>

HandleRead ==
    /\ At("IN")
    /\ cur \in Conns
    /\ \E n \in ReadResults(sock[cur]) :
          IF n > 0 THEN ReadBytes(cur, n)
          ELSE IF n = 0 THEN HandleClose(cur)
          ELSE ReadError(cur)

(* ~TcpConnection(): the channel, the buffers and socket_ go with it. *)
Destroyed(t) == [t EXCEPT !.live = FALSE, !.input = <<>>, !.output = <<>>]

(* The temporary shared_ptr of the callback goes: it is the last one if the  *)
(* application had the connection removed.                                   *)
ReturnMessage ==
    /\ pc = "message"
    /\ tcp' = IF who \in tcpConnections THEN tcp
              ELSE [tcp EXCEPT ![who] = Destroyed(@)]
    /\ stage' = NextStage(stage)
    /\ pc' = AfterStage(stage)
    /\ UNCHANGED <<cur, who, caller, active, quit, cause, chan, tcpConnections,
                   network, log>>

(* shutdown(): SHUT_WR on socket_, which is not the connection: ENOTCONN. *)
ShutsDown(c) == tcp[c].state # "CONNECTED" /\ ~IsWriting(chan[c])

(* Mutant: the drained channel goes on watching EPOLLOUT. *)
DrainedKeeps(c, rest) == chan[c]

(* Mutant: the drained channel watches nothing. *)
DrainedDeaf(c, rest) == IF rest = <<>> THEN DiabledAllEvents(chan[c]) ELSE chan[c]

(* Drained, the channel watches EPOLLOUT no longer. *)
Drained(c, rest) == IF rest = <<>> THEN DisabledWritable(chan[c]) ELSE chan[c]

(* The write of pending output. *)
WritePending(c) ==
    LET rest == Unwritten(sock[c], tcp[c].output)
        ch == Drained(c, rest)
    IN /\ sock' = [sock EXCEPT ![c] = AfterWrite(@, tcp[c].output)]
       /\ tcp' = [tcp EXCEPT ![c].output = rest]
       /\ chan' = [chan EXCEPT ![c] = ch]
       /\ stage' = NextStage(stage)
       /\ IF rest = <<>> /\ tcp[c].state = "DISCONNECTING"
          THEN pc' = "dead" /\ cause' = "shutdown"
          ELSE Goto(AfterStage(stage), ch)
       /\ UNCHANGED <<tcpConnections, backlog, peer, cur, who, caller, active, quit, log>>

HandleWrite ==
    /\ At("OUT")
    /\ IF ~IsWriting(chan[cur])
       THEN /\ stage' = NextStage(stage)
            /\ pc' = AfterStage(stage)
            /\ UNCHANGED <<cur, who, caller, active, quit, cause, objects, network, log>>
       ELSE IF RaisesSigpipe(sock[cur]) THEN Crash("sigpipe")
       ELSE IF Accepts(sock[cur], Len(tcp[cur].output)) = 0 THEN Crash("write")
       ELSE WritePending(cur)

-----------------------------------------------------------------------------
(* TcpServer::removeConnection() and TcpConnection::connectionDestroy().      *)

(* Channel::remove(), then back to the caller.  Back in handleEvents(), by    *)
(* way of handleClose(), no shared_ptr is left.                               *)
RemoveChannel(c, back) ==
    LET ch == Remove(chan[c])
        gone == back = "handle" /\ ch.fault = "none"
    IN /\ chan' = [chan EXCEPT ![c] = ch]
       /\ tcp' = IF gone THEN [tcp EXCEPT ![c] = Destroyed(@)] ELSE tcp
       /\ stage' = IF back = "handle" THEN NextStage(stage) ELSE stage
       /\ Goto(IF back = "handle" THEN AfterStage(stage) ELSE back, ch)

(* Mutant: DOWN is told whatever the connection's state. *)
ConnectionDestroyAlways(c, back) ==
    LET ch == DiabledAllEvents(chan[c]) IN
      /\ chan' = [chan EXCEPT ![c] = ch]
      /\ tcp' = [tcp EXCEPT ![c].state = "DISCONNECTED"]
      /\ log' = [log EXCEPT ![c].downs = @ + 1]
      /\ caller' = back
      /\ Goto("removed", ch)
      /\ UNCHANGED stage

(* A connection that is still CONNECTED is told DOWN here. *)
ConnectionDestroy(c, back) ==
    IF tcp[c].state = "CONNECTED"
    THEN LET ch == DiabledAllEvents(chan[c]) IN
           /\ chan' = [chan EXCEPT ![c] = ch]
           /\ tcp' = [tcp EXCEPT ![c].state = "DISCONNECTED"]
           /\ log' = [log EXCEPT ![c].downs = @ + 1]
           /\ caller' = back
           /\ Goto("removed", ch)
           /\ UNCHANGED stage
    ELSE RemoveChannel(c, back) /\ UNCHANGED <<caller, log>>

(* Mutant: the connection stays in the map. *)
RemoveConnectionKept(c, back) ==
    /\ ConnectionDestroy(c, back)
    /\ UNCHANGED <<tcpConnections, network, cur, who, active, quit>>

RemoveConnection(c, back) ==
    /\ tcpConnections' = tcpConnections \ {c}
    /\ ConnectionDestroy(c, back)
    /\ UNCHANGED <<network, cur, who, active, quit>>

(* handleClose() after the application was told: closeCallback_. *)
ReturnDown ==
    /\ pc = "down"
    /\ RemoveConnection(who, "handle")

(* connectionDestroy() after the application was told. *)
ReturnRemoved ==
    /\ pc = "removed"
    /\ RemoveChannel(who, caller)
    /\ UNCHANGED <<tcpConnections, network, cur, who, caller, active, quit, log>>

-----------------------------------------------------------------------------
(* The application's calls in a callback, on the callback's connection. *)

May(call) ==
    /\ \/ pc = "up" /\ call \in OnUp
       \/ pc = "message" /\ call \in OnMessage
       \/ pc \in {"down", "removed"} /\ call \in OnDown
    /\ ChecksConnected /\ call \in {"send", "echo", "shutdown"} =>
          tcp[who].state = "CONNECTED"

(* Mutant: send() writes although output is pending. *)
WritesAlways(c) == TRUE

(* send() writes to the socket itself if nothing is pending. *)
WritesDirectly(c) == ~IsWriting(chan[c]) /\ tcp[c].output = <<>>

(* Mutant: the channel is not told of the pending output. *)
WatchingNothing(c, rest) == chan[c]

(* What is left over is for handleWrite(). *)
Watching(c, rest) ==
    IF rest # <<>> /\ ~IsWriting(chan[c]) THEN EnabledWritable(chan[c]) ELSE chan[c]

(* TcpConnection::send(): the rest of a short write is appended to the        *)
(* output.  It does not look at the connection's state.  `left' is the input  *)
(* that the caller leaves.                                                     *)
SendBytes(c, bytes, left) ==
    LET direct == WritesDirectly(c)
        rest == IF direct THEN Unwritten(sock[c], bytes) ELSE bytes
        ch == Watching(c, rest)
    IN IF direct /\ RaisesSigpipe(sock[c]) THEN Crash("sigpipe")
       ELSE /\ sock' = IF direct THEN [sock EXCEPT ![c] = AfterWrite(@, bytes)] ELSE sock
            /\ tcp' = [tcp EXCEPT ![c].output = @ \o rest, ![c].input = left]
            /\ chan' = [chan EXCEPT ![c] = ch]
            /\ log' = [log EXCEPT ![c].asked = @ \o bytes]
            /\ Goto(pc, ch)
            /\ UNCHANGED <<tcpConnections, backlog, peer, stage, cur, who, caller,
                           active, quit>>

UserSend ==
    /\ May("send")
    /\ Len(log[who].asked) + Len(Message) <= MaxOut
    /\ SendBytes(who, Message, tcp[who].input)

(* conn->send(buf->retrieveAsString()) *)
UserEcho ==
    /\ May("echo")
    /\ tcp[who].input # <<>>
    /\ SendBytes(who, tcp[who].input, <<>>)

(* buf->retrieveAsString() *)
UserRetrieve ==
    /\ May("retrieve")
    /\ tcp[who].input # <<>>
    /\ tcp' = [tcp EXCEPT ![who].input = <<>>]
    /\ UNCHANGED <<chan, tcpConnections, network, loopVars, log>>

(* TcpConnection::shutdown(): nothing happens on a connected connection. *)
UserShutdown ==
    /\ May("shutdown")
    /\ ~log[who].shut
    /\ log' = [log EXCEPT ![who].shut = TRUE]
    /\ IF ShutsDown(who)
       THEN pc' = "dead" /\ cause' = "shutdown"
       ELSE UNCHANGED <<pc, cause>>
    /\ UNCHANGED <<objects, network, stage, cur, who, caller, active, quit>>

UserRemove ==
    /\ May("remove")
    /\ RemoveConnection(who, pc)

UserQuit ==
    /\ May("quit")
    /\ quit' = TRUE
    /\ UNCHANGED <<objects, network, pc, stage, cur, who, caller, active, cause, log>>

UserStep ==
    \/ UserSend
    \/ UserEcho
    \/ UserRetrieve
    \/ UserShutdown
    \/ UserRemove
    \/ UserQuit

LoopStep ==
    \/ Start
    \/ Poll
    \/ \E c \in Channels : StartHandle(c)
    \/ EndBatch
    \/ SkipStage
    \/ ReadFreedChannel
    \/ AcceptFails
    \/ Accept
    \/ ReturnUp
    \/ HangUpEvent
    \/ HandleRead
    \/ ReturnMessage
    \/ HandleWrite
    \/ ReturnDown
    \/ ReturnRemoved

Next == LoopStep \/ UserStep \/ PeerStep

(* The one thread is scheduled and every callback returns.  No peer has to    *)
(* send, close or reset, and no application has to make a call.               *)
Spec == Init /\ [][Next]_vars /\ WF_vars(LoopStep)

(* For what needs the peers: they go on reading what they were sent. *)
ReadingPeers == \A c \in Conns : WF_vars(PeerRecv(c))
FairSpec == Spec /\ ReadingPeers

-----------------------------------------------------------------------------
Ended == pc \in {"exit", "dead"}

(* status_ and events_ of every channel say what epoll watches, whatever the  *)
(* handlers and the application did.  (Epoller.cpp:56-106)                    *)
EpollMirror == \A c \in Channels : Mirrors(chan[c])

(* The thread never sleeps in epoll_wait() on work that is there: it is told  *)
(* of a connection that waits in the queue, and, for a connected one, of      *)
(* bytes to read, of the peer's end and of room for its pending output,       *)
(* whatever was watched and unwatched before.                                 *)
(* (Acceptor.cpp:25, TcpConnection.cpp:43-112, 141-165, Epoller.cpp:28-53)    *)
NobodyWaits ==
    pc = "poll" =>
        /\ backlog # <<>> => Listener \in ReadyChannels
        /\ \A c \in Conns :
              /\ tcp[c].state = "CONNECTED"
              /\ \/ sock[c].rcv # <<>> \/ sock[c].fin \/ sock[c].rst
                 \/ tcp[c].output # <<>> /\ Len(sock[c].snd) < SndBuf
              => c \in ReadyChannels

(* epoll never holds the pointer of a freed Channel, and no freed Channel     *)
(* waits in activeChannels_: connectionDestroy() removes the channel before   *)
(* the last shared_ptr goes.  (TcpServer.cpp:48-53)                           *)
NoDanglingChannel ==
    \A c \in Conns :
        ~tcp[c].live => ~chan[c].added /\ c \notin active

(* The connections that tcpConnections_ owns are, between two callbacks, the  *)
(* ones that live, and exactly those that are CONNECTED and that the          *)
(* application was told are UP and not yet DOWN.  (TcpServer.cpp:43-52)       *)
MapIsConnected ==
    pc \in {"poll", "dispatch", "handle"} =>
        \A c \in Conns :
            /\ c \in tcpConnections <=> tcp[c].live
            /\ c \in tcpConnections <=> tcp[c].live /\ tcp[c].state = "CONNECTED"
            /\ c \in tcpConnections <=> log[c].ups = 1 /\ log[c].downs = 0

(* The application is told UP once and DOWN at most once, and gets no message *)
(* before UP or after DOWN, unless it removed the connection in the message   *)
(* callback itself.  (TcpConnection.cpp:43-78, 115-123)                       *)
ToldOnce ==
    /\ \A c \in Conns : log[c].ups <= 1 /\ log[c].downs <= log[c].ups
    /\ pc = "message" =>
          /\ log[who].ups = 1
          /\ "remove" \notin OnMessage => log[who].downs = 0

(* The channel watches EPOLLOUT exactly while output is pending on a          *)
(* connected connection: watching it with nothing to write would make         *)
(* handleWrite() abort, not watching it would leave the output there.         *)
(* (TcpConnection.cpp:80-112, 141-165)                                        *)
WritingIffPending ==
    \A c \in Conns :
        tcp[c].live /\ tcp[c].state = "CONNECTED" =>
            (IsWriting(chan[c]) <=> tcp[c].output # <<>>)

(* Every byte the application sent is at the peer, in the kernel or in the    *)
(* output buffer, once and in order, across direct writes, short writes and   *)
(* handleWrite(); after a reset or the end of the object the peer still has a *)
(* prefix.  (TcpConnection.cpp:80-102, 134-166)                               *)
OutputConserved ==
    \A c \in Conns :
        /\ tcp[c].live /\ ~sock[c].rst =>
              log[c].asked = peer[c].got \o sock[c].snd \o tcp[c].output
        /\ peer[c].got = SubSeq(log[c].asked, 1, Len(peer[c].got))

(* The process only dies of what its environment did: a peer's reset, the     *)
(* descriptors used up, or a freed Channel that handleEvents() goes on        *)
(* reading.  No assertion fails, epoll_ctl never does, and handleWrite()      *)
(* never meets a full socket or an empty buffer.                              *)
(* (Channel.cpp:59, Epoller.cpp:93, TcpConnection.cpp:105, 130)               *)
DeathCauses ==
    /\ cause \notin {"assert", "epoll_ctl", "shutdown"}
    /\ cause \in {"write", "sigpipe"} => \E c \in Conns : sock[c].rst
    /\ cause \in {"accept", "socket"} => FdsInUse + 1 >= MaxFds
    /\ cause = "wild" => Freed(cur)

(* An echo server returns what the peer sent, in order, however the bytes     *)
(* were cut into reads: what it sent, what waits in the input buffer and what *)
(* waits in the kernel are together the peer's bytes.                         *)
(* (EchoServerTest.cpp:35, TcpConnection.cpp:66-73)                           *)
EchoInOrder ==
    \A c \in Conns :
        tcp[c].live =>
            log[c].asked \o tcp[c].input \o sock[c].rcv = [k \in 1..peer[c].sent |-> k]

(* A connection whose peer closed or reset is removed and freed: the FIN is   *)
(* read after all the data before it.  (TcpConnection.cpp:66-78, 115-123)     *)
ClosedIsRemoved ==
    \A c \in Conns :
        sock[c].fd = "open" /\ (sock[c].fin \/ sock[c].rst)
          ~> ~tcp[c].live \/ Ended

(* One accept per event is enough: whoever waits in the queue is accepted.    *)
(* (Acceptor.cpp:25-42)                                                       *)
QueuedIsAccepted ==
    \A c \in Conns : sock[c].fd = "queued" ~> sock[c].fd = "open" \/ Ended

(* Output that was left over from a short write is written, as long as the    *)
(* peer reads and the connection lives.  (TcpConnection.cpp:80-102, 158-165)  *)
PendingIsWritten ==
    \A c \in Conns : tcp[c].output # <<>> ~> tcp[c].output = <<>> \/ Ended

(* An application that removes the connection in its UP callback erases       *)
(* nothing, as newConnection() inserts it afterwards: it stays in the map.    *)
(* Between callbacks, what is in the map and not CONNECTED is such a          *)
(* connection, told DOWN, never read and out of epoll; everything else in it  *)
(* is watched, and every connection that lives is in it.                      *)
(* (TcpServer.cpp:44-45, 48-53)                                               *)
RemovedInUp(c) ==
    /\ tcp[c].state = "DISCONNECTED" /\ log[c].downs = 1
    /\ tcp[c].input = <<>> /\ ~chan[c].added /\ c \notin active

MapAfterEarlyRemoval ==
    pc \in {"poll", "dispatch", "handle"} =>
        \A c \in Conns :
            /\ c \in tcpConnections <=> tcp[c].live
            /\ c \in tcpConnections =>
                  \/ tcp[c].state = "CONNECTED" /\ chan[c].added /\ log[c].downs = 0
                  \/ RemovedInUp(c)

(* handleEvents() never goes on with a freed Channel.  The version 1.4 notes  *)
(* put the invalid read there down to an unregistered write callback          *)
(* (doc/Notes_for_Version_1_4.md:274).                                        *)
NoFreedAccess == pc = "handle" => ~Freed(cur)

(* A connection's descriptor is closed when the TcpConnection's life ends     *)
(* (doc/Notes_for_Version_1_4.md:42).                                         *)
FdClosedWithConnection ==
    \A c \in Conns :
        log[c].ups = 1 /\ ~tcp[c].live => sock[c].fd # "open"

(* Channel.cpp:59 asserts that a removed channel watches nothing. *)
RemovedWatchesNothing == cause # "assert"

(* The server keeps the promise of Connection to its application, for every   *)
(* connection: UP, messages and DOWN in this order and once, the peer's bytes *)
(* in order and only in between, and what is sent reaches the peer in order.  *)
(* (TcpConnection.cpp:43-166, TcpServer.cpp:33-53)                            *)
Promise ==
    INSTANCE Connection WITH
        Burst <- MaxIn,
        told <- [c \in Conns |-> <<log[c].ups, log[c].downs>>],
        read <- [c \in Conns |-> peer[c].sent - Len(sock[c].rcv)],
        input <- [c \in Conns |-> tcp[c].input],
        asked <- [c \in Conns |-> log[c].asked],
        got <- [c \in Conns |-> peer[c].got]
ConnectionSpec == Promise!Spec
=============================================================================
