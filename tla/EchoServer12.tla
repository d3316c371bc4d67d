---------------------------- MODULE EchoServer12 ----------------------------
(***************************************************************************)
(* The echo server of v1.2/src: epoll reports descriptors, Epoller keeps a *)
(* Channel for each in channelsMap and hands pointers to them to           *)
(* EventLoop, which runs their callbacks.  A callback may erase its own    *)
(* Channel, and a later one may insert another under the same descriptor,  *)
(* while pointers of the same batch still wait in activeChannels_: a       *)
(* Channel is named by its descriptor and by the connection it is of.      *)
(***************************************************************************)
EXTENDS Peers

CONSTANT BufferSize         \* bytes of one recv()

VARIABLES
    pc,             \* in epoll_wait(), in a batch, or dead
    channelsMap,    \* Epoller::channelsMap, by descriptor
    activeChannels, \* the pointers still to handle
    echoed          \* history: the bytes that the sends took

vars == <<network, pc, channelsMap, activeChannels, echoed>>

serverSock == 0
Descriptors == Fds \cup {serverSock}

ChannelType == [readCallback : {"none", "acceptConnection", "onMessage"},
                of : Peers \cup {0}]
NoCallbacks == [readCallback |-> "none", of |-> 0]

TypeOK ==
    /\ NetworkTypeOK
    /\ pc \in {"wait", "batch", "dead"}
    /\ DOMAIN channelsMap \subseteq Descriptors
    /\ \A f \in DOMAIN channelsMap : channelsMap[f] \in ChannelType
    /\ activeChannels \subseteq Descriptors \X (Peers \cup {0})
    /\ echoed \in [Peers -> Bytes]

(* Epoller's constructor registers serverSock. *)
Init ==
    /\ NetworkInit
    /\ pc = "wait"
    /\ channelsMap = [f \in {serverSock} |-> [readCallback |-> "acceptConnection", of |-> 0]]
    /\ activeChannels = {}
    /\ echoed = [p \in Peers |-> <<>>]

ReadyFds ==
    {f \in UsedFds : Readable(sock[Owner(f)])}
      \cup {f \in {serverSock} : backlog # <<>>}

(* map::insert() and operator[] change nothing where the key is there. *)
Inserted(fds, channel) ==
    [f \in DOMAIN channelsMap \cup fds |->
       IF f \in DOMAIN channelsMap THEN channelsMap[f] ELSE channel]

(* Epoller::poll(): channelsMap[fd] makes a Channel where there is none. *)
Poll ==
    /\ pc = "wait"
    /\ ReadyFds # {}
    /\ pc' = "batch"
    /\ channelsMap' = Inserted(ReadyFds, NoCallbacks)
    /\ activeChannels' = {<<f, channelsMap'[f].of>> : f \in ReadyFds}
    /\ UNCHANGED <<network, echoed>>

(* A failed assertion or SIGPIPE. *)
Die ==
    /\ pc' = "dead"
    /\ UNCHANGED <<network, channelsMap, echoed>>

RegisterFd(f, p) == Inserted({f}, [readCallback |-> "onMessage", of |-> p])

(* Sockets::accept() asserts that accept4() found a descriptor. *)
AcceptFails == FreeFds = {}

AcceptConnection ==
    IF AcceptFails THEN Die
    ELSE /\ sock' = Accepted(LowestFree)
         /\ backlog' = Tail(backlog)
         /\ channelsMap' = RegisterFd(LowestFree, Head(backlog))
         /\ UNCHANGED <<sent, pc, echoed>>

(* Mutant: every channel of the batch is erased with it. *)
EraseBatch(f) == [g \in {serverSock} |-> channelsMap[g]]

Erase(f) == [g \in DOMAIN channelsMap \ {f} |-> channelsMap[g]]

Buffer(s, n) == SubSeq(s.rcv, 1, n)

(* recv(), and what is made of its result. *)
OnMessage(f) ==
    LET p == Owner(f)
        n == Received(f, BufferSize)
        buffer == Buffer(sock[p], n)
        s == AfterRecv(sock[p], n)
    IN IF n <= 0
       THEN /\ channelsMap' = Erase(f)
            /\ sock' = Closing(f, sock)
            /\ UNCHANGED <<backlog, sent, pc, echoed>>
       ELSE IF RaisesSigpipe(s) THEN Die
       ELSE /\ sock' = [sock EXCEPT ![p] = AfterSend(s, buffer)]
            /\ echoed' = [echoed EXCEPT ![p] = @ \o SubSeq(buffer, 1, Taken(s, buffer))]
            /\ UNCHANGED <<backlog, sent, pc, channelsMap>>

(* The pointer leads to the Channel that it was taken from. *)
Valid(ptr) ==
    ptr[1] \in DOMAIN channelsMap /\ channelsMap[ptr[1]].of = ptr[2]

(* Channel::handleEvents(): revents_ has EPOLLIN, as nothing else is watched  *)
(* and every end or error of a connection comes with it.                      *)
HandleEvents(ptr) ==
    /\ pc = "batch"
    /\ ptr \in activeChannels
    /\ Valid(ptr)
    /\ activeChannels' = activeChannels \ {ptr}
    /\ CASE channelsMap[ptr[1]].readCallback = "acceptConnection" -> AcceptConnection
         [] channelsMap[ptr[1]].readCallback = "onMessage" -> OnMessage(ptr[1])
         [] OTHER -> UNCHANGED <<network, pc, channelsMap, echoed>>

EndBatch ==
    /\ pc = "batch"
    /\ activeChannels = {}
    /\ pc' = "wait"
    /\ UNCHANGED <<network, channelsMap, activeChannels, echoed>>

LoopStep ==
    \/ Poll
    \/ \E ptr \in activeChannels : HandleEvents(ptr)
    \/ EndBatch

PeersMove == PeerStep /\ UNCHANGED <<pc, channelsMap, activeChannels, echoed>>

(* The loop goes on; a peer does what it likes. *)
Next == LoopStep \/ (pc # "dead" /\ PeersMove)
Spec == Init /\ [][Next]_vars /\ WF_vars(LoopStep)

-----------------------------------------------------------------------------
(* channelsMap has a channel with its callback for every open descriptor, of  *)
(* the connection that is behind it now, and for no other: a descriptor that  *)
(* is used again never meets the channel of its last use.                     *)
(* (Epoller.cpp:41-51, 69-76)                                                 *)
MapMirrorsKernel ==
    /\ DOMAIN channelsMap = UsedFds \cup {serverSock}
    /\ \A f \in UsedFds :
          channelsMap[f] = [readCallback |-> "onMessage", of |-> Owner(f)]

(* No pointer in activeChannels_ dangles: a callback erases no channel but    *)
(* the one it runs on.  (Epoller.cpp:35, 69, 75; EventLoop.cpp:18-22)         *)
PointersValid == pc = "batch" => \A ptr \in activeChannels : Valid(ptr)
=============================================================================
