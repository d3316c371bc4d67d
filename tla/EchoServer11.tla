---------------------------- MODULE EchoServer11 ----------------------------
(***************************************************************************)
(* The echo server of v1.1/src: the loop of v1.0 in the classes Sockets,   *)
(* Epoller and EventLoop.  Epoller::poll() waits, accepts, receives and    *)
(* sends; every path that closes now closes the descriptor of the event.   *)
(***************************************************************************)
EXTENDS Peers

CONSTANT BufferSize         \* bytes of one recv()

VARIABLES
    pc,             \* in epoll_wait(), in a batch, or dead
    listenEvents,   \* the descriptors of listenEvents_[i] and after
    echoed          \* history: the bytes that the sends took

vars == <<network, pc, listenEvents, echoed>>

serverSock == 0

TypeOK ==
    /\ NetworkTypeOK
    /\ pc \in {"wait", "batch", "dead"}
    /\ listenEvents \subseteq Fds \cup {serverSock}
    /\ echoed \in [Peers -> Bytes]

(* main(), the constructors, Sockets::bind() and listen(). *)
Init ==
    /\ NetworkInit
    /\ pc = "wait"
    /\ listenEvents = {}
    /\ echoed = [p \in Peers |-> <<>>]

(* Mutant: only serverSock is registered. *)
RegisteredServerOnly == {serverSock}

(* registerFd() for serverSock and every accepted descriptor. *)
Registered == UsedFds \cup {serverSock}

Ready(f) == IF f = serverSock THEN backlog # <<>> ELSE Readable(sock[Owner(f)])

(* epoll_wait(); when its 1000 ms end without an event it is called again. *)
Poll ==
    /\ pc = "wait"
    /\ \E f \in Registered : Ready(f)
    /\ pc' = "batch"
    /\ listenEvents' = {f \in Registered : Ready(f)}
    /\ UNCHANGED <<network, echoed>>

Take(f) ==
    /\ pc = "batch"
    /\ f \in listenEvents
    /\ listenEvents' = listenEvents \ {f}

(* A failed assertion or SIGPIPE. *)
Die ==
    /\ pc' = "dead"
    /\ UNCHANGED <<network, echoed>>

(* Sockets::accept() asserts that accept4() found a descriptor. *)
AcceptFails == FreeFds = {}

Accept ==
    /\ Take(serverSock)
    /\ IF AcceptFails THEN Die
       ELSE /\ sock' = Accepted(LowestFree)
            /\ backlog' = Tail(backlog)
            /\ UNCHANGED <<sent, pc, echoed>>

(* Mutant: after an answer of a full buffer the connection is closed. *)
EndsFull(n) == n <= 0 \/ n = BufferSize

(* An error and end of file close the descriptor. *)
Ends(n) == n <= 0

RecvClose(f) ==
    /\ Take(f)
    /\ f # serverSock
    /\ Ends(Received(f, BufferSize))
    /\ sock' = Closing(f, sock)
    /\ UNCHANGED <<backlog, sent, pc, echoed>>

Buffer(s, n) == SubSeq(s.rcv, 1, n)

RecvEcho(f) ==
    /\ Take(f)
    /\ f # serverSock
    /\ ~Ends(Received(f, BufferSize))
    /\ LET p == Owner(f)
           n == Received(f, BufferSize)
           buffer == Buffer(sock[p], n)
           s == AfterRecv(sock[p], n)
       IN IF RaisesSigpipe(s) THEN Die
          ELSE /\ sock' = [sock EXCEPT ![p] = AfterSend(s, buffer)]
               /\ echoed' = [echoed EXCEPT ![p] = @ \o SubSeq(buffer, 1, Taken(s, buffer))]
               /\ UNCHANGED <<backlog, sent, pc>>

EndBatch ==
    /\ pc = "batch"
    /\ listenEvents = {}
    /\ pc' = "wait"
    /\ UNCHANGED <<network, listenEvents, echoed>>

LoopStep ==
    \/ Poll
    \/ Accept
    \/ \E f \in Fds : RecvClose(f) \/ RecvEcho(f)
    \/ EndBatch

PeersMove == PeerStep /\ UNCHANGED <<pc, listenEvents, echoed>>

(* The loop goes on; a peer does what it likes. *)
Next == LoopStep \/ (pc # "dead" /\ PeersMove)
Spec == Init /\ [][Next]_vars /\ WF_vars(LoopStep)

-----------------------------------------------------------------------------
(* A batch is never stale: no step of one event closes, reuses or empties the *)
(* descriptor of an event after it, so that no recv() finds nothing.          *)
(* (Epoller.cpp:32-66)                                                        *)
EventsAreCurrent ==
    pc = "batch" => \A f \in listenEvents : f \in Registered /\ Ready(f)
=============================================================================
