---------------------------- MODULE EchoServer10 ----------------------------
(***************************************************************************)
(* The echo server of v1.0/EchoServer.cpp: one loop around epoll_wait()    *)
(* that accepts, receives and sends on the descriptor of each event, and   *)
(* one variable, connect_sock, for the connection accepted last.  Between  *)
(* two events of a batch the peers go on.                                  *)
(***************************************************************************)
EXTENDS Peers

CONSTANT BufferSize         \* bytes of one recv(): Buffer_Size - 1

VARIABLES
    pc,             \* in epoll_wait(), in a batch, or dead
    events,         \* the descriptors of events[i] and after
    connect_sock,   \* the descriptor accepted last, 0 before the first
    echoed          \* history: the bytes that the sends took

vars == <<network, pc, events, connect_sock, echoed>>

server_sock == 0

TypeOK ==
    /\ NetworkTypeOK
    /\ pc \in {"wait", "batch", "dead"}
    /\ events \subseteq Fds \cup {server_sock}
    /\ connect_sock \in Fds \cup {0}
    /\ echoed \in [Peers -> Bytes]

Init ==
    /\ NetworkInit
    /\ pc = "wait"
    /\ events = {}
    /\ connect_sock = 0
    /\ echoed = [p \in Peers |-> <<>>]

(* addfd() put server_sock and every accepted descriptor under EPOLLIN;      *)
(* closing a descriptor takes it out.                                         *)
ReadyFds ==
    {f \in UsedFds : Readable(sock[Owner(f)])}
      \cup {f \in {server_sock} : backlog # <<>>}

Wait ==
    /\ pc = "wait"
    /\ ReadyFds # {}
    /\ pc' = "batch"
    /\ events' = ReadyFds
    /\ UNCHANGED <<network, connect_sock, echoed>>

Take(f) ==
    /\ pc = "batch"
    /\ f \in events
    /\ events' = events \ {f}

(* A failed assertion or SIGPIPE. *)
Die ==
    /\ pc' = "dead"
    /\ UNCHANGED <<network, connect_sock, echoed>>

(* Mutant: nobody asks whether accept4() found a descriptor. *)
AcceptEventUnasserted ==
    /\ Take(server_sock)
    /\ connect_sock' = IF FreeFds = {} THEN -1 ELSE LowestFree
    /\ sock' = IF FreeFds = {} THEN sock ELSE Accepted(LowestFree)
    /\ backlog' = IF FreeFds = {} THEN backlog ELSE Tail(backlog)
    /\ UNCHANGED <<sent, pc, echoed>>

(* accept4() and addfd(); the assertion after it fails without descriptors. *)
AcceptEvent ==
    /\ Take(server_sock)
    /\ IF FreeFds = {} THEN Die
       ELSE /\ connect_sock' = LowestFree
            /\ sock' = Accepted(LowestFree)
            /\ backlog' = Tail(backlog)
            /\ UNCHANGED <<sent, pc, echoed>>

(* The error path closes connect_sock, not the descriptor of the event. *)
RecvError(f) ==
    /\ Take(f)
    /\ f # server_sock
    /\ Received(f, BufferSize) < 0
    /\ sock' = Closing(connect_sock,
                       IF f \in UsedFds
                       THEN [sock EXCEPT ![Owner(f)] = AfterRecv(@, -1)] ELSE sock)
    /\ UNCHANGED <<backlog, sent, pc, connect_sock, echoed>>

(* Mutant: end of file closes connect_sock too. *)
RecvEndNewest(f) ==
    /\ Take(f)
    /\ f # server_sock
    /\ Received(f, BufferSize) = 0
    /\ sock' = Closing(connect_sock, sock)
    /\ UNCHANGED <<backlog, sent, pc, connect_sock, echoed>>

RecvEnd(f) ==
    /\ Take(f)
    /\ f # server_sock
    /\ Received(f, BufferSize) = 0
    /\ sock' = Closing(f, sock)
    /\ UNCHANGED <<backlog, sent, pc, connect_sock, echoed>>

(* What was received is sent back; the result of send() is ignored. *)
Echo(s, n) == SubSeq(s.rcv, 1, n)

RecvData(f) ==
    /\ Take(f)
    /\ Received(f, BufferSize) > 0
    /\ LET p == Owner(f)
           n == Received(f, BufferSize)
           bytes == Echo(sock[p], n)
           s == AfterRecv(sock[p], n)
       IN IF RaisesSigpipe(s) THEN Die
          ELSE /\ sock' = [sock EXCEPT ![p] = AfterSend(s, bytes)]
               /\ echoed' = [echoed EXCEPT ![p] = @ \o SubSeq(bytes, 1, Taken(s, bytes))]
               /\ UNCHANGED <<backlog, sent, pc, connect_sock>>

EndBatch ==
    /\ pc = "batch"
    /\ events = {}
    /\ pc' = "wait"
    /\ UNCHANGED <<network, events, connect_sock, echoed>>

LoopStep ==
    \/ Wait
    \/ AcceptEvent
    \/ \E f \in Fds : RecvError(f) \/ RecvEnd(f) \/ RecvData(f)
    \/ EndBatch

PeersMove == PeerStep /\ UNCHANGED <<pc, events, connect_sock, echoed>>

(* The loop goes on; a peer does what it likes. *)
Next == LoopStep \/ (pc # "dead" /\ PeersMove)
Spec == Init /\ [][Next]_vars /\ WF_vars(LoopStep)

-----------------------------------------------------------------------------
(* As long as the kernel takes whole buffers, a client that was not reset is  *)
(* answered byte by byte in order, also when its descriptor number was        *)
(* another's before or a stale event was handled on it.  (EchoServer.cpp:126) *)
EchoComplete ==
    \A p \in Peers :
        sock[p].at = "open" /\ ~sock[p].rst =>
            echoed[p] \o sock[p].rcv = [k \in 1..sent[p] |-> k]
=============================================================================
