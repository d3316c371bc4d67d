------------------------------- MODULE Peers --------------------------------
(***************************************************************************)
(* What the servers of v1.0 to v1.5 live among: the kernel's sockets,      *)
(* numbered by the lowest free descriptor, and the peers.  The operators   *)
(* say what the system calls do; the actions are the peers', whose packets *)
(* arrive at any moment.  The servers add their own steps.                 *)
(***************************************************************************)
EXTENDS Integers, Sequences, FiniteSets

CONSTANTS
    Peers,      \* who may connect, numbered
    Fds,        \* the descriptors left to the process for connections
    MaxIn,      \* bound: bytes a peer sends
    SndBuf,     \* bytes the kernel takes before a send is short
    Backlog     \* connections that wait for accept()

VARIABLES
    sock,       \* the kernel's sockets
    backlog,    \* the connections to accept
    sent        \* how many bytes each peer has sent

network == <<sock, backlog, sent>>

Bytes == Seq(Nat \ {0})
SocketType == [at : {"away", "queued", "open", "closed"}, fd : Fds \cup {0},
               rcv : Bytes, snd : Bytes, fin : BOOLEAN, rst : BOOLEAN,
               err : {"none", "ECONNRESET", "EPIPE"}]

NetworkTypeOK ==
    /\ sock \in [Peers -> SocketType]
    /\ backlog \in Seq(Peers)
    /\ sent \in [Peers -> Nat]

NetworkInit ==
    /\ sock = [p \in Peers |-> [at |-> "away", fd |-> 0, rcv |-> <<>>, snd |-> <<>>,
                                fin |-> FALSE, rst |-> FALSE, err |-> "none"]]
    /\ backlog = <<>>
    /\ sent = [p \in Peers |-> 0]

-----------------------------------------------------------------------------
(* The system calls. *)

UsedFds == {sock[p].fd : p \in {q \in Peers : sock[q].at = "open"}}
FreeFds == Fds \ UsedFds
LowestFree == CHOOSE f \in FreeFds : \A g \in FreeFds : f <= g

(* The connection behind an open descriptor. *)
Owner(f) == CHOOSE p \in Peers : sock[p].at = "open" /\ sock[p].fd = f

Accepted(f) == [sock EXCEPT ![Head(backlog)].at = "open", ![Head(backlog)].fd = f]

Readable(s) == s.rcv # <<>> \/ s.fin \/ s.rst
Writable(s) == Len(s.snd) < SndBuf \/ s.rst

(* recv(): data first, then end of file, then an error (which it consumes),  *)
(* at once if nothing is open there.                                          *)
RecvResult(s, size) ==
    IF s.rcv # <<>> THEN IF Len(s.rcv) < size THEN Len(s.rcv) ELSE size
    ELSE IF s.fin \/ (s.rst /\ s.err = "none") THEN 0
    ELSE -1
Received(f, size) == IF f \in UsedFds THEN RecvResult(sock[Owner(f)], size) ELSE -1
AfterRecv(s, n) ==
    IF n > 0 THEN [s EXCEPT !.rcv = SubSeq(@, n + 1, Len(@))]
    ELSE IF n = 0 THEN s
    ELSE [s EXCEPT !.err = "none"]

(* A send raises SIGPIPE on a reset connection, but for the one that returns *)
(* the pending ECONNRESET.                                                    *)
RaisesSigpipe(s) == s.rst /\ s.err # "ECONNRESET"
Taken(s, bytes) ==
    IF s.rst THEN 0
    ELSE IF Len(bytes) <= SndBuf - Len(s.snd) THEN Len(bytes) ELSE SndBuf - Len(s.snd)
AfterSend(s, bytes) ==
    [s EXCEPT !.snd = @ \o SubSeq(bytes, 1, Taken(s, bytes)),
              !.err = IF s.rst THEN "none" ELSE @]

(* close(): what the peer gets after it is not followed any further.  It     *)
(* fails if nothing is open there.                                            *)
AfterClose(s) == [s EXCEPT !.at = "closed", !.fd = 0, !.rcv = <<>>, !.snd = <<>>,
                           !.err = "none"]
Closing(f, socks) ==
    IF f \in UsedFds THEN [socks EXCEPT ![Owner(f)] = AfterClose(@)] ELSE socks

-----------------------------------------------------------------------------
(* The peers. *)

Alive(p) == sock[p].at \in {"queued", "open"}

(* The peers are alike: they come in the order of their numbers. *)
Connect(p) ==
    /\ sock[p].at = "away"
    /\ \A q \in Peers : q < p => sock[q].at # "away"
    /\ Len(backlog) < Backlog
    /\ sock' = [sock EXCEPT ![p].at = "queued"]
    /\ backlog' = Append(backlog, p)
    /\ UNCHANGED sent

(* The k-th byte that a peer sends is the number k. *)
PeerSend(p) ==
    /\ Alive(p) /\ ~sock[p].fin /\ ~sock[p].rst
    /\ sent[p] < MaxIn
    /\ sent' = [sent EXCEPT ![p] = @ + 1]
    /\ sock' = [sock EXCEPT ![p].rcv = Append(@, sent[p] + 1)]
    /\ UNCHANGED backlog

PeerRecv(p) ==
    /\ sock[p].snd # <<>>
    /\ sock' = [sock EXCEPT ![p].snd = Tail(@)]
    /\ UNCHANGED <<backlog, sent>>

(* FIN: the peer sends no more. *)
PeerClose(p) ==
    /\ Alive(p) /\ ~sock[p].fin /\ ~sock[p].rst
    /\ sock' = [sock EXCEPT ![p].fin = TRUE]
    /\ UNCHANGED <<backlog, sent>>

(* RST: what was not received is lost; what was received can still be read. *)
PeerReset(p) ==
    /\ Alive(p) /\ ~sock[p].rst
    /\ sock' = [sock EXCEPT ![p].rst = TRUE,
                            ![p].snd = <<>>,
                            ![p].err = IF sock[p].fin THEN "EPIPE" ELSE "ECONNRESET"]
    /\ UNCHANGED <<backlog, sent>>

PeerStep ==
    \E p \in Peers :
        \/ Connect(p)
        \/ PeerSend(p)
        \/ PeerRecv(p)
        \/ PeerClose(p)
        \/ PeerReset(p)
=============================================================================
