---------------------------- MODULE EarlyServers ----------------------------
(***************************************************************************)
(* The servers of v1.0 to v1.5 among the same kind of peers, and the loop  *)
(* of v1.3 to v1.5 under any callbacks: one of them, `version', runs.      *)
(* What they promise is stated here for all of them, and by each module    *)
(* for what only its version has.  They share the sockets and `pc'; batch  *)
(* is what epoll_wait reported, chan the channels, map what owns           *)
(* connections or listens, history what was told or sent.                  *)
(***************************************************************************)
EXTENDS Integers, Sequences, FiniteSets

CONSTANTS
    Size,           \* by version: peers, descriptors, bounds, bytes of one read
    Port,           \* v1.3: the acceptor that each peer connects to
    Time,           \* v1.3: what its callback writes
    Greeting,       \* v1.5: what the daytime server sends
    LoopChannels,   \* the loop's channels
    LoopConditions, \* bound: the conditions that arise on them
    MaxEventNums    \* the loop's event array

Versions == {"1.0", "1.1", "1.2", "1.3", "1.4", "1.5"}
Positive == Nat \ {0}

ASSUME SizeAssumption ==
    Size \in [Versions -> [peers : Nat, fds : Nat, maxIn : Nat, sndBuf : Positive,
                           backlog : Positive, read : Positive]]
ASSUME PortAssumption == Port \in [1..Size["1.3"].peers -> {1, 2}]
ASSUME BytesAssumption == {Time, Greeting} \subseteq Seq(Positive) \ {<<>>}
ASSUME LoopAssumption ==
    /\ IsFiniteSet(LoopChannels)
    /\ LoopConditions \subseteq {"IN", "OUT", "HUP"}
    /\ MaxEventNums \in Positive

VARIABLES
    version,                            \* which one runs
    sock, backlog, sent,                \* the kernel's sockets and the peers
    pc, batch, chan, history,           \* every version
    cur, map,                           \* the channel handled, the connections kept
    stage, who, tcp, app,               \* v1.4 and v1.5
    ready, turn, quit                   \* the loop alone

vars == <<version, sock, backlog, sent, pc, batch, chan, history, cur, map,
          stage, who, tcp, app, ready, turn, quit>>

(* What a version does not have. *)
Idle == "idle"
handlers == <<stage, who, tcp, app>>
loop == <<ready, turn, quit>>
NoHandlers == stage = Idle /\ who = Idle /\ tcp = Idle /\ app = Idle
NoLoop == ready = Idle /\ turn = Idle /\ quit = Idle

-----------------------------------------------------------------------------
(* Descriptors 0 to 4 are taken. *)
FdsOf(v) == 5..(4 + Size[v].fds)
PeersOf(v) == 1..Size[v].peers

V10 == INSTANCE EchoServer10 WITH
         Peers <- PeersOf("1.0"), Fds <- FdsOf("1.0"), MaxIn <- Size["1.0"].maxIn,
         SndBuf <- Size["1.0"].sndBuf, Backlog <- Size["1.0"].backlog,
         BufferSize <- Size["1.0"].read,
         events <- batch, connect_sock <- cur, echoed <- history

V11 == INSTANCE EchoServer11 WITH
         Peers <- PeersOf("1.1"), Fds <- FdsOf("1.1"), MaxIn <- Size["1.1"].maxIn,
         SndBuf <- Size["1.1"].sndBuf, Backlog <- Size["1.1"].backlog,
         BufferSize <- Size["1.1"].read,
         listenEvents <- batch, echoed <- history

V12 == INSTANCE EchoServer12 WITH
         Peers <- PeersOf("1.2"), Fds <- FdsOf("1.2"), MaxIn <- Size["1.2"].maxIn,
         SndBuf <- Size["1.2"].sndBuf, Backlog <- Size["1.2"].backlog,
         BufferSize <- Size["1.2"].read,
         channelsMap <- chan, activeChannels <- batch, echoed <- history

V13 == INSTANCE Acceptors13 WITH
         Peers <- PeersOf("1.3"), Fds <- FdsOf("1.3"), MaxIn <- Size["1.3"].maxIn,
         SndBuf <- Size["1.3"].sndBuf, Backlog <- Size["1.3"].backlog,
         Acceptors <- {1, 2},
         listenning <- map, active <- batch, who <- cur, told <- history

V14 == INSTANCE Server14 WITH
         Peers <- PeersOf("1.4"), Fds <- FdsOf("1.4"), MaxIn <- Size["1.4"].maxIn,
         SndBuf <- Size["1.4"].sndBuf, Backlog <- Size["1.4"].backlog,
         ReadSize <- Size["1.4"].read,
         tcpConnections <- map, active <- batch, log <- history

V15 == INSTANCE Server15 WITH
         Peers <- PeersOf("1.5"), Fds <- FdsOf("1.5"), MaxIn <- Size["1.5"].maxIn,
         SndBuf <- Size["1.5"].sndBuf, Backlog <- Size["1.5"].backlog,
         Apps <- {"echo", "daytime", "discard"},
         tcpConnections <- map, active <- batch, log <- history

Loop == INSTANCE EarlyPoller WITH Channels <- LoopChannels, Conditions <- LoopConditions

Init ==
    \/ version = "1.0" /\ V10!Init /\ NoHandlers /\ NoLoop /\ chan = Idle /\ map = Idle
    \/ version = "1.1" /\ V11!Init /\ NoHandlers /\ NoLoop /\ chan = Idle /\ map = Idle
                       /\ cur = Idle
    \/ version = "1.2" /\ V12!Init /\ NoHandlers /\ NoLoop /\ cur = Idle /\ map = Idle
    \/ version = "1.3" /\ V13!Init /\ NoHandlers /\ NoLoop
    \/ version = "1.4" /\ V14!Init /\ NoLoop /\ who = Idle /\ app = Idle
    \/ version = "1.5" /\ V15!Init /\ NoLoop
    \/ version = "loop" /\ Loop!Init /\ who = Idle /\ tcp = Idle /\ app = Idle
                        /\ sock = Idle /\ backlog = Idle /\ sent = Idle
                        /\ history = Idle /\ cur = Idle /\ map = Idle

(* The actions of the version that runs; the rest is not there. *)
Of10(A) == version = "1.0" /\ A /\ UNCHANGED <<version, handlers, loop, chan, map>>
Of11(A) == version = "1.1" /\ A /\ UNCHANGED <<version, handlers, loop, chan, map, cur>>
Of12(A) == version = "1.2" /\ A /\ UNCHANGED <<version, handlers, loop, cur, map>>
Of13(A) == version = "1.3" /\ A /\ UNCHANGED <<version, handlers, loop>>
Of14(A) == version = "1.4" /\ A /\ UNCHANGED <<version, loop, who, app>>
Of15(A) == version = "1.5" /\ A /\ UNCHANGED <<version, loop>>
OfLoop(A) ==
    /\ version = "loop" /\ A
    /\ UNCHANGED <<version, who, tcp, app, sock, backlog, sent, history, cur, map>>

LoopStep ==
    \/ Of10(V10!LoopStep)
    \/ Of11(V11!LoopStep)
    \/ Of12(V12!LoopStep)
    \/ Of13(V13!LoopStep)
    \/ Of14(V14!LoopStep)
    \/ Of15(V15!LoopStep)
    \/ OfLoop(Loop!LoopStep)

Next ==
    \/ Of10(V10!Next)
    \/ Of11(V11!Next)
    \/ Of12(V12!Next)
    \/ Of13(V13!Next)
    \/ Of14(V14!Next)
    \/ Of15(V15!Next)
    \/ OfLoop(Loop!Next)

(* The server's one thread goes on, and its callbacks return. *)
Spec == Init /\ [][Next]_vars /\ WF_vars(LoopStep)

-----------------------------------------------------------------------------
TypeOK ==
    CASE version = "1.0" -> V10!TypeOK
      [] version = "1.1" -> V11!TypeOK
      [] version = "1.2" -> V12!TypeOK
      [] version = "1.3" -> V13!TypeOK
      [] version = "1.4" -> V14!TypeOK
      [] version = "1.5" -> V15!TypeOK
      [] version = "loop" -> Loop!TypeOK

(* No step of a batch leaves a later step something that is gone: events of   *)
(* v1.1 are of open descriptors with something to read, pointers of v1.2 to   *)
(* channels in the map, each event of v1.3 has its connection and a           *)
(* descriptor for it, so that the assertion on accept4() never fails, and     *)
(* from v1.4 on neither epoll nor the batch points to a freed Channel.        *)
(* (v1.1/src/Epoller.cpp:32-66, v1.2/src/Epoller.cpp:35-84,                   *)
(* v1.3/src/Sockets.cpp:48, v1.4/src/TcpConnection.cpp:78-85)                 *)
NothingStale ==
    /\ version = "1.1" => V11!EventsAreCurrent
    /\ version = "1.2" => V12!PointersValid
    /\ version = "1.3" => V13!AcceptSucceeds
    /\ version = "1.4" => V14!NoDanglingChannel
    /\ version = "1.5" => V15!NoDanglingChannel

(* What a version keeps agrees with what there is: the channels of v1.2 with  *)
(* the kernel's descriptors, although numbers are used again; polling_ with   *)
(* the kernel's registrations, whatever callbacks call; the map of v1.4 and   *)
(* v1.5 with the connections that were told UP and not DOWN.                  *)
(* (v1.2/src/Epoller.cpp:41-77, v1.3/src/Epoller.cpp:37-71,                   *)
(* v1.4/src/TcpServer.cpp:31-55, v1.5/src/TcpServer.cpp:30-54)                *)
RecordsAgree ==
    /\ version = "1.2" => V12!MapMirrorsKernel
    /\ version = "loop" => Loop!KernelMirror
    /\ version = "1.4" => V14!MapIsConnected
    /\ version = "1.5" => V15!MapIsConnected

(* Bytes come in order, none is lost or repeated: the answers of v1.0 as long *)
(* as the kernel takes whole buffers, the turn of v1.3's clients, what v1.4   *)
(* tells its application before DOWN, both directions of v1.5's buffers.      *)
(* (v1.0/EchoServer.cpp:123-128, v1.3/src/Acceptor.cpp:25-42,                 *)
(* v1.4/src/TcpConnection.cpp:63-76, v1.5/src/TcpConnection.cpp:65-164)       *)
InOrder ==
    /\ version = "1.0" => V10!EchoComplete
    /\ version = "1.3" => V13!ToldInOrder
    /\ version = "1.4" => V14!ReceivedBeforeDown
    /\ version = "1.5" => V15!OutputConserved /\ V15!EchoInOrder

-----------------------------------------------------------------------------
Clients == UNION {PeersOf(v) : v \in Versions}
At(p) == IF version \in Versions /\ p \in PeersOf(version) THEN sock[p].at ELSE "away"
Answered == version \in {"1.1", "1.2"}
EchoClients == PeersOf("1.1") \cup PeersOf("1.2")

status ==
    [p \in EchoClients |->
       IF ~Answered THEN "away"
       ELSE CASE At(p) = "queued" -> "waiting"
              [] At(p) = "open" -> "served"
              [] OTHER -> At(p)]
said ==
    [p \in EchoClients |->
       IF Answered /\ At(p) # "away" THEN [k \in 1..sent[p] |-> k] ELSE <<>>]
answer ==
    [p \in EchoClients |-> IF Answered /\ At(p) # "away" THEN history[p] ELSE <<>>]
ended ==
    [p \in EchoClients |->
       IF ~Answered \/ At(p) = "away" THEN "no"
       ELSE IF sock[p].rst THEN "cut"
       ELSE IF sock[p].fin THEN "bye" ELSE "no"]

Service == INSTANCE EchoService WITH Clients <- EchoClients

(* As long as the kernel takes whole buffers, v1.1 and v1.2 are echo          *)
(* services: answers in order, nobody let go who did not end, nor before the  *)
(* answer to all he said.                                                     *)
(* (v1.1/src/Epoller.cpp:22-67, v1.2/src/Epoller.cpp:59-92)                   *)
ServiceSpec == Service!Spec

(* A connection of v1.0 whose peer neither closed nor reset it is closed only *)
(* after another one was reset, also when it has bytes to read or an event in *)
(* the same batch: by the error on that one, or on what an event left in the  *)
(* batch finds closed or in use again.  Then it is the one accepted last:     *)
(* nothing older is hit.  (v1.0/EchoServer.cpp:108-121)                       *)
OnlyNewestIsWronged ==
    [][version = "1.0" =>
         \A p \in PeersOf("1.0") :
            At(p) = "open" /\ At(p)' = "closed" /\ ~sock[p].fin /\ ~sock[p].rst =>
                /\ sock[p].fd = cur
                /\ \E q \in PeersOf("1.0") \ {p} : sock[q].rst]_vars

Dead == pc = "dead"

(* Whoever waits is accepted, although every version accepts one connection   *)
(* per event and v1.3 serves two queues from one loop.                        *)
Accepted(p) == At(p) # "queued"

(* A connection whose peer closed or reset is closed, from v1.4 on removed:   *)
(* in v1.0 although an error closed another one first, in v1.4 although the   *)
(* reset was met by a read(), in v1.5 although waiting output keeps the loop  *)
(* busy.  v1.3 closes every connection by itself.                             *)
Ending(p) == At(p) = "open" /\ (version = "1.3" \/ sock[p].fin \/ sock[p].rst)
Over(p) == version \in {"1.4", "1.5"} /\ ~tcp[p].live
Ended(p) == Ending(p) => Over(p)

(* Every byte that is said to v1.1 and v1.2 is answered, unless its sender    *)
(* resets.                                                                    *)
WasAnswered(p) ==
    Answered /\ At(p) # "away" => Len(history[p]) = sent[p] \/ sock[p].rst

(* A peer connects once, sends and ends a bounded number of times: in the end *)
(* everyone was accepted, was answered, and is let go if he ended, unless the *)
(* process dies.  (v1.0/EchoServer.cpp:95-128, v1.1/src/Epoller.cpp:37-64,    *)
(* v1.4/src/Acceptor.cpp:25-42, v1.4/src/TcpConnection.cpp:67-76)             *)
ClientsAreServed ==
    <>[](Dead \/ \A p \in Clients : Accepted(p) /\ Ended(p) /\ WasAnswered(p))

(* What epoll reports is handled, although the event array never grows: c is  *)
(* handled, not reported or the loop over again and again.                    *)
(* (v1.3/src/Epoller.cpp:21-35)                                               *)
Handled(c) == pc = "handle" /\ Loop!First(batch) = c
NoStarvation ==
    \A c \in LoopChannels :
        []<>(version = "loop" => Handled(c) \/ ~Loop!IsReported(c) \/ ~Loop!Running)
=============================================================================
