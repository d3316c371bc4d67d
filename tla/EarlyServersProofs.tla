-------------------------- MODULE EarlyServersProofs --------------------------
(***************************************************************************)
(* What EarlyServers promises of the servers of v1.4 and v1.5, and what it *)
(* promises of all versions, for every number of peers, descriptors and    *)
(* bytes.  The inductive invariants of v1.0 to v1.3 and of the loop are in *)
(* FirstServersProofs.                                                     *)
(***************************************************************************)
EXTENDS FirstServersProofs

N14 == INSTANCE PeersProofs WITH
         Peers <- PeersOf("1.4"), Fds <- FdsOf("1.4"), MaxIn <- Size["1.4"].maxIn,
         SndBuf <- Size["1.4"].sndBuf, Backlog <- Size["1.4"].backlog
N15 == INSTANCE PeersProofs WITH
         Peers <- PeersOf("1.5"), Fds <- FdsOf("1.5"), MaxIn <- Size["1.5"].maxIn,
         SndBuf <- Size["1.5"].sndBuf, Backlog <- Size["1.5"].backlog

-----------------------------------------------------------------------------
(* v1.4 *)

Log14 == [ups : Nat, downs : Nat, received : N14!Bytes]

(* A connection is live, in the map and registered from UP to DOWN, and no    *)
(* pointer to its Channel is left after it.                                   *)
Conn14(p) ==
    /\ tcp[p].live =>
          /\ sock[p].at = "open" /\ chan[p].added /\ p \in map
          /\ tcp[p].connectState = "CONNECTED"
          /\ history[p].ups = 1 /\ history[p].downs = 0
    /\ ~tcp[p].live =>
          /\ ~chan[p].added /\ p \notin map /\ p \notin batch
          /\ history[p].ups = history[p].downs /\ history[p].ups <= 1
    /\ sock[p].at \in {"away", "queued"} => ~tcp[p].live /\ history[p].ups = 0

(* What was received is the beginning of what was sent, and until DOWN the    *)
(* rest of it waits in the kernel.                                            *)
Stream14(p) ==
    /\ "HUP" \in chan[p].revents => sock[p].rst
    /\ history[p].received = N14!UpTo(Len(history[p].received))
    /\ history[p].downs = 0 => history[p].received \o sock[p].rcv = N14!UpTo(sent[p])
    /\ history[p].downs = 1 /\ ~sock[p].rst =>
          sock[p].fin /\ Len(history[p].received) = sent[p]

(* The acceptor's event is still to be handled. *)
AcceptorDue == 0 \in batch \/ (pc = "handle" /\ cur = 0)

Inv14 ==
    /\ N14!NetInv
    /\ chan \in [V14!Channels -> E!ChannelType]
    /\ tcp \in [PeersOf("1.4") -> V14!TcpType]
    /\ map \subseteq PeersOf("1.4")
    /\ pc \in {"setup", "poll", "batch", "handle", "dead"}
    /\ stage \in {"HUP", "IN"}
    /\ cur \in V14!Channels /\ batch \subseteq V14!Channels
    /\ history \in [PeersOf("1.4") -> Log14]
    /\ \A c \in V14!Channels : E!Mirrors(chan[c])
    /\ pc = "handle" => cur \notin batch
    /\ AcceptorDue => backlog # <<>>
    /\ \A p \in PeersOf("1.4") : Conn14(p) /\ Stream14(p)

LEMMA Numbered14 ==
    /\ N14!Numbered /\ Size["1.4"].read \in Nat \ {0}
    /\ V14!Channels = PeersOf("1.4") \cup {0} /\ 0 \notin PeersOf("1.4")
BY SizesOf DEF N14!Numbered, Versions, V14!Channels, V14!Acceptor

(* The operators of the kernel and of the channels are the same ones. *)
LEMMA Same14 ==
    /\ V14!NetworkTypeOK <=> N14!NetworkTypeOK
    /\ V14!NetworkInit <=> N14!NetworkInit
    /\ V14!PeerStep <=> N14!PeerStep
    /\ V14!UsedFds = N14!UsedFds
    /\ V14!FreeFds = N14!FreeFds
    /\ V14!LowestFree = N14!LowestFree
    /\ \A f : V14!Accepted(f) = N14!Accepted(f)
    /\ \A s, n : V14!RecvResult(s, n) = N14!RecvResult(s, n)
    /\ \A s, n : V14!AfterRecv(s, n) = N14!AfterRecv(s, n)
    /\ V14!Bytes = N14!Bytes
    /\ V14!ChannelType = E!ChannelType
    /\ V14!NewChannel = E!NewChannel
    /\ \A ch : V14!EnabledReadable(ch) = E!EnabledReadable(ch)
    /\ \A ch : V14!DiabledAllEvents(ch) = E!DiabledAllEvents(ch)
    /\ \A ch, R : V14!Reported(ch, R) = E!Reported(ch, R)
<1>1. V14!NetworkInit <=> N14!NetworkInit
  BY DEF V14!NetworkInit, N14!NetworkInit
<1>2. V14!PeerStep <=> N14!PeerStep
  BY DEF V14!PeerStep, V14!Connect, V14!PeerSend, V14!PeerRecv, V14!PeerClose, V14!PeerReset,
         V14!Alive, N14!PeerStep, N14!Connect, N14!PeerSend, N14!PeerRecv, N14!PeerClose,
         N14!PeerReset, N14!Alive
<1>3. V14!UsedFds = N14!UsedFds /\ V14!FreeFds = N14!FreeFds
      /\ V14!LowestFree = N14!LowestFree
  BY DEF V14!UsedFds, N14!UsedFds, V14!FreeFds, N14!FreeFds, V14!LowestFree, N14!LowestFree
<1>4. \A f : V14!Accepted(f) = N14!Accepted(f)
  BY DEF V14!Accepted, N14!Accepted
<1>5. /\ \A s, n : V14!RecvResult(s, n) = N14!RecvResult(s, n)
      /\ \A s, n : V14!AfterRecv(s, n) = N14!AfterRecv(s, n)
  BY DEF V14!RecvResult, N14!RecvResult, V14!AfterRecv, N14!AfterRecv
<1>6. V14!Bytes = N14!Bytes /\ (V14!NetworkTypeOK <=> N14!NetworkTypeOK)
  BY DEF V14!Bytes, N14!Bytes, V14!NetworkTypeOK, N14!NetworkTypeOK, V14!SocketType,
         N14!SocketType
<1>7. V14!ChannelType = E!ChannelType /\ V14!NewChannel = E!NewChannel
  BY DEF V14!ChannelType, E!ChannelType, V14!Interest, E!Interest, V14!Events, E!Events,
         V14!NewChannel, E!NewChannel
<1>8. \A ch, op : V14!EpollCtl(ch, op) = E!EpollCtl(ch, op)
  BY DEF V14!EpollCtl, E!EpollCtl
<1>9. \A ch, X : V14!SetEvents(ch, X) = E!SetEvents(ch, X)
  BY <1>8 DEF V14!SetEvents, E!SetEvents, V14!UpdateChannel, E!UpdateChannel,
              V14!IsNoneEvent, E!IsNoneEvent
<1>10. /\ \A ch : V14!EnabledReadable(ch) = E!EnabledReadable(ch)
       /\ \A ch : V14!DiabledAllEvents(ch) = E!DiabledAllEvents(ch)
  BY <1>9 DEF V14!EnabledReadable, E!EnabledReadable, V14!DiabledAllEvents,
              E!DiabledAllEvents
<1>11. \A ch, R : V14!Reported(ch, R) = E!Reported(ch, R)
  BY DEF V14!Reported, E!Reported
<1>12. QED
  BY <1>1, <1>2, <1>3, <1>4, <1>5, <1>6, <1>7, <1>10, <1>11

LEMMA Init14 == ASSUME V14!Init PROVE Inv14
<1>1. N14!NetworkInit
  BY Same14 DEF V14!Init
<1>2. N14!NetInv
  BY <1>1, Numbered14, N14!InitNet
<1>3. <<>> \in N14!Bytes /\ Len(<<>>) = 0 /\ <<>> \o <<>> = <<>> /\ N14!UpTo(0) = <<>>
  BY EmptySeq, N14!NothingSent DEF N14!Bytes
<1>4. /\ pc = "setup" /\ stage = "HUP" /\ cur = 0 /\ batch = {} /\ map = {}
      /\ chan = [c \in V14!Channels |-> E!NewChannel]
      /\ tcp = [p \in PeersOf("1.4") |-> [live |-> FALSE, connectState |-> "CONNECTING"]]
      /\ history = [p \in PeersOf("1.4") |-> [ups |-> 0, downs |-> 0, received |-> <<>>]]
  BY Same14 DEF V14!Init, V14!Acceptor
<1>5. /\ \A p \in PeersOf("1.4") : sock[p].at = "away" /\ sock[p].rcv = <<>> /\ sent[p] = 0
  BY <1>1 DEF N14!NetworkInit
<1>6. /\ chan \in [V14!Channels -> E!ChannelType]
      /\ \A c \in V14!Channels : E!Mirrors(chan[c]) /\ ~chan[c].added /\ chan[c].revents = {}
  BY <1>4, NewChannelIs DEF E!NewChannel
<1>7. tcp \in [PeersOf("1.4") -> V14!TcpType] /\ history \in [PeersOf("1.4") -> Log14]
  BY <1>3, <1>4 DEF V14!TcpType, Log14
<1>8. \A p \in PeersOf("1.4") : Conn14(p)
  BY <1>4, <1>5, <1>6, Numbered14 DEF Conn14
<1>9. ASSUME NEW p \in PeersOf("1.4") PROVE Stream14(p)
  <2>1. /\ history[p].received = <<>> /\ history[p].downs = 0
        /\ sock[p].rcv = <<>> /\ sent[p] = 0 /\ chan[p].revents = {}
    BY <1>4, <1>5, <1>6, Numbered14
  <2>2. PICK a, b : a = history[p] /\ b = sock[p]
    OBVIOUS
  <2>3. a.received \o b.rcv = <<>>
    BY <1>3, <2>1, <2>2
  <2>4. history[p].received = N14!UpTo(Len(history[p].received))
    BY <1>3, <2>1
  <2>5. history[p].received \o sock[p].rcv = N14!UpTo(sent[p])
    BY <1>3, <2>1, <2>2, <2>3
  <2>6. QED
    BY <2>1, <2>4, <2>5 DEF Stream14
<1>10. QED
  BY <1>2, <1>4, <1>6, <1>7, <1>8, <1>9, Numbered14 DEF Inv14, AcceptorDue

(* Whoever is not concerned by a step. *)
LEMMA Keep14 ==
    ASSUME NEW q, Conn14(q), Stream14(q),
           sock'[q] = sock[q], sent'[q] = sent[q], chan'[q] = chan[q], tcp'[q] = tcp[q],
           history'[q] = history[q], q \in map' <=> q \in map, q \in batch' => q \in batch
    PROVE  Conn14(q)' /\ Stream14(q)'
BY DEF Conn14, Stream14

LEMMA Quiet14 ==
    ASSUME Inv14, UNCHANGED <<N14!network, chan, tcp, map, history>>,
           pc' \in {"setup", "poll", "batch", "handle", "dead"}, stage' \in {"HUP", "IN"},
           cur' \in V14!Channels, batch' \subseteq batch,
           pc' = "handle" => cur' \notin batch', AcceptorDue' => AcceptorDue
    PROVE  Inv14'
<1>1. sock' = sock /\ sent' = sent
  BY DEF N14!network
<1>2. N14!NetInv'
  BY N14!NetworkStays DEF Inv14
<1>3. \A p \in PeersOf("1.4") : Conn14(p)' /\ Stream14(p)'
  BY <1>1, Keep14 DEF Inv14
<1>4. QED
  BY <1>2, <1>3 DEF Inv14, V14!Channels, N14!network

LEMMA Start14 == ASSUME Inv14, V14!Start PROVE Inv14'
<1>1. /\ UNCHANGED <<N14!network, tcp, map, stage, cur, batch, history>> /\ pc' = "poll"
      /\ chan' = [chan EXCEPT ![0] = E!EnabledReadable(chan[0])]
  BY Same14 DEF V14!Start, V14!Listen, V14!Acceptor, V14!network, N14!network
<1>2. PICK ch \in E!ChannelType : ch = chan[0] /\ E!Mirrors(ch)
  BY Numbered14 DEF Inv14
<1>3. E!EnabledReadable(ch) \in E!ChannelType /\ E!Mirrors(E!EnabledReadable(ch))
  BY <1>2, ChannelChanges
<1>4. /\ chan' \in [V14!Channels -> E!ChannelType]
      /\ \A c \in V14!Channels : E!Mirrors(chan'[c])
      /\ \A p \in PeersOf("1.4") : chan'[p] = chan[p]
  BY <1>1, <1>2, <1>3, Numbered14 DEF Inv14
<1>5. sock' = sock /\ sent' = sent /\ N14!NetInv'
  BY <1>1, N14!NetworkStays DEF Inv14, N14!network
<1>6. \A p \in PeersOf("1.4") : Conn14(p)' /\ Stream14(p)'
  BY <1>1, <1>4, <1>5, Keep14 DEF Inv14
<1>7. QED
  BY <1>1, <1>4, <1>5, <1>6 DEF Inv14, V14!Channels, N14!network, AcceptorDue

(* epoll's conditions of the acceptor and of the connections. *)
LEMMA ConditionsAre14 ==
    ASSUME NEW c
    PROVE  /\ V14!Conditions(c) \in SUBSET E!Events
           /\ c # 0 /\ "HUP" \in V14!Conditions(c) => sock[c].rst
           /\ c = 0 /\ V14!Conditions(c) # {} => backlog # <<>>
<1>1. CASE c = 0
  BY <1>1 DEF V14!Conditions, V14!Acceptor, E!Events, E!Interest
<1>2. CASE c # 0
  <2>1. PICK A, B, C :
           /\ A = (IF V14!Readable(sock[c]) THEN {"IN"} ELSE {})
           /\ B = (IF V14!Writable(sock[c]) THEN {"OUT"} ELSE {})
           /\ C = (IF sock[c].rst THEN {"HUP"} ELSE {})
    OBVIOUS
  <2>2. V14!Conditions(c) = {} \/ V14!Conditions(c) = A \cup B \cup C
    BY <1>2, <2>1 DEF V14!Conditions, V14!Acceptor
  <2>3. /\ A \cup B \cup C \in SUBSET E!Events
        /\ "HUP" \in A \cup B \cup C => sock[c].rst
    BY <2>1 DEF E!Events, E!Interest
  <2>4. QED
    BY <1>2, <2>2, <2>3
<1>3. QED
  BY <1>1, <1>2

LEMMA Poll14 == ASSUME Inv14, V14!Poll PROVE Inv14'
<1>1. /\ UNCHANGED <<N14!network, tcp, map, stage, cur, history>> /\ pc' = "batch"
      /\ batch' = {c \in V14!Channels : V14!ReportOf(c) # {}}
      /\ chan' = [c \in V14!Channels |->
                    IF c \in batch' THEN [chan[c] EXCEPT !.revents = V14!ReportOf(c)]
                    ELSE chan[c]]
  BY DEF V14!Poll, V14!network, N14!network
<1>2. ASSUME NEW c \in V14!Channels
      PROVE  /\ chan'[c] \in E!ChannelType /\ E!Mirrors(chan'[c])
             /\ chan'[c].added = chan[c].added
             /\ c \in batch' => chan[c].added
             /\ c # 0 /\ "HUP" \in chan'[c].revents =>
                   "HUP" \in chan[c].revents \/ sock[c].rst
             /\ c = 0 /\ c \in batch' => backlog # <<>>
  <2>1. PICK ch \in E!ChannelType : ch = chan[c] /\ E!Mirrors(ch)
    BY DEF Inv14
  <2>2. PICK R \in SUBSET E!Events : /\ R = V14!Conditions(c)
                                    /\ (c # 0 /\ "HUP" \in R => sock[c].rst)
                                    /\ (c = 0 /\ R # {} => backlog # <<>>)
    BY ConditionsAre14
  <2>3. V14!ReportOf(c) = E!Reported(ch, R)
    BY <2>1, <2>2, Same14 DEF V14!ReportOf
  <2>4. PICK d : d = [ch EXCEPT !.revents = E!Reported(ch, R)]
    OBVIOUS
  <2>5. /\ d \in E!ChannelType /\ d.added = ch.added /\ d.revents \subseteq R
        /\ E!Mirrors(d)
    BY <2>1, <2>4, ReportedIs
  <2>6. chan'[c] = IF c \in batch' THEN d ELSE ch
    BY <1>1, <2>1, <2>3, <2>4
  <2>7. c \in batch' => ch.added /\ R # {}
    BY <1>1, <2>3 DEF E!Reported
  <2>8. QED
    BY <2>1, <2>2, <2>5, <2>6, <2>7
<1>3. sock' = sock /\ sent' = sent /\ N14!NetInv'
  BY <1>1, N14!NetworkStays DEF Inv14, N14!network
<1>4. chan' \in [V14!Channels -> E!ChannelType]
  BY <1>1, <1>2
<1>5. ASSUME NEW p \in PeersOf("1.4") PROVE Conn14(p)' /\ Stream14(p)'
  <2>1. Conn14(p) /\ Stream14(p) /\ p \in V14!Channels /\ p # 0
    BY Numbered14 DEF Inv14
  <2>2. Conn14(p)'
    BY <1>1, <1>2, <1>3, <2>1 DEF Conn14
  <2>3. Stream14(p)'
    BY <1>1, <1>2, <1>3, <2>1 DEF Stream14
  <2>4. QED
    BY <2>2, <2>3
<1>6. batch' \subseteq V14!Channels /\ 0 \in V14!Channels
  BY <1>1, Numbered14
<1>7. AcceptorDue' => backlog' # <<>>
  BY <1>1, <1>2, <1>6 DEF AcceptorDue, N14!network
<1>8. QED
  BY <1>1, <1>2, <1>3, <1>4, <1>5, <1>6, <1>7 DEF Inv14, V14!Channels

(* Of two descriptors that are left one is free. *)
LEMMA OneIsFree ==
    ASSUME NEW F, IsFiniteSet(F), NEW U \in SUBSET F, NEW L, IsFiniteSet(L),
           Cardinality(F) - Cardinality(U) - Cardinality(L) >= 2
    PROVE  F \ U # {}
<1>1. Cardinality(F) \in Nat /\ Cardinality(U) \in Nat /\ Cardinality(L) \in Nat
  BY FS_CardinalityType, FS_Subset
<1>2. F # U
  BY <1>1
<1>3. QED
  BY <1>2

LEMMA FreeFds14 ==
    ASSUME N14!NetInv, V14!FdsLeft >= 2 PROVE N14!FreeFds # {}
<1>1. PICK F, U, P, L : /\ F = FdsOf("1.4") /\ U = N14!UsedFds /\ P = PeersOf("1.4")
                        /\ L = {p \in P : tcp[p].live}
  OBVIOUS
<1>2. IsFiniteSet(F) /\ IsFiniteSet(P)
  <2>1. Size["1.4"].fds \in Nat /\ Size["1.4"].peers \in Nat
    BY SizesOf DEF Versions
  <2>2. PICK m \in Int, n \in Int : F = 5..m /\ P = 1..n
    BY <1>1, <2>1 DEF FdsOf, PeersOf
  <2>3. QED
    BY <2>2, FS_Interval
<1>3. IsFiniteSet(L)
  BY <1>1, <1>2, FS_Subset
<1>4. U \in SUBSET F
  BY <1>1 DEF N14!NetInv, N14!FdsDistinct, N14!UsedFds
<1>5. Cardinality(F) - Cardinality(U) - Cardinality(L) >= 2
  <2>1. V14!FdsLeft = Cardinality(FdsOf("1.4")) - Cardinality(V14!UsedFds)
                      - Cardinality({p \in PeersOf("1.4") : tcp[p].live})
    BY DEF V14!FdsLeft, V14!Cardinality, Cardinality
  <2>2. L = {p \in PeersOf("1.4") : tcp[p].live}
    BY <1>1
  <2>3. V14!UsedFds = U
    BY <1>1, Same14
  <2>4. QED
    BY <1>1, <2>1, <2>2, <2>3
<1>6. F \ U # {}
  BY <1>2, <1>3, <1>4, <1>5, OneIsFree
<1>7. QED
  BY <1>1, <1>6 DEF N14!FreeFds

LEMMA Accept14 == ASSUME Inv14, V14!Accept PROVE Inv14'
<1>1. PICK h : h = Head(backlog)
  OBVIOUS
<1>2. /\ pc = "handle" /\ cur = 0 /\ stage = "IN" /\ V14!FdsLeft >= 2
      /\ sock' = N14!Accepted(N14!LowestFree) /\ backlog' = Tail(backlog) /\ sent' = sent
      /\ map' = map \cup {h} /\ stage' = "IN" /\ pc' = "batch" /\ cur' = cur
      /\ batch' = batch
      /\ chan' = [chan EXCEPT ![h] = E!EnabledReadable(E!NewChannel)]
      /\ tcp' = [tcp EXCEPT ![h] = [live |-> TRUE, connectState |-> "CONNECTED"]]
      /\ history' = [history EXCEPT ![h].ups = @ + 1]
  BY <1>1, Same14 DEF V14!Accept, V14!At, V14!Acceptor, V14!NewConnection,
       V14!ConnectionEstablished, V14!Return
<1>3. backlog # <<>> /\ N14!FreeFds # {}
  BY <1>2, FreeFds14 DEF Inv14, AcceptorDue
<1>4. /\ N14!NetInv' /\ h \in PeersOf("1.4") /\ sock[h].at = "queued"
      /\ sock'[h] = [sock[h] EXCEPT !.at = "open", !.fd = N14!LowestFree]
      /\ \A q \in PeersOf("1.4") : q # h => sock'[q] = sock[q]
  BY <1>1, <1>2, <1>3, Numbered14, N14!AcceptIs DEF Inv14
<1>5. sock[h] \in N14!SocketType
  BY <1>4 DEF Inv14, N14!NetInv, N14!NetworkTypeOK
<1>6. sock'[h].at = "open" /\ sock'[h].rcv = sock[h].rcv /\ sock'[h].rst = sock[h].rst
  BY <1>4, <1>5 DEF N14!SocketType
<1>7. PICK d : d = E!EnabledReadable(E!NewChannel)
  OBVIOUS
<1>8. d \in E!ChannelType /\ d.revents = {} /\ d.added /\ E!Mirrors(d)
  <2>1. PICK c \in E!ChannelType : c = E!NewChannel /\ E!Mirrors(c) /\ c.revents = {}
    BY NewChannelIs DEF E!NewChannel
  <2>2. QED
    BY <1>7, <2>1, ChannelChanges
<1>9. /\ chan' \in [V14!Channels -> E!ChannelType] /\ chan'[h] = d
      /\ \A c \in V14!Channels : E!Mirrors(chan'[c])
      /\ \A q \in PeersOf("1.4") : q # h => chan'[q] = chan[q]
  BY <1>2, <1>4, <1>7, <1>8, Numbered14 DEF Inv14
<1>10. /\ tcp' \in [PeersOf("1.4") -> V14!TcpType]
       /\ tcp'[h].live /\ tcp'[h].connectState = "CONNECTED"
       /\ \A q \in PeersOf("1.4") : q # h => tcp'[q] = tcp[q]
  BY <1>2, <1>4 DEF Inv14, V14!TcpType
<1>11. PICK g : g = history[h]
  OBVIOUS
<1>12. g \in Log14 /\ g.ups = 0 /\ g.downs = 0
  BY <1>4, <1>11 DEF Inv14, Conn14, Log14
<1>13. PICK k : k = [g EXCEPT !.ups = @ + 1]
  OBVIOUS
<1>14. k \in Log14 /\ k.ups = 1 /\ k.downs = 0 /\ k.received = g.received
  BY <1>12, <1>13 DEF Log14
<1>15. history' = [history EXCEPT ![h] = k]
  BY <1>2, <1>11, <1>13
<1>16. /\ history' \in [PeersOf("1.4") -> Log14] /\ history'[h] = k
       /\ \A q \in PeersOf("1.4") : q # h => history'[q] = history[q]
  BY <1>4, <1>14, <1>15 DEF Inv14
<1>17. ASSUME NEW q \in PeersOf("1.4"), q # h PROVE Conn14(q)' /\ Stream14(q)'
  BY <1>2, <1>4, <1>9, <1>10, <1>16, <1>17, Keep14 DEF Inv14
<1>18. Conn14(h)'
  BY <1>2, <1>6, <1>8, <1>9, <1>10, <1>14, <1>16 DEF Conn14
<1>19. Stream14(h)'
  <2>1. /\ g.received = N14!UpTo(Len(g.received))
        /\ g.received \o sock[h].rcv = N14!UpTo(sent[h])
    BY <1>4, <1>11, <1>12 DEF Inv14, Stream14
  <2>2. history'[h].received = history[h].received
    BY <1>11, <1>14, <1>16
  <2>3. /\ history'[h].received = N14!UpTo(Len(history'[h].received))
        /\ history'[h].received \o sock'[h].rcv = N14!UpTo(sent'[h])
    BY <1>2, <1>6, <1>11, <2>1, <2>2
  <2>4. history'[h].downs = 0 /\ "HUP" \notin chan'[h].revents
    BY <1>8, <1>9, <1>14, <1>16
  <2>5. QED
    BY <2>3, <2>4 DEF Stream14
<1>20. 0 \notin batch
  BY <1>2 DEF Inv14
<1>21. QED
  BY <1>2, <1>4, <1>9, <1>10, <1>16, <1>17, <1>18, <1>19, <1>20
     DEF Inv14, V14!Channels, AcceptorDue

(* The end of a connection: its peer reset, or sent no more and was heard out. *)
LEMMA HandleClose14 ==
    ASSUME Inv14, NEW p \in PeersOf("1.4"), p = cur, pc = "handle", tcp[p].live,
           sock[p].rst \/ (sock[p].fin /\ sock[p].rcv = <<>>), V14!HandleClose(p)
    PROVE  Inv14'
<1>1. /\ sock' = sock /\ backlog' = backlog /\ sent' = sent
      /\ map' = map \ {p} /\ stage' = "IN" /\ pc' \in {"handle", "batch"} /\ cur' = cur
      /\ batch' = batch
      /\ chan' = [chan EXCEPT ![p] = E!DiabledAllEvents(@)]
      /\ tcp' = [tcp EXCEPT ![p] = [live |-> FALSE, connectState |-> "DISCONNECTED"]]
      /\ history' = [history EXCEPT ![p].downs = @ + 1]
  BY Same14 DEF V14!HandleClose, V14!RemoveConnection, V14!Return, V14!network
<1>2. PICK ch, d : ch = chan[p] /\ d = E!DiabledAllEvents(ch)
  OBVIOUS
<1>3. ch \in E!ChannelType /\ E!Mirrors(ch) /\ ch.added
  BY <1>2, Numbered14 DEF Inv14, Conn14
<1>4. d \in E!ChannelType /\ E!Mirrors(d) /\ ~d.added /\ d.revents = ch.revents
  BY <1>2, <1>3, ChannelChanges
<1>5. /\ chan' \in [V14!Channels -> E!ChannelType] /\ chan'[p] = d
      /\ \A c \in V14!Channels : E!Mirrors(chan'[c])
      /\ \A q \in PeersOf("1.4") : q # p => chan'[q] = chan[q]
  BY <1>1, <1>2, <1>4, Numbered14 DEF Inv14
<1>6. /\ tcp' \in [PeersOf("1.4") -> V14!TcpType] /\ ~tcp'[p].live
      /\ \A q \in PeersOf("1.4") : q # p => tcp'[q] = tcp[q]
  BY <1>1 DEF Inv14, V14!TcpType
<1>7. PICK g, k : g = history[p] /\ k = [g EXCEPT !.downs = @ + 1]
  OBVIOUS
<1>8. g \in Log14 /\ g.ups = 1 /\ g.downs = 0 /\ sock[p].at = "open"
  BY <1>7 DEF Inv14, Conn14
<1>9. k \in Log14 /\ k.ups = 1 /\ k.downs = 1 /\ k.received = g.received
  BY <1>7, <1>8 DEF Log14
<1>10. history' = [history EXCEPT ![p] = k]
  BY <1>1, <1>7
<1>11. /\ history' \in [PeersOf("1.4") -> Log14] /\ history'[p] = k
       /\ \A q \in PeersOf("1.4") : q # p => history'[q] = history[q]
  BY <1>9, <1>10 DEF Inv14
<1>12. ASSUME NEW q \in PeersOf("1.4"), q # p PROVE Conn14(q)' /\ Stream14(q)'
  BY <1>1, <1>5, <1>6, <1>11, <1>12, Keep14 DEF Inv14
<1>13. Conn14(p)'
  BY <1>1, <1>4, <1>5, <1>6, <1>8, <1>9, <1>11 DEF Conn14, Inv14
<1>14. Stream14(p)'
  <2>1. /\ g.received = N14!UpTo(Len(g.received))
        /\ g.received \o sock[p].rcv = N14!UpTo(sent[p])
        /\ "HUP" \in ch.revents => sock[p].rst
        /\ g.received \in N14!Bytes /\ sent[p] \in Nat
    BY <1>2, <1>7, <1>8 DEF Inv14, Stream14, Log14, N14!NetInv, N14!NetworkTypeOK
  <2>2. ASSUME ~sock[p].rst PROVE sock[p].fin /\ Len(g.received) = sent[p]
    <3>1. sock[p].fin /\ sock[p].rcv = <<>>
      BY <2>2
    <3>2. g.received \o <<>> = g.received
      BY <2>1, ConcatEmptySeq DEF N14!Bytes
    <3>3. g.received = N14!UpTo(sent[p])
      BY <2>1, <3>1, <3>2
    <3>4. QED
      BY <2>1, <3>1, <3>3, N14!UpToIs
  <2>3. history'[p].received = g.received
    BY <1>9, <1>11
  <2>4. QED
    BY <1>1, <1>4, <1>5, <1>9, <1>11, <2>1, <2>2, <2>3 DEF Stream14
<1>15. AcceptorDue' => AcceptorDue
  BY <1>1 DEF AcceptorDue
<1>16. N14!NetInv'
  <2>1. UNCHANGED N14!network
    BY <1>1 DEF N14!network
  <2>2. QED
    BY <2>1, N14!NetworkStays DEF Inv14
<1>17. QED
  BY <1>1, <1>5, <1>6, <1>11, <1>12, <1>13, <1>15, <1>14, <1>16 DEF Inv14, V14!Channels

LEMMA HandleRead14 == ASSUME Inv14, V14!HandleRead PROVE Inv14'
<1>1. PICK p, size, n : p = cur /\ size = Size["1.4"].read
                        /\ n = N14!RecvResult(sock[p], size)
  OBVIOUS
<1>2. /\ p \in PeersOf("1.4") /\ pc = "handle" /\ stage = "IN" /\ tcp[p].live
      /\ size \in Nat \ {0} /\ sock[p] \in N14!SocketType
  BY <1>1, Numbered14
     DEF V14!HandleRead, V14!At, V14!Freed, V14!Acceptor, Inv14, N14!NetInv,
         N14!NetworkTypeOK
<1>3. \/ n = 0 /\ V14!HandleClose(p)
      \/ /\ n # 0
         /\ sock' = [sock EXCEPT ![p] = N14!AfterGot(sock[p], size)]
         /\ history' = [history EXCEPT ![p].received = @ \o N14!Got(sock[p], size)]
         /\ V14!Return
         /\ UNCHANGED <<backlog, sent, chan, tcp, map>>
  BY <1>1, Same14 DEF V14!HandleRead, V14!EndOfFile, N14!AfterGot, N14!Got
<1>4. CASE n = 0 /\ V14!HandleClose(p)
  <2>1. sock[p].rst \/ (sock[p].fin /\ sock[p].rcv = <<>>)
    BY <1>1, <1>2, <1>4, N14!RecvIs
  <2>2. QED
    BY <1>1, <1>2, <1>4, <2>1, HandleClose14
<1>5. CASE /\ n # 0
           /\ sock' = [sock EXCEPT ![p] = N14!AfterGot(sock[p], size)]
           /\ history' = [history EXCEPT ![p].received = @ \o N14!Got(sock[p], size)]
           /\ V14!Return
           /\ UNCHANGED <<backlog, sent, chan, tcp, map>>
  <2>1. PICK a, s, b : a = sock[p] /\ s = N14!AfterGot(a, size) /\ b = N14!Got(a, size)
    OBVIOUS
  <2>2. /\ s \in N14!SocketType /\ s.at = a.at /\ s.fd = a.fd /\ s.snd = a.snd
        /\ s.fin = a.fin /\ s.rst = a.rst /\ s.err \in {a.err, "none"}
        /\ b \in N14!Bytes
        /\ \A h \in N14!Bytes : /\ h \o b \in N14!Bytes
                                /\ (h \o b) \o s.rcv = h \o a.rcv
    <3>1. a \in N14!SocketType /\ N14!RecvResult(a, size) # 0
      BY <1>1, <1>2, <1>5, <2>1
    <3>2. QED
      BY ONLY <1>2, <2>1, <3>1, N14!TakenIs
  <2>3. a.at = "open" /\ a \in N14!SocketType
    BY <1>2, <2>1 DEF Inv14, Conn14
  <2>4. /\ sock' \in [PeersOf("1.4") -> N14!SocketType] /\ sock'[p] = s
        /\ \A q \in PeersOf("1.4") : q # p => sock'[q] = sock[q]
    BY <1>2, <1>5, <2>1, <2>2 DEF Inv14, N14!NetInv, N14!NetworkTypeOK
  <2>5. \A q \in PeersOf("1.4") : N14!Used(q)
    BY <1>2, <2>1, <2>2, <2>3, <2>4 DEF Inv14, N14!NetInv, N14!Fresh, N14!Used
  <2>6. N14!NetInv'
    BY <1>5, <2>4, <2>5, N14!OpenChange DEF Inv14
  <2>7. PICK g, x, k : g = history[p] /\ x = g.received \o b
                       /\ k = [g EXCEPT !.received = x]
    OBVIOUS
  <2>8. /\ g \in Log14 /\ g.ups = 1 /\ g.downs = 0 /\ g.received \in N14!Bytes
        /\ g.received \o a.rcv = N14!UpTo(sent[p]) /\ sent[p] \in Nat
    BY <1>2, <2>1, <2>7
       DEF Inv14, Conn14, Stream14, Log14, N14!NetInv, N14!NetworkTypeOK
  <2>9. /\ x \in N14!Bytes /\ x \o s.rcv = N14!UpTo(sent[p]) /\ s.rcv \in N14!Bytes
    BY <2>2, <2>7, <2>8 DEF N14!SocketType
  <2>10. x = N14!UpTo(Len(x))
    BY <2>8, <2>9, N14!BeginsUpTo
  <2>11. k \in Log14 /\ k.ups = 1 /\ k.downs = 0 /\ k.received = x
    BY <2>7, <2>8, <2>9 DEF Log14
  <2>12. history' = [history EXCEPT ![p] = k]
    BY <1>5, <2>1, <2>7
  <2>13. /\ history' \in [PeersOf("1.4") -> Log14] /\ history'[p] = k
         /\ \A q \in PeersOf("1.4") : q # p => history'[q] = history[q]
    BY <1>2, <2>11, <2>12 DEF Inv14
  <2>14. /\ stage' = "IN" /\ pc' = "batch" /\ cur' = cur /\ batch' = batch
    BY <1>2, <1>5 DEF V14!Return
  <2>15. ASSUME NEW q \in PeersOf("1.4"), q # p PROVE Conn14(q)' /\ Stream14(q)'
    BY <1>5, <2>4, <2>13, <2>14, <2>15, Keep14 DEF Inv14
  <2>16. Conn14(p)'
    BY <1>2, <1>5, <2>1, <2>2, <2>3, <2>4, <2>11, <2>13 DEF Inv14, Conn14
  <2>17. Stream14(p)'
    <3>1. "HUP" \in chan[p].revents => a.rst
      BY <1>2, <2>1 DEF Inv14, Stream14
    <3>2. /\ history'[p].received = N14!UpTo(Len(history'[p].received))
          /\ history'[p].received \o sock'[p].rcv = N14!UpTo(sent'[p])
      BY <1>5, <2>4, <2>9, <2>10, <2>11, <2>13
    <3>3. chan' = chan /\ sock'[p].rst = a.rst /\ history'[p].downs = 0
      BY <1>5, <2>2, <2>4, <2>11, <2>13
    <3>4. QED
      BY ONLY <3>1, <3>2, <3>3 DEF Stream14
  <2>18. AcceptorDue' => AcceptorDue
    BY <2>14 DEF AcceptorDue
  <2>19. QED
    BY <1>5, <2>6, <2>13, <2>14, <2>15, <2>16, <2>17, <2>18 DEF Inv14, V14!Channels
<1>6. QED
  BY <1>3, <1>4, <1>5

LEMMA PeersMove14 == ASSUME Inv14, V14!PeersMove PROVE Inv14'
<1>1. /\ N14!PeerStep /\ UNCHANGED <<chan, tcp, map, history, pc, stage, cur, batch>>
  BY Same14 DEF V14!PeersMove, V14!objects
<1>2. /\ N14!NetInv' /\ \A p \in PeersOf("1.4") : N14!PeersKeep(p)
      /\ N14!PeersKeepQueue
  BY <1>1, Numbered14, N14!PeersMoveNet DEF Inv14
<1>3. ASSUME NEW p \in PeersOf("1.4") PROVE Conn14(p)' /\ Stream14(p)'
  <2>1. N14!PeersKeep(p) /\ Conn14(p) /\ Stream14(p)
    BY <1>2 DEF Inv14
  <2>2. Conn14(p)'
    BY <1>1, <2>1 DEF Conn14, N14!PeersKeep
  <2>3. PICK g : g = history[p]
    OBVIOUS
  <2>4. g.received \in N14!Bytes /\ history'[p] = g
    BY <1>1, <2>3 DEF Inv14, Log14
  <2>5. g.received \o sock[p].rcv = N14!UpTo(sent[p]) =>
          g.received \o sock'[p].rcv = N14!UpTo(sent'[p])
    BY <2>1, <2>4, N14!StreamGrows DEF Inv14
  <2>6. /\ sock[p].rst => sock'[p].rst
        /\ sock[p].fin => sock'[p].fin
        /\ sock[p].fin \/ sock[p].rst => sent'[p] = sent[p]
    BY <2>1 DEF N14!PeersKeep
  <2>7. Stream14(p)'
    BY <1>1, <2>1, <2>3, <2>4, <2>5, <2>6 DEF Stream14
  <2>8. QED
    BY <2>2, <2>7
<1>4. backlog # <<>> => backlog' # <<>>
  BY <1>2, EmptySeq, LenProperties, AppendProperties
     DEF N14!PeersKeepQueue, Inv14, N14!NetInv, N14!NetworkTypeOK
<1>5. AcceptorDue' => AcceptorDue
  BY <1>1 DEF AcceptorDue
<1>6. QED
  BY <1>1, <1>2, <1>3, <1>4, <1>5 DEF Inv14, V14!Channels

LEMMA Step14 == ASSUME Inv14, V14!Next PROVE Inv14'
<1>1. CASE \E c \in V14!Channels : V14!StartHandle(c)
  <2>1. PICK c \in V14!Channels : V14!StartHandle(c)
    BY <1>1
  <2>2. /\ UNCHANGED <<N14!network, chan, tcp, map, history>> /\ c \in batch
        /\ batch' = batch \ {c} /\ cur' = c /\ stage' = "HUP" /\ pc' = "handle"
    BY <2>1 DEF V14!StartHandle, V14!network, N14!network, V14!objects
  <2>3. AcceptorDue' => AcceptorDue
    BY <2>2 DEF AcceptorDue
  <2>4. QED
    BY <2>2, <2>3, Quiet14
<1>2. CASE V14!EndBatch \/ V14!Skip \/ V14!ReadFreedChannel \/ V14!AcceptFails
  <2>1. /\ UNCHANGED <<N14!network, chan, tcp, map, history>> /\ batch' = batch
        /\ cur' = cur /\ stage' \in {stage, "IN"}
        /\ pc' \in {"poll", "batch", "handle", "dead"} /\ (pc' = "handle" => pc = "handle")
    BY <1>2 DEF V14!EndBatch, V14!Skip, V14!ReadFreedChannel, V14!AcceptFails, V14!Return,
         V14!Abort, V14!At, V14!network, N14!network, V14!objects
  <2>2. AcceptorDue' => AcceptorDue
    BY <2>1 DEF AcceptorDue
  <2>3. QED
    BY <2>1, <2>2, Quiet14 DEF Inv14
<1>3. CASE V14!HangUpEvent
  <2>1. /\ cur \in PeersOf("1.4") /\ pc = "handle" /\ tcp[cur].live /\ V14!HandleClose(cur)
        /\ sock[cur].rst
    BY <1>3, Numbered14
       DEF V14!HangUpEvent, V14!At, V14!Freed, V14!Acceptor, Inv14, Stream14
  <2>2. PICK p : p = cur
    OBVIOUS
  <2>3. QED
    BY <2>1, <2>2, HandleClose14
<1>4. QED
  BY <1>1, <1>2, <1>3, Start14, Poll14, Accept14, HandleRead14, PeersMove14
     DEF V14!Next, V14!LoopStep

LEMMA Always14 == Spec => [](version = "1.4" => Inv14)
<1>1. Init => (version = "1.4" => Inv14)
  BY Init14 DEF Init
<1>2. (version = "1.4" => Inv14) /\ [Next]_vars => (version = "1.4" => Inv14)'
  <2>1. ASSUME version = "1.4", Inv14, Next PROVE Inv14'
    <3>1. V14!Next
      BY <2>1 DEF Next, Of10, Of11, Of12, Of13, Of14, Of15, OfLoop
    <3>2. QED
      BY <2>1, <3>1, Step14
  <2>2. ASSUME Inv14, UNCHANGED vars PROVE Inv14'
    <3>1. UNCHANGED <<N14!network, history, cur, chan, map, batch, pc, tcp, stage>>
      BY <2>2 DEF vars, N14!network
    <3>2. AcceptorDue' => AcceptorDue
      BY <3>1 DEF AcceptorDue
    <3>3. QED
      BY <2>2, <3>1, <3>2, Quiet14 DEF Inv14
  <2>3. ASSUME Next PROVE version' = version
    BY <2>3 DEF Next, Of10, Of11, Of12, Of13, Of14, Of15, OfLoop
  <2>4. QED
    BY <2>1, <2>2, <2>3 DEF vars
<1>3. QED
  BY <1>1, <1>2, PTL DEF Spec

-----------------------------------------------------------------------------
(* v1.5 *)

Log15 == [ups : Nat, downs : Nat, asked : N15!Bytes, written : N15!Bytes]

(* A connection is live and registered from UP to DOWN, and no pointer to its *)
(* Channel is left after it.                                                  *)
Conn15(p) ==
    /\ tcp[p].live =>
          /\ sock[p].at = "open" /\ chan[p].added
          /\ tcp[p].connectState = "CONNECTED"
          /\ history[p].ups = 1 /\ history[p].downs = 0
    /\ ~tcp[p].live =>
          /\ ~chan[p].added /\ p \notin batch
          /\ history[p].ups = history[p].downs /\ history[p].ups <= 1
    /\ sock[p].at \in {"away", "queued"} => ~tcp[p].live /\ history[p].ups = 0

(* What was sent was written or waits, and the channel watches for it.        *)
Output15(p) ==
    tcp[p].live =>
        /\ history[p].asked = history[p].written \o tcp[p].output
        /\ E!IsWriting(chan[p]) <=> tcp[p].output # <<>>

Unused15(p) ==
    history[p].ups = 0 =>
        history[p].asked = <<>> /\ history[p].written = <<>> /\ tcp[p].input = <<>>

(* The echo server keeps every byte until it has sent it back. *)
Echo15(p) ==
    app = "echo" /\ history[p].downs = 0 =>
        (history[p].asked \o tcp[p].input) \o sock[p].rcv = N15!UpTo(sent[p])

Stream15(p) == Output15(p) /\ Unused15(p) /\ Echo15(p)

(* newConnection() inserts the connection after its callback. *)
Map15(p) ==
    /\ p \in map => tcp[p].live
    /\ pc # "dead" => (p \in map <=> tcp[p].live /\ ~(pc = "up" /\ who = p))

InCallback == pc \in {"up", "message"}

Inv15 ==
    /\ N15!NetInv
    /\ app \in {"echo", "daytime", "discard"}
    /\ chan \in [V15!Channels -> E!ChannelType]
    /\ tcp \in [PeersOf("1.5") -> V15!TcpType]
    /\ map \subseteq PeersOf("1.5")
    /\ pc \in {"setup", "poll", "batch", "handle", "up", "message", "dead"}
    /\ stage \in {"HUP", "IN"}
    /\ cur \in V15!Channels /\ who \in V15!Channels /\ batch \subseteq V15!Channels
    /\ history \in [PeersOf("1.5") -> Log15]
    /\ \A c \in V15!Channels : E!Mirrors(chan[c])
    /\ pc = "handle" => cur \notin batch
    /\ InCallback => who \in PeersOf("1.5") /\ tcp[who].live /\ stage = "IN"
    /\ AcceptorDue => backlog # <<>>
    /\ \A p \in PeersOf("1.5") : Conn15(p) /\ Stream15(p) /\ Map15(p)

LEMMA Numbered15 ==
    /\ N15!Numbered
    /\ V15!Channels = PeersOf("1.5") \cup {0} /\ 0 \notin PeersOf("1.5")
    /\ N15!Bytes = Seq(Positive) /\ V15!Bytes = N15!Bytes /\ Greeting \in N15!Bytes
<1>1. N15!Bytes = Seq(Positive) /\ V15!Bytes = N15!Bytes
  BY DEF N15!Bytes, V15!Bytes, Positive
<1>2. QED
  BY <1>1, SizesOf, BytesAssumption DEF N15!Numbered, Versions, V15!Channels, V15!Acceptor

(* The operators of the kernel and of the channels are the same ones. *)
LEMMA Same15 ==
    /\ V15!NetworkTypeOK <=> N15!NetworkTypeOK
    /\ V15!NetworkInit <=> N15!NetworkInit
    /\ V15!PeerStep <=> N15!PeerStep
    /\ V15!UsedFds = N15!UsedFds
    /\ V15!FreeFds = N15!FreeFds
    /\ V15!LowestFree = N15!LowestFree
    /\ \A f : V15!Accepted(f) = N15!Accepted(f)
    /\ \A s, n : V15!RecvResult(s, n) = N15!RecvResult(s, n)
    /\ \A s, n : V15!AfterRecv(s, n) = N15!AfterRecv(s, n)
    /\ \A s, b : V15!AfterSend(s, b) = N15!AfterSend(s, b)
    /\ \A s, b : V15!Taken(s, b) = N15!Taken(s, b)
    /\ V15!Bytes = N15!Bytes
    /\ V15!ChannelType = E!ChannelType
    /\ V15!NewChannel = E!NewChannel
    /\ \A ch : V15!EnabledReadable(ch) = E!EnabledReadable(ch)
    /\ \A ch : V15!EnabledWritable(ch) = E!EnabledWritable(ch)
    /\ \A ch : V15!Mirrors(ch) <=> E!Mirrors(ch)
    /\ \A ch : V15!DiabledAllEvents(ch) = E!DiabledAllEvents(ch)
    /\ \A ch, R : V15!Reported(ch, R) = E!Reported(ch, R)
<1>1. V15!NetworkInit <=> N15!NetworkInit
  BY DEF V15!NetworkInit, N15!NetworkInit
<1>2. V15!PeerStep <=> N15!PeerStep
  BY DEF V15!PeerStep, V15!Connect, V15!PeerSend, V15!PeerRecv, V15!PeerClose, V15!PeerReset,
         V15!Alive, N15!PeerStep, N15!Connect, N15!PeerSend, N15!PeerRecv, N15!PeerClose,
         N15!PeerReset, N15!Alive
<1>3. V15!UsedFds = N15!UsedFds /\ V15!FreeFds = N15!FreeFds
      /\ V15!LowestFree = N15!LowestFree
  BY DEF V15!UsedFds, N15!UsedFds, V15!FreeFds, N15!FreeFds, V15!LowestFree, N15!LowestFree
<1>4. \A f : V15!Accepted(f) = N15!Accepted(f)
  BY DEF V15!Accepted, N15!Accepted
<1>5. /\ \A s, n : V15!RecvResult(s, n) = N15!RecvResult(s, n)
      /\ \A s, n : V15!AfterRecv(s, n) = N15!AfterRecv(s, n)
  BY DEF V15!RecvResult, N15!RecvResult, V15!AfterRecv, N15!AfterRecv
<1>6. V15!Bytes = N15!Bytes /\ (V15!NetworkTypeOK <=> N15!NetworkTypeOK)
  BY DEF V15!Bytes, N15!Bytes, V15!NetworkTypeOK, N15!NetworkTypeOK, V15!SocketType,
         N15!SocketType
<1>7. V15!ChannelType = E!ChannelType /\ V15!NewChannel = E!NewChannel
  BY DEF V15!ChannelType, E!ChannelType, V15!Interest, E!Interest, V15!Events, E!Events,
         V15!NewChannel, E!NewChannel
<1>8. \A ch, op : V15!EpollCtl(ch, op) = E!EpollCtl(ch, op)
  BY DEF V15!EpollCtl, E!EpollCtl
<1>9. \A ch, X : V15!SetEvents(ch, X) = E!SetEvents(ch, X)
  BY <1>8 DEF V15!SetEvents, E!SetEvents, V15!UpdateChannel, E!UpdateChannel,
              V15!IsNoneEvent, E!IsNoneEvent
<1>10. /\ \A ch : V15!EnabledReadable(ch) = E!EnabledReadable(ch)
       /\ \A ch : V15!DiabledAllEvents(ch) = E!DiabledAllEvents(ch)
       /\ \A ch : V15!EnabledWritable(ch) = E!EnabledWritable(ch)
  BY <1>9 DEF V15!EnabledReadable, E!EnabledReadable, V15!DiabledAllEvents,
              E!DiabledAllEvents, V15!EnabledWritable, E!EnabledWritable
<1>11. \A ch, R : V15!Reported(ch, R) = E!Reported(ch, R)
  BY DEF V15!Reported, E!Reported
<1>12. /\ \A s, b : V15!Taken(s, b) = N15!Taken(s, b)
       /\ \A s, b : V15!AfterSend(s, b) = N15!AfterSend(s, b)
       /\ \A ch : V15!Mirrors(ch) <=> E!Mirrors(ch)
  BY DEF V15!Taken, N15!Taken, V15!AfterSend, N15!AfterSend, V15!Mirrors, E!Mirrors
<1>13. QED
  BY <1>1, <1>2, <1>3, <1>4, <1>5, <1>6, <1>7, <1>10, <1>11, <1>12


LEMMA NewTcpIs ==
    /\ V15!NewTcp \in V15!TcpType /\ V15!NewTcp.live
    /\ V15!NewTcp.input = <<>> /\ V15!NewTcp.output = <<>>
BY EmptySeq, Numbered15 DEF V15!NewTcp, V15!TcpType, V15!ConnectStates

LEMMA Init15 == ASSUME V15!Init PROVE Inv15
<1>1. N15!NetworkInit
  BY Same15 DEF V15!Init
<1>2. N15!NetInv
  BY <1>1, Numbered15, N15!InitNet
<1>3. <<>> \in N15!Bytes /\ <<>> \o <<>> = <<>> /\ N15!UpTo(0) = <<>>
  BY EmptySeq, N15!NothingSent DEF N15!Bytes
<1>4. PICK d : d = [V15!NewTcp EXCEPT !.live = FALSE]
  OBVIOUS
<1>5. d \in V15!TcpType /\ ~d.live /\ d.input = <<>> /\ d.output = <<>>
  BY <1>4, NewTcpIs DEF V15!TcpType
<1>6. /\ pc = "setup" /\ stage = "HUP" /\ cur = 0 /\ who = 0 /\ batch = {} /\ map = {}
      /\ app \in {"echo", "daytime", "discard"}
      /\ chan = [c \in V15!Channels |-> E!NewChannel]
      /\ tcp = [p \in PeersOf("1.5") |-> d]
      /\ history = [p \in PeersOf("1.5") |-> [ups |-> 0, downs |-> 0, asked |-> <<>>,
                                              written |-> <<>>]]
  BY <1>4, Same15 DEF V15!Init, V15!Acceptor
<1>7. \A p \in PeersOf("1.5") : sock[p].at = "away" /\ sock[p].rcv = <<>> /\ sent[p] = 0
  BY <1>1 DEF N15!NetworkInit
<1>8. /\ chan \in [V15!Channels -> E!ChannelType]
      /\ \A c \in V15!Channels : E!Mirrors(chan[c]) /\ ~chan[c].added
  BY <1>6, NewChannelIs
<1>9. tcp \in [PeersOf("1.5") -> V15!TcpType] /\ history \in [PeersOf("1.5") -> Log15]
  BY <1>3, <1>5, <1>6 DEF Log15
<1>10. \A p \in PeersOf("1.5") : Conn15(p) /\ Map15(p)
  BY <1>5, <1>6, <1>7, <1>8, Numbered15 DEF Conn15, Map15
<1>11. ASSUME NEW p \in PeersOf("1.5") PROVE Stream15(p)
  <2>1. /\ history[p].asked = <<>> /\ history[p].written = <<>> /\ tcp[p].input = <<>>
        /\ sock[p].rcv = <<>> /\ sent[p] = 0 /\ ~tcp[p].live
    BY <1>5, <1>6, <1>7
  <2>2. PICK a, b, c : a = history[p] /\ b = tcp[p] /\ c = sock[p]
    OBVIOUS
  <2>3. (a.asked \o b.input) \o c.rcv = <<>>
    BY <1>3, <2>1, <2>2
  <2>4. (history[p].asked \o tcp[p].input) \o sock[p].rcv = N15!UpTo(sent[p])
    BY <1>3, <2>1, <2>2, <2>3
  <2>5. QED
    BY <2>1, <2>4 DEF Stream15, Output15, Unused15, Echo15
<1>12. QED
  BY <1>2, <1>6, <1>8, <1>9, <1>10, <1>11, Numbered15 DEF Inv15, AcceptorDue, InCallback

(* Whoever is not concerned by a step. *)
LEMMA Keep15 ==
    ASSUME NEW q, Conn15(q), Stream15(q), app' = app,
           sock'[q] = sock[q], sent'[q] = sent[q], chan'[q] = chan[q], tcp'[q] = tcp[q],
           history'[q] = history[q], q \in batch' => q \in batch
    PROVE  Conn15(q)' /\ Stream15(q)'
BY DEF Conn15, Stream15, Output15, Unused15, Echo15

LEMMA Quiet15 ==
    ASSUME Inv15, UNCHANGED <<N15!network, app, chan, tcp, map, history, who>>,
           pc' \in {"setup", "poll", "batch", "handle", "dead"} \/ pc' = pc,
           pc' # "dead" => pc # "dead" /\ (pc = "up" => pc' = "up"),
           pc' \in {"up", "message"} => stage' = stage,
           stage' \in {"HUP", "IN"}, cur' \in V15!Channels, batch' \subseteq batch,
           pc' = "handle" => cur' \notin batch', AcceptorDue' => AcceptorDue
    PROVE  Inv15'
<1>1. sock' = sock /\ sent' = sent
  BY DEF N15!network
<1>2. N15!NetInv'
  BY N15!NetworkStays DEF Inv15
<1>3. ASSUME NEW p \in PeersOf("1.5") PROVE Conn15(p)' /\ Stream15(p)' /\ Map15(p)'
  <2>1. Conn15(p)' /\ Stream15(p)'
    BY <1>1, Keep15 DEF Inv15
  <2>2. Map15(p)'
    BY DEF Inv15, Map15
  <2>3. QED
    BY <2>1, <2>2
<1>4. InCallback' => who' \in PeersOf("1.5") /\ tcp'[who'].live /\ stage' = "IN"
  BY DEF InCallback, Inv15
<1>5. QED
  BY <1>2, <1>3, <1>4 DEF Inv15, V15!Channels, N15!network

LEMMA Start15 == ASSUME Inv15, V15!Start PROVE Inv15'
<1>1. /\ UNCHANGED <<N15!network, app, tcp, map, stage, cur, who, batch, history>>
      /\ pc = "setup" /\ pc' = "poll"
      /\ chan' = [chan EXCEPT ![0] = E!EnabledReadable(chan[0])]
  BY Same15 DEF V15!Start, V15!Listen, V15!Acceptor, V15!network, N15!network
<1>2. PICK ch \in E!ChannelType : ch = chan[0] /\ E!Mirrors(ch)
  BY Numbered15 DEF Inv15
<1>3. E!EnabledReadable(ch) \in E!ChannelType /\ E!Mirrors(E!EnabledReadable(ch))
  BY <1>2, ChannelChanges
<1>4. /\ chan' \in [V15!Channels -> E!ChannelType]
      /\ \A c \in V15!Channels : E!Mirrors(chan'[c])
      /\ \A p \in PeersOf("1.5") : chan'[p] = chan[p]
  BY <1>1, <1>2, <1>3, Numbered15 DEF Inv15
<1>5. sock' = sock /\ sent' = sent /\ N15!NetInv'
  BY <1>1, N15!NetworkStays DEF Inv15, N15!network
<1>6. ASSUME NEW p \in PeersOf("1.5") PROVE Conn15(p)' /\ Stream15(p)' /\ Map15(p)'
  <2>1. Conn15(p)' /\ Stream15(p)'
    BY <1>1, <1>4, <1>5, Keep15 DEF Inv15
  <2>2. Map15(p)'
    BY <1>1 DEF Inv15, Map15
  <2>3. QED
    BY <2>1, <2>2
<1>7. QED
  BY <1>1, <1>4, <1>5, <1>6 DEF Inv15, V15!Channels, N15!network, AcceptorDue, InCallback

LEMMA ConditionsAre15 ==
    ASSUME NEW c
    PROVE  /\ V15!Conditions(c) \in SUBSET E!Events
           /\ c # 0 /\ "HUP" \in V15!Conditions(c) => sock[c].rst
           /\ c = 0 /\ V15!Conditions(c) # {} => backlog # <<>>
<1>1. CASE c = 0
  BY <1>1 DEF V15!Conditions, V15!Acceptor, E!Events, E!Interest
<1>2. CASE c # 0
  <2>1. PICK A, B, C :
           /\ A = (IF V15!Readable(sock[c]) THEN {"IN"} ELSE {})
           /\ B = (IF V15!Writable(sock[c]) THEN {"OUT"} ELSE {})
           /\ C = (IF sock[c].rst THEN {"HUP"} ELSE {})
    OBVIOUS
  <2>2. V15!Conditions(c) = {} \/ V15!Conditions(c) = A \cup B \cup C
    BY <1>2, <2>1 DEF V15!Conditions, V15!Acceptor
  <2>3. /\ A \cup B \cup C \in SUBSET E!Events
        /\ "HUP" \in A \cup B \cup C => sock[c].rst
    BY <2>1 DEF E!Events, E!Interest
  <2>4. QED
    BY <1>2, <2>2, <2>3
<1>3. QED
  BY <1>1, <1>2

LEMMA Poll15 == ASSUME Inv15, V15!Poll PROVE Inv15'
<1>1. /\ UNCHANGED <<N15!network, app, tcp, map, stage, cur, who, history>>
      /\ pc = "poll" /\ pc' = "batch"
      /\ batch' = {c \in V15!Channels : V15!ReportOf(c) # {}}
      /\ chan' = [c \in V15!Channels |->
                    IF c \in batch' THEN [chan[c] EXCEPT !.revents = V15!ReportOf(c)]
                    ELSE chan[c]]
  BY DEF V15!Poll, V15!network, N15!network
<1>2. ASSUME NEW c \in V15!Channels
      PROVE  /\ chan'[c] \in E!ChannelType /\ E!Mirrors(chan'[c])
             /\ chan'[c].added = chan[c].added
             /\ c \in batch' => chan[c].added
             /\ chan'[c].events = chan[c].events
             /\ c = 0 /\ c \in batch' => backlog # <<>>
  <2>1. PICK ch \in E!ChannelType : ch = chan[c] /\ E!Mirrors(ch)
    BY DEF Inv15
  <2>2. PICK R \in SUBSET E!Events : /\ R = V15!Conditions(c)
                                    /\ (c # 0 /\ "HUP" \in R => sock[c].rst)
                                    /\ (c = 0 /\ R # {} => backlog # <<>>)
    BY ConditionsAre15
  <2>3. V15!ReportOf(c) = E!Reported(ch, R)
    BY <2>1, <2>2, Same15 DEF V15!ReportOf
  <2>4. PICK d : d = [ch EXCEPT !.revents = E!Reported(ch, R)]
    OBVIOUS
  <2>5. /\ d \in E!ChannelType /\ d.added = ch.added /\ d.events = ch.events
        /\ E!Mirrors(d)
    BY <2>1, <2>4, ReportedIs
  <2>6. chan'[c] = IF c \in batch' THEN d ELSE ch
    BY <1>1, <2>1, <2>3, <2>4
  <2>7. c \in batch' => ch.added /\ R # {}
    BY <1>1, <2>3 DEF E!Reported
  <2>8. QED
    BY <2>1, <2>2, <2>5, <2>6, <2>7
<1>3. sock' = sock /\ sent' = sent /\ N15!NetInv'
  BY <1>1, N15!NetworkStays DEF Inv15, N15!network
<1>4. chan' \in [V15!Channels -> E!ChannelType]
  BY <1>1, <1>2
<1>5. ASSUME NEW p \in PeersOf("1.5") PROVE Conn15(p)' /\ Stream15(p)' /\ Map15(p)'
  <2>1. Conn15(p) /\ Stream15(p) /\ Map15(p) /\ p \in V15!Channels /\ p # 0
    BY Numbered15 DEF Inv15
  <2>2. Conn15(p)'
    BY <1>1, <1>2, <1>3, <2>1 DEF Conn15
  <2>3. E!IsWriting(chan'[p]) <=> E!IsWriting(chan[p])
    BY <1>2, <2>1 DEF E!IsWriting
  <2>4. Stream15(p)'
    BY <1>1, <1>3, <2>1, <2>3 DEF Stream15, Output15, Unused15, Echo15
  <2>5. Map15(p)'
    BY <1>1, <2>1 DEF Map15
  <2>6. QED
    BY <2>2, <2>4, <2>5
<1>6. batch' \subseteq V15!Channels /\ 0 \in V15!Channels
  BY <1>1, Numbered15
<1>7. AcceptorDue' => backlog' # <<>>
  BY <1>1, <1>2, <1>6 DEF AcceptorDue, N15!network
<1>8. QED
  BY <1>1, <1>2, <1>3, <1>4, <1>5, <1>6, <1>7 DEF Inv15, V15!Channels, InCallback

LEMMA FreeFds15 ==
    ASSUME N15!NetInv, V15!FdsLeft >= 2 PROVE N15!FreeFds # {}
<1>1. PICK F, U, P, L : /\ F = FdsOf("1.5") /\ U = N15!UsedFds /\ P = PeersOf("1.5")
                        /\ L = {p \in P : tcp[p].live}
  OBVIOUS
<1>2. IsFiniteSet(F) /\ IsFiniteSet(P)
  <2>1. Size["1.5"].fds \in Nat /\ Size["1.5"].peers \in Nat
    BY SizesOf DEF Versions
  <2>2. PICK m \in Int, n \in Int : F = 5..m /\ P = 1..n
    BY <1>1, <2>1 DEF FdsOf, PeersOf
  <2>3. QED
    BY <2>2, FS_Interval
<1>3. IsFiniteSet(L)
  BY <1>1, <1>2, FS_Subset
<1>4. U \in SUBSET F
  BY <1>1 DEF N15!NetInv, N15!FdsDistinct, N15!UsedFds
<1>5. Cardinality(F) - Cardinality(U) - Cardinality(L) >= 2
  <2>1. V15!FdsLeft = Cardinality(FdsOf("1.5")) - Cardinality(V15!UsedFds)
                      - Cardinality({p \in PeersOf("1.5") : tcp[p].live})
    BY DEF V15!FdsLeft, V15!Cardinality, Cardinality
  <2>2. L = {p \in PeersOf("1.5") : tcp[p].live}
    BY <1>1
  <2>3. V15!UsedFds = U
    BY <1>1, Same15
  <2>4. QED
    BY <1>1, <2>1, <2>2, <2>3
<1>6. F \ U # {}
  BY <1>2, <1>3, <1>4, <1>5, OneIsFree
<1>7. QED
  BY <1>1, <1>6 DEF N15!FreeFds

LEMMA Accept15 == ASSUME Inv15, V15!Accept PROVE Inv15'
<1>1. PICK h, t : h = Head(backlog) /\ t = [V15!NewTcp EXCEPT !.connectState = "CONNECTED"]
  OBVIOUS
<1>2. /\ pc = "handle" /\ cur = 0 /\ stage = "IN" /\ V15!FdsLeft >= 2
      /\ sock' = N15!Accepted(N15!LowestFree) /\ backlog' = Tail(backlog) /\ sent' = sent
      /\ map' = map /\ stage' = stage /\ pc' = "up" /\ cur' = cur /\ who' = h
      /\ batch' = batch /\ app' = app
      /\ chan' = [chan EXCEPT ![h] = E!EnabledReadable(E!NewChannel)]
      /\ tcp' = [tcp EXCEPT ![h] = t]
      /\ history' = [history EXCEPT ![h].ups = @ + 1]
  BY <1>1, Same15 DEF V15!Accept, V15!At, V15!Acceptor, V15!NewConnection,
       V15!ConnectionEstablished, V15!CallBack
<1>3. backlog # <<>> /\ N15!FreeFds # {}
  BY <1>2, FreeFds15 DEF Inv15, AcceptorDue
<1>4. /\ N15!NetInv' /\ h \in PeersOf("1.5") /\ sock[h].at = "queued"
      /\ sock'[h] = [sock[h] EXCEPT !.at = "open", !.fd = N15!LowestFree]
      /\ \A q \in PeersOf("1.5") : q # h => sock'[q] = sock[q]
  BY <1>1, <1>2, <1>3, Numbered15, N15!AcceptIs DEF Inv15
<1>5. sock[h] \in N15!SocketType
  BY <1>4 DEF Inv15, N15!NetInv, N15!NetworkTypeOK
<1>6. sock'[h].at = "open" /\ sock'[h].rcv = sock[h].rcv
  BY <1>4, <1>5 DEF N15!SocketType
<1>7. PICK d : d = E!EnabledReadable(E!NewChannel)
  OBVIOUS
<1>8. d \in E!ChannelType /\ d.events = {"IN"} /\ d.added /\ E!Mirrors(d)
  <2>1. PICK c \in E!ChannelType : c = E!NewChannel /\ E!Mirrors(c) /\ c.events = {}
    BY NewChannelIs DEF E!NewChannel
  <2>2. d.events = c.events \cup {"IN"}
    BY <1>7, <2>1, ChannelChanges
  <2>3. QED
    BY <1>7, <2>1, <2>2, ChannelChanges
<1>9. /\ chan' \in [V15!Channels -> E!ChannelType] /\ chan'[h] = d
      /\ \A c \in V15!Channels : E!Mirrors(chan'[c])
      /\ \A q \in PeersOf("1.5") : q # h => chan'[q] = chan[q]
  BY <1>2, <1>4, <1>7, <1>8, Numbered15 DEF Inv15
<1>10. /\ t \in V15!TcpType /\ t.live /\ t.connectState = "CONNECTED"
       /\ t.input = <<>> /\ t.output = <<>>
  BY <1>1, NewTcpIs DEF V15!TcpType, V15!ConnectStates
<1>11. /\ tcp' \in [PeersOf("1.5") -> V15!TcpType] /\ tcp'[h] = t
       /\ \A q \in PeersOf("1.5") : q # h => tcp'[q] = tcp[q]
  BY <1>2, <1>4, <1>10 DEF Inv15
<1>12. PICK g, k : g = history[h] /\ k = [g EXCEPT !.ups = @ + 1]
  OBVIOUS
<1>13. g \in Log15 /\ g.ups = 0 /\ g.downs = 0 /\ ~tcp[h].live
  BY <1>4, <1>12 DEF Inv15, Conn15, Log15
<1>14. k \in Log15 /\ k.ups = 1 /\ k.downs = 0 /\ k.asked = g.asked /\ k.written = g.written
  BY <1>12, <1>13 DEF Log15
<1>15. history' = [history EXCEPT ![h] = k]
  BY <1>2, <1>12
<1>16. /\ history' \in [PeersOf("1.5") -> Log15] /\ history'[h] = k
       /\ \A q \in PeersOf("1.5") : q # h => history'[q] = history[q]
  BY <1>4, <1>14, <1>15 DEF Inv15
<1>17. ASSUME NEW q \in PeersOf("1.5"), q # h PROVE Conn15(q)' /\ Stream15(q)' /\ Map15(q)'
  <2>1. Conn15(q)' /\ Stream15(q)'
    BY <1>2, <1>4, <1>9, <1>11, <1>16, <1>17, Keep15 DEF Inv15
  <2>2. Map15(q)'
    BY <1>2, <1>11, <1>17 DEF Inv15, Map15
  <2>3. QED
    BY <2>1, <2>2
<1>18. Conn15(h)' /\ Map15(h)'
  <2>1. Conn15(h)'
    BY <1>2, <1>6, <1>8, <1>9, <1>10, <1>11, <1>14, <1>16 DEF Conn15
  <2>2. h \notin map
    BY <1>4, <1>13 DEF Inv15, Map15
  <2>3. QED
    BY <1>2, <2>1, <2>2 DEF Map15
<1>19. Stream15(h)'
  <2>1. /\ g.asked = <<>> /\ g.written = <<>> /\ tcp[h].input = <<>>
        /\ app = "echo" => (g.asked \o tcp[h].input) \o sock[h].rcv = N15!UpTo(sent[h])
    BY <1>4, <1>12, <1>13 DEF Inv15, Stream15, Unused15, Echo15
  <2>2. /\ history'[h].asked = <<>> /\ history'[h].written = <<>> /\ tcp'[h].output = <<>>
        /\ tcp'[h].input = <<>> /\ history'[h].ups = 1 /\ history'[h].downs = 0
        /\ sock'[h].rcv = sock[h].rcv /\ app' = app /\ sent' = sent
    BY <1>2, <1>6, <1>10, <1>11, <1>14, <1>16, <2>1
  <2>3. <<>> \o <<>> = <<>>
    BY EmptySeq, ConcatEmptySeq
  <2>4. app' = "echo" =>
          (history'[h].asked \o tcp'[h].input) \o sock'[h].rcv = N15!UpTo(sent'[h])
    BY ONLY <2>1, <2>2
  <2>5. ~E!IsWriting(chan'[h])
    BY <1>8, <1>9 DEF E!IsWriting
  <2>6. history'[h].asked = history'[h].written \o tcp'[h].output
    BY ONLY <2>2, <2>3
  <2>7. Output15(h)'
    BY ONLY <2>2, <2>5, <2>6 DEF Output15
  <2>8. Unused15(h)'
    BY ONLY <2>2 DEF Unused15
  <2>9. Echo15(h)'
    BY ONLY <2>4 DEF Echo15
  <2>10. QED
    BY <2>7, <2>8, <2>9 DEF Stream15
<1>20. 0 \notin batch
  BY <1>2 DEF Inv15
<1>21. /\ InCallback' => who' \in PeersOf("1.5") /\ tcp'[who'].live /\ stage' = "IN"
       /\ ~AcceptorDue'
  BY <1>2, <1>4, <1>10, <1>11, <1>20 DEF AcceptorDue
<1>22. who' \in V15!Channels
  BY <1>2, <1>4, Numbered15
<1>23. QED
  BY <1>2, <1>4, <1>9, <1>11, <1>16, <1>17, <1>18, <1>19, <1>21, <1>22
     DEF Inv15, V15!Channels

LEMMA HandleClose15 ==
    ASSUME Inv15, NEW p \in PeersOf("1.5"), p = cur, pc = "handle", tcp[p].live,
           V15!HandleClose(p)
    PROVE  Inv15'
<1>1. PICK a, t : /\ a = tcp[p]
                  /\ t = [a EXCEPT !.live = FALSE, !.connectState = "DISCONNECTED"]
  OBVIOUS
<1>2. /\ sock' = sock /\ backlog' = backlog /\ sent' = sent /\ app' = app /\ who' = who
      /\ map' = map \ {p} /\ stage' = "IN" /\ pc' \in {"handle", "batch"} /\ cur' = cur
      /\ batch' = batch
      /\ chan' = [chan EXCEPT ![p] = E!DiabledAllEvents(@)]
      /\ tcp' = [tcp EXCEPT ![p] = t]
      /\ history' = [history EXCEPT ![p].downs = @ + 1]
  BY <1>1, Same15 DEF V15!HandleClose, V15!RemoveConnection, V15!Return, V15!network
<1>3. PICK ch, d : ch = chan[p] /\ d = E!DiabledAllEvents(ch)
  OBVIOUS
<1>4. ch \in E!ChannelType /\ E!Mirrors(ch) /\ ch.added
  BY <1>3, Numbered15 DEF Inv15, Conn15
<1>5. d \in E!ChannelType /\ E!Mirrors(d) /\ ~d.added
  BY <1>3, <1>4, ChannelChanges
<1>6. /\ chan' \in [V15!Channels -> E!ChannelType] /\ chan'[p] = d
      /\ \A c \in V15!Channels : E!Mirrors(chan'[c])
      /\ \A q \in PeersOf("1.5") : q # p => chan'[q] = chan[q]
  BY <1>2, <1>3, <1>5, Numbered15 DEF Inv15
<1>7. t \in V15!TcpType /\ ~t.live
  BY <1>1 DEF Inv15, V15!TcpType, V15!ConnectStates
<1>8. /\ tcp' \in [PeersOf("1.5") -> V15!TcpType] /\ tcp'[p] = t
      /\ \A q \in PeersOf("1.5") : q # p => tcp'[q] = tcp[q]
  BY <1>2, <1>7 DEF Inv15
<1>9. PICK g, k : g = history[p] /\ k = [g EXCEPT !.downs = @ + 1]
  OBVIOUS
<1>10. g \in Log15 /\ g.ups = 1 /\ g.downs = 0 /\ sock[p].at = "open"
  BY <1>9 DEF Inv15, Conn15
<1>11. k \in Log15 /\ k.ups = 1 /\ k.downs = 1
  BY <1>9, <1>10 DEF Log15
<1>12. history' = [history EXCEPT ![p] = k]
  BY <1>2, <1>9
<1>13. /\ history' \in [PeersOf("1.5") -> Log15] /\ history'[p] = k
       /\ \A q \in PeersOf("1.5") : q # p => history'[q] = history[q]
  BY <1>11, <1>12 DEF Inv15
<1>14. ASSUME NEW q \in PeersOf("1.5"), q # p PROVE Conn15(q)' /\ Stream15(q)' /\ Map15(q)'
  <2>1. Conn15(q)' /\ Stream15(q)'
    BY <1>2, <1>6, <1>8, <1>13, <1>14, Keep15 DEF Inv15
  <2>2. Map15(q)'
    BY <1>2, <1>8, <1>14 DEF Inv15, Map15
  <2>3. QED
    BY <2>1, <2>2
<1>15. Conn15(p)'
  BY <1>2, <1>5, <1>6, <1>7, <1>8, <1>10, <1>11, <1>13 DEF Conn15, Inv15
<1>16. Stream15(p)' /\ Map15(p)'
  <2>1. ~tcp'[p].live /\ history'[p].ups = 1 /\ history'[p].downs = 1 /\ p \notin map'
    BY <1>2, <1>7, <1>8, <1>11, <1>13
  <2>2. Output15(p)' /\ Map15(p)'
    BY ONLY <2>1 DEF Output15, Map15
  <2>3. Unused15(p)' /\ Echo15(p)'
    BY ONLY <2>1 DEF Unused15, Echo15
  <2>4. QED
    BY <2>2, <2>3 DEF Stream15
<1>17. AcceptorDue' => AcceptorDue
  BY <1>2 DEF AcceptorDue
<1>18. N15!NetInv'
  <2>1. UNCHANGED N15!network
    BY <1>2 DEF N15!network
  <2>2. QED
    BY <2>1, N15!NetworkStays DEF Inv15
<1>19. QED
  BY <1>2, <1>6, <1>8, <1>13, <1>14, <1>15, <1>16, <1>17, <1>18
     DEF Inv15, V15!Channels, InCallback

LEMMA HandleRead15 == ASSUME Inv15, V15!HandleRead PROVE Inv15'
<1>1. PICK p, m, n, b, a, s :
         /\ p = cur /\ m = Size["1.5"].maxIn /\ a = sock[p] /\ n = N15!RecvResult(a, m)
         /\ b = SubSeq(a.rcv, 1, n) /\ s = N15!AfterRecv(a, n)
  OBVIOUS
<1>2. /\ p \in PeersOf("1.5") /\ pc = "handle" /\ stage = "IN" /\ tcp[p].live
      /\ m \in Nat /\ a \in N15!SocketType
  BY <1>1, Numbered15
     DEF V15!HandleRead, V15!At, V15!Freed, V15!Acceptor, Inv15, N15!NetInv,
         N15!NetworkTypeOK, N15!Numbered
<1>3. \/ n = 0 /\ V15!HandleClose(p)
      \/ /\ n # 0
         /\ sock' = [sock EXCEPT ![p] = s]
         /\ tcp' = [tcp EXCEPT ![p].input = @ \o b]
         /\ \/ V15!CallBack(p, "message")
            \/ V15!Return /\ who' = who
         /\ UNCHANGED <<backlog, sent, app, chan, map, history>>
  BY <1>1, Same15 DEF V15!HandleRead, V15!EndOfFile, V15!ReadFd, V15!Appended, V15!Return
<1>4. CASE n = 0 /\ V15!HandleClose(p)
  BY <1>1, <1>2, <1>4, HandleClose15
<1>5. CASE /\ n # 0
           /\ sock' = [sock EXCEPT ![p] = s]
           /\ tcp' = [tcp EXCEPT ![p].input = @ \o b]
           /\ \/ V15!CallBack(p, "message")
              \/ V15!Return /\ who' = who
           /\ UNCHANGED <<backlog, sent, app, chan, map, history>>
  <2>1. PICK size \in Nat \ {0} : n = N15!RecvResult(a, size)
    <3>1. CASE m \in Nat \ {0}
      BY <1>1, <3>1
    <3>2. CASE m = 0
      <4>1. Len(a.rcv) \in Nat
        BY <1>2, LenProperties DEF N15!SocketType, N15!Bytes
      <4>2. a.rcv = <<>>
        BY <1>1, <1>5, <3>2, <4>1 DEF N15!RecvResult
      <4>3. n = N15!RecvResult(a, 1)
        BY <1>1, <4>2 DEF N15!RecvResult
      <4>4. QED
        BY <4>3
    <3>3. QED
      BY <1>2, <3>1, <3>2
  <2>2. /\ s \in N15!SocketType /\ s.at = a.at /\ s.fd = a.fd /\ s.snd = a.snd
        /\ s.fin = a.fin /\ s.rst = a.rst /\ s.err \in {a.err, "none"}
        /\ b \in N15!Bytes
        /\ \A h \in N15!Bytes : /\ h \o b \in N15!Bytes
                                /\ (h \o b) \o s.rcv = h \o a.rcv
    <3>1. s = N15!AfterGot(a, size) /\ b = N15!Got(a, size)
      BY <1>1, <2>1 DEF N15!AfterGot, N15!Got
    <3>2. N15!RecvResult(a, size) # 0
      BY <1>5, <2>1
    <3>3. QED
      BY ONLY <1>2, <2>1, <3>1, <3>2, N15!TakenIs
  <2>3. a.at = "open"
    BY <1>1, <1>2 DEF Inv15, Conn15
  <2>4. /\ sock' \in [PeersOf("1.5") -> N15!SocketType] /\ sock'[p] = s
        /\ \A q \in PeersOf("1.5") : q # p => sock'[q] = sock[q]
    BY <1>2, <1>5, <2>2 DEF Inv15, N15!NetInv, N15!NetworkTypeOK
  <2>5. \A q \in PeersOf("1.5") : N15!Used(q)
    BY <1>1, <1>2, <2>2, <2>3, <2>4 DEF Inv15, N15!NetInv, N15!Fresh, N15!Used
  <2>6. N15!NetInv'
    BY <1>5, <2>4, <2>5, N15!OpenChange DEF Inv15
  <2>7. PICK c, x, t : c = tcp[p] /\ x = c.input \o b /\ t = [c EXCEPT !.input = x]
    OBVIOUS
  <2>8. /\ c \in V15!TcpType /\ c.live /\ c.input \in N15!Bytes
    BY <1>2, <2>7, Numbered15 DEF Inv15, V15!TcpType
  <2>9. x \in N15!Bytes
    BY <2>2, <2>7, <2>8
  <2>10. /\ t \in V15!TcpType /\ t.live /\ t.input = x /\ t.output = c.output
         /\ t.connectState = c.connectState
    BY <2>7, <2>8, <2>9, Numbered15 DEF V15!TcpType
  <2>11. tcp' = [tcp EXCEPT ![p] = t]
    BY <1>5, <2>7
  <2>12. /\ tcp' \in [PeersOf("1.5") -> V15!TcpType] /\ tcp'[p] = t
         /\ \A q \in PeersOf("1.5") : q # p => tcp'[q] = tcp[q]
    BY <1>2, <2>10, <2>11 DEF Inv15
  <2>13. /\ cur' = cur /\ batch' = batch /\ stage' = "IN"
         /\ \/ pc' = "message" /\ who' = p
            \/ pc' = "batch" /\ who' = who
    BY <1>2, <1>5 DEF V15!Return, V15!CallBack
  <2>14. ASSUME NEW q \in PeersOf("1.5"), q # p PROVE Conn15(q)' /\ Stream15(q)'
    BY <1>5, <2>4, <2>12, <2>13, <2>14, Keep15 DEF Inv15
  <2>15. \A q \in PeersOf("1.5") : tcp'[q].live = tcp[q].live
    BY <2>7, <2>8, <2>10, <2>12
  <2>16. ASSUME NEW q \in PeersOf("1.5") PROVE Map15(q)'
    BY <1>2, <1>5, <2>13, <2>15 DEF Inv15, Map15
  <2>17. Conn15(p)'
    BY <1>2, <1>5, <2>2, <2>3, <2>4, <2>7, <2>10, <2>12, <2>13 DEF Inv15, Conn15
  <2>18. Stream15(p)'
    <3>1. PICK g : g = history[p]
      OBVIOUS
    <3>2. g \in Log15 /\ g.ups = 1 /\ g.downs = 0 /\ g.asked \in N15!Bytes
      BY <1>2, <3>1 DEF Inv15, Conn15, Log15
    <3>3. app = "echo" => (g.asked \o c.input) \o a.rcv = N15!UpTo(sent[p])
      BY <1>1, <1>2, <2>7, <3>1, <3>2 DEF Inv15, Stream15, Echo15
    <3>4. (g.asked \o x) \o s.rcv = (g.asked \o c.input) \o a.rcv
      <4>1. PICK y \in N15!Bytes : y = g.asked \o c.input
        BY ONLY <2>8, <3>2, N15!BytesConcat
      <4>2. g.asked \o x = y \o b
        <5>1. PICK i, j : i = g.asked /\ j = c.input
          OBVIOUS
        <5>2. i \in N15!Bytes /\ j \in N15!Bytes /\ b \in N15!Bytes
              /\ x = j \o b /\ y = i \o j
          BY <2>2, <2>7, <2>8, <3>2, <4>1, <5>1
        <5>3. i \o x = y \o b
          BY ONLY <5>2, N15!Regroup
        <5>4. QED
          BY <5>1, <5>3
      <4>3. (y \o b) \o s.rcv = y \o a.rcv
        BY <2>2
      <4>4. QED
        BY ONLY <4>1, <4>2, <4>3
    <3>5. /\ g.asked = g.written \o c.output
          /\ E!IsWriting(chan[p]) <=> c.output # <<>>
      BY <1>2, <2>7, <3>1 DEF Inv15, Stream15, Output15
    <3>6. /\ history'[p] = g /\ tcp'[p].input = x /\ tcp'[p].output = c.output
          /\ sock'[p].rcv = s.rcv /\ chan' = chan /\ app' = app /\ sent' = sent
      BY <1>5, <2>4, <2>10, <2>12, <3>1
    <3>7. /\ history'[p].asked = history'[p].written \o tcp'[p].output
          /\ E!IsWriting(chan'[p]) <=> tcp'[p].output # <<>>
      BY ONLY <3>5, <3>6
    <3>8. app' = "echo" =>
            (history'[p].asked \o tcp'[p].input) \o sock'[p].rcv = N15!UpTo(sent'[p])
      BY ONLY <3>3, <3>4, <3>6
    <3>9. history'[p].ups = 1
      BY <3>2, <3>6
    <3>10. Output15(p)'
      BY ONLY <3>7 DEF Output15
    <3>11. Unused15(p)'
      BY ONLY <3>9 DEF Unused15
    <3>12. Echo15(p)'
      BY ONLY <3>8 DEF Echo15
    <3>13. QED
      BY <3>10, <3>11, <3>12 DEF Stream15
  <2>19. AcceptorDue' => AcceptorDue
    BY <2>13 DEF AcceptorDue
  <2>20. InCallback' => who' \in PeersOf("1.5") /\ tcp'[who'].live /\ stage' = "IN"
    BY <1>2, <2>10, <2>12, <2>13 DEF InCallback
  <2>21. who' \in V15!Channels
    BY <1>2, <2>13, Numbered15 DEF Inv15
  <2>22. QED
    BY <1>5, <2>6, <2>12, <2>13, <2>14, <2>16, <2>17, <2>18, <2>19, <2>20, <2>21
       DEF Inv15, V15!Channels
<1>6. QED
  BY <1>3, <1>4, <1>5

(* What send() leaves alone, and what it keeps in order. *)
SendKeeps ==
    /\ N15!NetInv'
    /\ chan' \in [V15!Channels -> E!ChannelType]
    /\ \A c \in V15!Channels : E!Mirrors(chan'[c])
    /\ tcp' \in [PeersOf("1.5") -> V15!TcpType]
    /\ history' \in [PeersOf("1.5") -> Log15]
    /\ \A q \in PeersOf("1.5") : Conn15(q)' /\ Stream15(q)' /\ (tcp'[q].live <=> tcp[q].live)
    /\ UNCHANGED <<backlog, sent>>

LEMMA Send15 ==
    ASSUME Inv15, NEW p \in PeersOf("1.5"), tcp[p].live, NEW bytes \in N15!Bytes,
           NEW input \in N15!Bytes, app = "echo" => bytes = tcp[p].input /\ input = <<>>,
           V15!Send(p, bytes, input), UNCHANGED <<app, batch>>
    PROVE  SendKeeps
<1>1. PICK a, c, ch, g, k, u, x :
         /\ a = sock[p] /\ c = tcp[p] /\ ch = chan[p] /\ g = history[p]
         /\ k = (IF V15!MayWrite(p) THEN N15!Taken(a, bytes) ELSE 0)
         /\ u = SubSeq(bytes, 1 + k, Len(bytes))
         /\ x = SubSeq(bytes, 1, Len(bytes) - Len(u))
  OBVIOUS
<1>2. /\ a \in N15!SocketType /\ a.at = "open" /\ Len(a.snd) <= Size["1.5"].sndBuf
      /\ (a.rst => a.snd = <<>>) /\ (a.err # "none" => a.rst)
      /\ c \in V15!TcpType /\ c.live /\ c.connectState = "CONNECTED"
      /\ c.input \in N15!Bytes /\ c.output \in N15!Bytes
      /\ ch \in E!ChannelType /\ E!Mirrors(ch) /\ ch.added
      /\ g \in Log15 /\ g.ups = 1 /\ g.downs = 0
      /\ g.asked \in N15!Bytes /\ g.written \in N15!Bytes
  BY <1>1, Numbered15
     DEF Inv15, Conn15, V15!TcpType, Log15, N15!NetInv, N15!NetworkTypeOK, N15!Fresh
<1>3. /\ g.asked = g.written \o c.output
      /\ (E!IsWriting(ch) <=> c.output # <<>>)
  BY <1>1, <1>2 DEF Inv15, Stream15, Output15
<1>4. app = "echo" => (g.asked \o c.input) \o a.rcv = N15!UpTo(sent[p])
  BY <1>1, <1>2 DEF Inv15, Stream15, Echo15
<1>5. /\ V15!IsWriting(ch) = E!IsWriting(ch)
      /\ V15!MayWrite(p) <=> c.output = <<>>
  BY <1>1, <1>3 DEF V15!MayWrite, V15!IsWriting, E!IsWriting
<1>6. PICK s : s = N15!AfterSend(a, bytes)
  OBVIOUS
<1>7. /\ s \in N15!SocketType /\ s.at = a.at /\ s.fd = a.fd /\ s.rcv = a.rcv
      /\ s.fin = a.fin /\ s.rst = a.rst /\ s.err \in {a.err, "none"}
      /\ s.rst => s.snd = <<>>
      /\ Len(s.snd) <= Size["1.5"].sndBuf
      /\ N15!Taken(a, bytes) \in 0..Len(bytes)
  BY <1>2, <1>6, Numbered15, N15!AfterSendIs
<1>8. k \in 0..Len(bytes) /\ (k = 0 \/ c.output = <<>>)
  <2>1. Len(bytes) \in Nat
    BY LenProperties DEF N15!Bytes
  <2>2. QED
    BY <1>1, <1>5, <1>7, <2>1
<1>9. PICK w, o, b : w = g.written /\ o = c.output /\ b = g.asked
  OBVIOUS
<1>10. /\ u \in N15!Bytes /\ w \o x \in N15!Bytes /\ o \o u \in N15!Bytes
       /\ b \o bytes \in N15!Bytes /\ b \o bytes = (w \o x) \o (o \o u)
       /\ o \o u = <<>> <=> o = <<>> /\ u = <<>>
  <2>1. w \in N15!Bytes /\ o \in N15!Bytes /\ b = w \o o /\ (k = 0 \/ o = <<>>)
    BY <1>2, <1>3, <1>8, <1>9
  <2>2. u = SubSeq(bytes, 1 + k, Len(bytes)) /\ x = SubSeq(bytes, 1, Len(bytes) - Len(u))
    BY <1>1
  <2>3. k \in 0..Len(bytes)
    BY <1>8
  <2>4. N15!SendOf(bytes, k, w, o, u, x, b)
    BY <2>1, <2>2, <2>3 DEF N15!SendOf
  <2>5. QED
    BY ONLY <2>4, N15!SendSplits
<1>11. PICK i, j, l : i = b \o bytes /\ j = w \o x /\ l = o \o u
  OBVIOUS
<1>12. PICK t, h, d :
          /\ t = [c EXCEPT !.output = l, !.input = input]
          /\ h = [g EXCEPT !.asked = i, !.written = j]
          /\ d = (IF u # <<>> /\ ~E!IsWriting(ch) THEN E!EnabledWritable(ch) ELSE ch)
  OBVIOUS
<1>13. /\ t \in V15!TcpType /\ t.live /\ t.connectState = "CONNECTED"
       /\ t.output = l /\ t.input = input
  BY <1>2, <1>10, <1>11, <1>12, Numbered15 DEF V15!TcpType
<1>14. h \in Log15 /\ h.ups = 1 /\ h.downs = 0 /\ h.asked = i /\ h.written = j
  BY <1>2, <1>10, <1>11, <1>12, N15!BytesConcat DEF Log15
<1>15. d \in E!ChannelType /\ E!Mirrors(d) /\ d.added /\ (E!IsWriting(d) <=> l # <<>>)
  <2>1. /\ E!EnabledWritable(ch) \in E!ChannelType /\ E!Mirrors(E!EnabledWritable(ch))
        /\ E!EnabledWritable(ch).added
        /\ E!EnabledWritable(ch).events = ch.events \cup {"OUT"}
    BY <1>2, ChannelChanges
  <2>2. E!IsWriting(E!EnabledWritable(ch))
    BY <2>1 DEF E!IsWriting
  <2>3. E!IsWriting(ch) <=> o # <<>>
    BY <1>3, <1>9
  <2>4. QED
    BY <1>2, <1>10, <1>11, <1>12, <2>1, <2>2, <2>3
<1>16. V15!Unsent(p, bytes) = u
  BY <1>1, Same15 DEF V15!Unsent
<1>17. /\ sock' = (IF V15!MayWrite(p) THEN [sock EXCEPT ![p] = s] ELSE sock)
       /\ tcp' = [tcp EXCEPT ![p] = t]
       /\ chan' = [chan EXCEPT ![p] = d]
       /\ history' = [history EXCEPT ![p] = h]
       /\ backlog' = backlog /\ sent' = sent
  <2>1. V15!WatchOutput(p, bytes) = d
    BY <1>1, <1>5, <1>12, <1>16, Same15 DEF V15!WatchOutput
  <2>2. sock' = (IF V15!MayWrite(p) THEN [sock EXCEPT ![p] = s] ELSE sock)
    BY <1>1, <1>6, Same15 DEF V15!Send
  <2>3. /\ tcp' = [tcp EXCEPT ![p].output = @ \o u, ![p].input = input]
        /\ chan' = [chan EXCEPT ![p] = d]
        /\ history' = [history EXCEPT ![p].asked = @ \o bytes, ![p].written = @ \o x]
        /\ backlog' = backlog /\ sent' = sent
    BY <1>1, <1>16, <2>1 DEF V15!Send, V15!Appended
  <2>4. tcp' = [tcp EXCEPT ![p] = t]
    BY <1>1, <1>9, <1>11, <1>12, <2>3 DEF Inv15
  <2>5. history' = [history EXCEPT ![p] = h]
    BY <1>1, <1>9, <1>11, <1>12, <2>3 DEF Inv15
  <2>6. QED
    BY <2>2, <2>3, <2>4, <2>5
<1>18. PICK r : r = sock'[p]
  OBVIOUS
<1>19. /\ r \in N15!SocketType /\ r.at = "open" /\ r.fd = a.fd /\ r.rcv = a.rcv
       /\ r.rst = a.rst /\ r.err \in {a.err, "none"}
       /\ r.rst => r.snd = <<>>
       /\ Len(r.snd) <= Size["1.5"].sndBuf
  BY <1>1, <1>2, <1>7, <1>17, <1>18 DEF Inv15, N15!NetInv, N15!NetworkTypeOK
<1>20. /\ sock' \in [PeersOf("1.5") -> N15!SocketType]
       /\ \A q \in PeersOf("1.5") : q # p => sock'[q] = sock[q]
  BY <1>7, <1>17 DEF Inv15, N15!NetInv, N15!NetworkTypeOK
<1>21. \A q \in PeersOf("1.5") : N15!Used(q)
  BY <1>1, <1>2, <1>18, <1>19, <1>20 DEF N15!Used
<1>22. N15!NetInv'
  BY <1>17, <1>20, <1>21, N15!OpenChange DEF Inv15
<1>23. /\ tcp' \in [PeersOf("1.5") -> V15!TcpType] /\ tcp'[p] = t
       /\ \A q \in PeersOf("1.5") : q # p => tcp'[q] = tcp[q]
       /\ history' \in [PeersOf("1.5") -> Log15] /\ history'[p] = h
       /\ \A q \in PeersOf("1.5") : q # p => history'[q] = history[q]
  BY <1>13, <1>14, <1>17 DEF Inv15
<1>24. /\ chan' \in [V15!Channels -> E!ChannelType] /\ chan'[p] = d
       /\ \A e \in V15!Channels : E!Mirrors(chan'[e])
       /\ \A q \in PeersOf("1.5") : q # p => chan'[q] = chan[q]
  BY <1>15, <1>17, Numbered15 DEF Inv15
<1>25. ASSUME NEW q \in PeersOf("1.5"), q # p PROVE Conn15(q)' /\ Stream15(q)'
  BY <1>17, <1>20, <1>23, <1>24, <1>25, Keep15 DEF Inv15
<1>26. Conn15(p)'
  BY <1>13, <1>14, <1>15, <1>18, <1>19, <1>23, <1>24 DEF Conn15
<1>27. Output15(p)'
  <2>1. i = j \o l
    BY <1>10, <1>11
  <2>2. /\ history'[p].asked = i /\ history'[p].written = j /\ tcp'[p].output = l
        /\ (E!IsWriting(chan'[p]) <=> l # <<>>)
    BY <1>13, <1>14, <1>15, <1>23, <1>24
  <2>3. QED
    BY ONLY <2>1, <2>2 DEF Output15
<1>28. Unused15(p)'
  BY <1>14, <1>23 DEF Unused15
<1>29. Echo15(p)'
  <2>1. /\ history'[p].asked = i /\ tcp'[p].input = input /\ sock'[p].rcv = a.rcv
        /\ sent' = sent /\ app' = app
    BY <1>13, <1>14, <1>17, <1>18, <1>19, <1>23
  <2>2. ASSUME app = "echo" PROVE (i \o input) \o a.rcv = N15!UpTo(sent[p])
    <3>1. i \o <<>> = i /\ input = <<>>
      BY <1>10, <1>11, <2>2, ConcatEmptySeq DEF N15!Bytes
    <3>2. i = g.asked \o c.input
      BY <1>1, <1>9, <1>11, <2>2
    <3>3. QED
      BY <1>4, <2>2, <3>1, <3>2
  <2>3. QED
    BY <2>1, <2>2 DEF Echo15
<1>30. \A q \in PeersOf("1.5") : tcp'[q].live <=> tcp[q].live
  BY <1>1, <1>2, <1>13, <1>23
<1>31. QED
  BY <1>17, <1>22, <1>23, <1>24, <1>25, <1>26, <1>27, <1>28, <1>29, <1>30
     DEF SendKeeps, Stream15

(* The program dies in a callback. *)
LEMMA Abort15 ==
    ASSUME Inv15, UNCHANGED <<N15!network, app, chan, tcp, map, history>>, V15!Abort
    PROVE  Inv15'
<1>1. /\ pc' = "dead" /\ UNCHANGED <<stage, cur, who, batch>>
  BY DEF V15!Abort
<1>2. AcceptorDue' => AcceptorDue
  BY <1>1 DEF AcceptorDue
<1>3. QED
  BY <1>1, <1>2, Quiet15 DEF Inv15

(* The UP callback is over: its connection gets into the map. *)
LEMMA ReturnUp15 == ASSUME Inv15, V15!ReturnUp PROVE Inv15'
<1>1. /\ pc = "up" /\ app' = app /\ who \in PeersOf("1.5") /\ tcp[who].live
      /\ stage = "IN" /\ who \in V15!Channels
  BY DEF V15!ReturnUp, Inv15, InCallback
<1>2. CASE V15!Abort /\ UNCHANGED <<V15!network, V15!objects>>
  <2>1. UNCHANGED <<N15!network, app, chan, tcp, map, history>>
    BY <1>1, <1>2 DEF V15!network, N15!network, V15!objects
  <2>2. QED
    BY <1>2, <2>1, Abort15
<1>3. CASE /\ V15!Greet(who) \/ (V15!Return /\ UNCHANGED <<V15!network, chan, tcp, history>>)
           /\ app = "daytime" \/ UNCHANGED <<V15!network, chan, tcp, history>>
           /\ map' = map \cup {who}
  <2>1. PICK p : p = who
    OBVIOUS
  <2>2. /\ pc' \in {"batch", "dead"} /\ UNCHANGED <<cur, who, batch>>
        /\ stage' \in {"HUP", "IN"}
    BY <1>1, <1>3 DEF V15!Greet, V15!Return, V15!Abort
  <2>3. SendKeeps
    <3>1. CASE app = "daytime" /\ V15!Greet(who)
      <4>1. V15!Send(p, Greeting, tcp[p].input) /\ tcp[p].input \in N15!Bytes
        BY <1>1, <2>1, <3>1, Numbered15 DEF V15!Greet, Inv15, V15!TcpType
      <4>2. PICK i \in N15!Bytes : i = tcp[p].input
        BY <4>1
      <4>3. QED
        BY <1>1, <2>1, <2>2, <3>1, <4>1, <4>2, Numbered15, Send15
    <3>2. CASE UNCHANGED <<V15!network, chan, tcp, history>>
      <4>1. UNCHANGED <<N15!network, chan, tcp, history>>
        BY <3>2 DEF V15!network, N15!network
      <4>2. N15!NetInv' /\ sock' = sock /\ sent' = sent /\ backlog' = backlog
        BY <4>1, N15!NetworkStays DEF Inv15, N15!network
      <4>3. \A q \in PeersOf("1.5") : Conn15(q)' /\ Stream15(q)'
        BY <1>1, <2>2, <4>1, <4>2, Keep15 DEF Inv15
      <4>4. QED
        BY <4>1, <4>2, <4>3 DEF SendKeeps, Inv15
    <3>3. QED
      BY <1>3, <3>1, <3>2
  <2>4. ASSUME NEW q \in PeersOf("1.5") PROVE Map15(q)'
    BY <1>1, <1>3, <2>2, <2>3 DEF SendKeeps, Inv15, Map15
  <2>5. AcceptorDue' => AcceptorDue
    BY <2>2 DEF AcceptorDue
  <2>6. map' \subseteq PeersOf("1.5")
    BY <1>1, <1>3 DEF Inv15
  <2>7. QED
    BY <1>1, <2>2, <2>3, <2>4, <2>5, <2>6
       DEF Inv15, SendKeeps, V15!Channels, InCallback
<1>4. QED
  BY <1>1, <1>2, <1>3 DEF V15!ReturnUp

(* The message callback is over: the input buffer is empty. *)
LEMMA ReturnMessage15 == ASSUME Inv15, V15!ReturnMessage PROVE Inv15'
<1>1. /\ pc = "message" /\ app' = app /\ who \in PeersOf("1.5") /\ tcp[who].live
      /\ stage = "IN" /\ <<>> \in N15!Bytes
  BY EmptySeq DEF V15!ReturnMessage, Inv15, InCallback, N15!Bytes
<1>2. CASE V15!Abort /\ UNCHANGED <<V15!network, V15!objects>>
  <2>1. UNCHANGED <<N15!network, app, chan, tcp, map, history>>
    BY <1>1, <1>2 DEF V15!network, N15!network, V15!objects
  <2>2. QED
    BY <1>2, <2>1, Abort15
<1>3. CASE /\ \/ app = "echo" /\ V15!Send(who, tcp[who].input, <<>>)
              \/ /\ app # "echo" /\ tcp' = [tcp EXCEPT ![who].input = <<>>]
                 /\ UNCHANGED <<V15!network, chan, history>>
           /\ V15!Return /\ map' = map
  <2>1. PICK p, c, t : p = who /\ c = tcp[p] /\ t = [c EXCEPT !.input = <<>>]
    OBVIOUS
  <2>2. pc' = "batch" /\ UNCHANGED <<cur, who, batch>> /\ stage' \in {"HUP", "IN"}
    BY <1>1, <1>3 DEF V15!Return
  <2>3. c \in V15!TcpType /\ c.input \in N15!Bytes /\ c.live
    BY <1>1, <2>1, Numbered15 DEF Inv15, V15!TcpType
  <2>4. SendKeeps
    <3>1. CASE app = "echo" /\ V15!Send(who, tcp[who].input, <<>>)
      <4>1. PICK i \in N15!Bytes, j \in N15!Bytes :
               i = tcp[p].input /\ j = <<>> /\ V15!Send(p, i, j)
        BY <1>1, <2>1, <2>3, <3>1
      <4>2. QED
        BY <1>1, <2>1, <2>2, <4>1, Send15
    <3>2. CASE /\ app # "echo" /\ tcp' = [tcp EXCEPT ![who].input = <<>>]
               /\ UNCHANGED <<V15!network, chan, history>>
      <4>1. UNCHANGED <<N15!network, chan, history>>
        BY <3>2 DEF V15!network, N15!network
      <4>2. N15!NetInv' /\ sock' = sock /\ sent' = sent /\ backlog' = backlog
        BY <4>1, N15!NetworkStays DEF Inv15, N15!network
      <4>3. /\ t \in V15!TcpType /\ t.live /\ t.input = <<>> /\ t.output = c.output
            /\ t.connectState = c.connectState
        BY <1>1, <2>1, <2>3, Numbered15 DEF V15!TcpType
      <4>4. tcp' = [tcp EXCEPT ![p] = t]
        BY <2>1, <3>2
      <4>5. /\ tcp' \in [PeersOf("1.5") -> V15!TcpType] /\ tcp'[p] = t
            /\ \A q \in PeersOf("1.5") : q # p => tcp'[q] = tcp[q]
        BY <1>1, <2>1, <4>3, <4>4 DEF Inv15
      <4>6. ASSUME NEW q \in PeersOf("1.5"), q # p PROVE Conn15(q)' /\ Stream15(q)'
        BY <1>1, <2>2, <4>1, <4>2, <4>5, <4>6, Keep15 DEF Inv15
      <4>7. Conn15(p) /\ Output15(p) /\ Unused15(p)
        BY <1>1, <2>1 DEF Inv15, Stream15
      <4>8. Conn15(p)'
        BY <2>1, <2>2, <2>3, <4>1, <4>2, <4>3, <4>5, <4>7 DEF Conn15
      <4>9. Output15(p)'
        BY <2>1, <2>3, <4>1, <4>3, <4>5, <4>7 DEF Output15
      <4>10. Unused15(p)' /\ Echo15(p)'
        BY <1>1, <2>1, <3>2, <4>1, <4>3, <4>5, <4>7 DEF Unused15, Echo15
      <4>11. \A q \in PeersOf("1.5") : tcp'[q].live <=> tcp[q].live
        BY <2>1, <2>3, <4>3, <4>5
      <4>12. QED
        BY <4>1, <4>2, <4>5, <4>6, <4>8, <4>9, <4>10, <4>11
           DEF SendKeeps, Inv15, Stream15
    <3>3. QED
      BY <1>3, <3>1, <3>2
  <2>5. ASSUME NEW q \in PeersOf("1.5") PROVE Map15(q)'
    BY <1>1, <1>3, <2>2, <2>4 DEF SendKeeps, Inv15, Map15
  <2>6. AcceptorDue' => AcceptorDue
    BY <2>2 DEF AcceptorDue
  <2>7. QED
    BY <1>1, <1>3, <2>2, <2>4, <2>5, <2>6
       DEF Inv15, SendKeeps, V15!Channels, InCallback
<1>4. QED
  BY <1>1, <1>2, <1>3 DEF V15!ReturnMessage, V15!Retrieved

LEMMA PeersMove15 == ASSUME Inv15, V15!PeersMove PROVE Inv15'
<1>1. /\ N15!PeerStep
      /\ UNCHANGED <<app, chan, tcp, map, history, pc, stage, cur, who, batch>>
  BY Same15 DEF V15!PeersMove, V15!objects, V15!loopVars
<1>2. /\ N15!NetInv' /\ \A p \in PeersOf("1.5") : N15!PeersKeep(p)
      /\ N15!PeersKeepQueue
  BY <1>1, Numbered15, N15!PeersMoveNet DEF Inv15
<1>3. ASSUME NEW p \in PeersOf("1.5") PROVE Conn15(p)' /\ Stream15(p)' /\ Map15(p)'
  <2>1. N15!PeersKeep(p) /\ Conn15(p) /\ Stream15(p) /\ Map15(p)
    BY <1>2 DEF Inv15
  <2>2. Conn15(p)'
    BY <1>1, <2>1 DEF Conn15, N15!PeersKeep
  <2>3. PICK x : x = history[p].asked \o tcp[p].input
    OBVIOUS
  <2>4. x \in N15!Bytes
    <3>1. history[p].asked \in N15!Bytes /\ tcp[p].input \in N15!Bytes
      BY Numbered15 DEF Inv15, Log15, V15!TcpType
    <3>2. QED
      BY <2>3, <3>1, N15!BytesConcat
  <2>5. x \o sock[p].rcv = N15!UpTo(sent[p]) => x \o sock'[p].rcv = N15!UpTo(sent'[p])
    BY <2>1, <2>4, N15!StreamGrows DEF Inv15
  <2>6. Echo15(p)'
    BY <1>1, <2>1, <2>3, <2>5 DEF Stream15, Echo15
  <2>7. Output15(p)' /\ Unused15(p)' /\ Map15(p)'
    BY <1>1, <2>1 DEF Stream15, Output15, Unused15, Map15
  <2>8. QED
    BY <2>2, <2>6, <2>7 DEF Stream15
<1>4. backlog # <<>> => backlog' # <<>>
  BY <1>2, EmptySeq, LenProperties, AppendProperties
     DEF N15!PeersKeepQueue, Inv15, N15!NetInv, N15!NetworkTypeOK
<1>5. AcceptorDue' => AcceptorDue
  BY <1>1 DEF AcceptorDue
<1>6. QED
  BY <1>1, <1>2, <1>3, <1>4, <1>5 DEF Inv15, V15!Channels, InCallback

LEMMA Step15 == ASSUME Inv15, V15!Next PROVE Inv15'
<1>1. CASE \E c \in V15!Channels : V15!StartHandle(c)
  <2>1. PICK c \in V15!Channels : V15!StartHandle(c)
    BY <1>1
  <2>2. /\ UNCHANGED <<N15!network, app, chan, tcp, map, history, who>> /\ c \in batch
        /\ batch' = batch \ {c} /\ cur' = c /\ stage' = "HUP" /\ pc' = "handle"
        /\ pc = "batch"
    BY <2>1 DEF V15!StartHandle, V15!network, N15!network, V15!objects
  <2>3. AcceptorDue' => AcceptorDue
    BY <2>2 DEF AcceptorDue
  <2>4. QED
    BY <2>2, <2>3, Quiet15
<1>2. CASE V15!EndBatch \/ V15!Skip \/ V15!ReadFreedChannel \/ V15!AcceptFails
  <2>1. /\ UNCHANGED <<N15!network, app, chan, tcp, map, history, who>> /\ batch' = batch
        /\ cur' = cur /\ stage' \in {stage, "IN"} /\ pc \in {"batch", "handle"}
        /\ pc' \in {"poll", "batch", "handle", "dead"} /\ (pc' = "handle" => pc = "handle")
    BY <1>2 DEF V15!EndBatch, V15!Skip, V15!ReadFreedChannel, V15!AcceptFails, V15!Return,
         V15!Abort, V15!At, V15!network, N15!network, V15!objects
  <2>2. AcceptorDue' => AcceptorDue
    BY <2>1 DEF AcceptorDue
  <2>3. QED
    BY <2>1, <2>2, Quiet15 DEF Inv15
<1>3. CASE V15!HangUpEvent
  <2>1. cur \in PeersOf("1.5") /\ pc = "handle" /\ tcp[cur].live /\ V15!HandleClose(cur)
    BY <1>3, Numbered15 DEF V15!HangUpEvent, V15!At, V15!Freed, V15!Acceptor
  <2>2. PICK p : p = cur
    OBVIOUS
  <2>3. QED
    BY <2>1, <2>2, HandleClose15
<1>4. QED
  BY <1>1, <1>2, <1>3, Start15, Poll15, Accept15, HandleRead15, ReturnUp15,
     ReturnMessage15, PeersMove15
     DEF V15!Next, V15!LoopStep

LEMMA Always15 == Spec => [](version = "1.5" => Inv15)
<1>1. Init => (version = "1.5" => Inv15)
  BY Init15 DEF Init
<1>2. (version = "1.5" => Inv15) /\ [Next]_vars => (version = "1.5" => Inv15)'
  <2>1. ASSUME version = "1.5", Inv15, Next PROVE Inv15'
    <3>1. V15!Next
      BY <2>1 DEF Next, Of10, Of11, Of12, Of13, Of14, Of15, OfLoop
    <3>2. QED
      BY <2>1, <3>1, Step15
  <2>2. ASSUME Inv15, UNCHANGED vars PROVE Inv15'
    <3>1. UNCHANGED <<N15!network, app, history, cur, who, chan, map, batch, pc, tcp, stage>>
      BY <2>2 DEF vars, N15!network
    <3>2. AcceptorDue' => AcceptorDue
      BY <3>1 DEF AcceptorDue
    <3>3. QED
      BY <2>2, <3>1, <3>2, Quiet15 DEF Inv15
  <2>3. ASSUME Next PROVE version' = version
    BY <2>3 DEF Next, Of10, Of11, Of12, Of13, Of14, Of15, OfLoop
  <2>4. QED
    BY <2>1, <2>2, <2>3 DEF vars
<1>3. QED
  BY <1>1, <1>2, PTL DEF Spec
-----------------------------------------------------------------------------
(* What the invariants show: the properties of EarlyServers *)

LEMMA SameTypes ==
    /\ V10!NetworkTypeOK <=> N10!NetworkTypeOK
    /\ V11!NetworkTypeOK <=> N11!NetworkTypeOK
    /\ V12!NetworkTypeOK <=> N12!NetworkTypeOK
    /\ V13!NetworkTypeOK <=> N13!NetworkTypeOK
<1>1. V10!NetworkTypeOK <=> N10!NetworkTypeOK
  BY DEF V10!Bytes, N10!Bytes, V10!NetworkTypeOK, N10!NetworkTypeOK, V10!SocketType,
         N10!SocketType
<1>2. V11!NetworkTypeOK <=> N11!NetworkTypeOK
  BY DEF V11!Bytes, N11!Bytes, V11!NetworkTypeOK, N11!NetworkTypeOK, V11!SocketType,
         N11!SocketType
<1>3. V12!NetworkTypeOK <=> N12!NetworkTypeOK
  BY DEF V12!Bytes, N12!Bytes, V12!NetworkTypeOK, N12!NetworkTypeOK, V12!SocketType,
         N12!SocketType
<1>4. V13!NetworkTypeOK <=> N13!NetworkTypeOK
  BY DEF V13!Bytes, N13!Bytes, V13!NetworkTypeOK, N13!NetworkTypeOK, V13!SocketType,
         N13!SocketType
<1>5. QED
  BY <1>1, <1>2, <1>3, <1>4

LEMMA Shows10 ==
    ASSUME Inv10
    PROVE  V10!TypeOK /\ (N10!Whole => V10!EchoComplete)
<1>1. V10!TypeOK
  BY SameTypes, Same10 DEF Inv10, N10!NetInv, V10!TypeOK, V10!server_sock
<1>2. N10!Whole => V10!EchoComplete
  BY DEF Inv10, N10!Answers, N10!Echoing, N10!UpTo, V10!EchoComplete
<1>3. QED
  BY <1>1, <1>2

LEMMA Shows11 == ASSUME Inv11 PROVE V11!TypeOK /\ V11!EventsAreCurrent
<1>1. V11!TypeOK
  BY SameTypes, Same11 DEF Inv11, N11!NetInv, V11!TypeOK, V11!serverSock
<1>2. V11!EventsAreCurrent
  BY Same11 DEF Inv11, N11!HasEvent, V11!EventsAreCurrent, V11!Registered, V11!Ready,
                V11!serverSock
<1>3. QED
  BY <1>1, <1>2

LEMMA Shows12 ==
    ASSUME Inv12 PROVE V12!TypeOK /\ V12!PointersValid /\ V12!MapMirrorsKernel
<1>1. /\ DOMAIN chan = N12!UsedFds \cup {0} /\ chan[0] = Listens
      /\ 0 \notin N12!UsedFds /\ N12!UsedFds \subseteq FdsOf("1.2")
      /\ \A f \in N12!UsedFds : chan[f] = Reads(N12!Owner(f))
                                /\ N12!Owner(f) \in PeersOf("1.2")
      /\ \A ptr \in batch : Pointer12(ptr)
  BY UsedFds12, N12!OwnerIs DEF Inv12, Map12, N12!NetInv, N12!OwnersKnown
<1>2. V12!TypeOK
  <2>1. \A f \in DOMAIN chan : chan[f] \in V12!ChannelType
    BY <1>1 DEF V12!ChannelType, Listens, Reads
  <2>2. batch \subseteq V12!Descriptors \X (PeersOf("1.2") \cup {0})
    BY <1>1 DEF Pointer12, V12!Descriptors, V12!serverSock
  <2>3. DOMAIN chan \subseteq V12!Descriptors
    BY <1>1 DEF V12!Descriptors, V12!serverSock
  <2>4. QED
    BY <2>1, <2>2, <2>3, SameTypes, Same12 DEF Inv12, N12!NetInv, V12!TypeOK
<1>3. V12!PointersValid
  BY <1>1 DEF V12!PointersValid, V12!Valid, Pointer12, Listens, Reads
<1>4. V12!MapMirrorsKernel
  BY <1>1, Same12 DEF V12!MapMirrorsKernel, V12!serverSock, Reads
<1>5. QED
  BY <1>2, <1>3, <1>4

LEMMA Shows13 ==
    ASSUME Inv13
    PROVE  /\ V13!TypeOK /\ V13!ToldInOrder
           /\ Size["1.3"].fds >= 1 => V13!AcceptSucceeds
<1>1. V13!TypeOK
  BY SameTypes, Same13 DEF Inv13, N13!NetInv, V13!TypeOK
<1>2. ASSUME Size["1.3"].fds >= 1, pc = "batch" PROVE V13!FreeFds # {}
  <2>1. N13!UsedFds = {}
    BY <1>2 DEF Inv13, N13!UsedFds
  <2>2. 5 \in FdsOf("1.3")
    BY <1>2, SizesOf DEF FdsOf, Versions
  <2>3. QED
    BY <2>1, <2>2, Same13 DEF N13!FreeFds
<1>3. Size["1.3"].fds >= 1 => V13!AcceptSucceeds
  BY <1>2 DEF Inv13, V13!AcceptSucceeds, V13!AcceptFails
<1>4. QED
  BY <1>1, <1>3 DEF Inv13

LEMMA Shows14 ==
    ASSUME Inv14
    PROVE  V14!TypeOK /\ V14!NoDanglingChannel /\ V14!MapIsConnected /\ V14!ReceivedBeforeDown
<1>1. V14!TypeOK
  BY Same14 DEF Inv14, N14!NetInv, Log14, V14!TypeOK
<1>2. V14!NoDanglingChannel
  BY DEF Inv14, Conn14, V14!NoDanglingChannel
<1>3. V14!MapIsConnected
  <2>1. ASSUME NEW p \in PeersOf("1.4")
        PROVE  /\ p \in map <=> tcp[p].live /\ tcp[p].connectState = "CONNECTED"
               /\ p \in map <=> history[p].ups = 1 /\ history[p].downs = 0
               /\ history[p].downs <= history[p].ups /\ history[p].ups <= 1
    <3>1. Conn14(p) /\ history[p].ups \in Nat /\ history[p].downs \in Nat
      BY DEF Inv14, Log14
    <3>2. QED
      BY <3>1 DEF Conn14
  <2>2. QED
    BY <2>1 DEF V14!MapIsConnected
<1>4. V14!ReceivedBeforeDown
  BY DEF Inv14, Stream14, N14!UpTo, V14!ReceivedBeforeDown
<1>5. QED
  BY <1>1, <1>2, <1>3, <1>4

LEMMA Shows15 ==
    ASSUME Inv15
    PROVE  /\ V15!TypeOK /\ V15!NoDanglingChannel /\ V15!MapIsConnected
           /\ V15!OutputConserved /\ V15!EchoInOrder
<1>1. V15!TypeOK
  BY Same15 DEF Inv15, N15!NetInv, Log15, V15!TypeOK
<1>2. V15!NoDanglingChannel
  BY Same15 DEF Inv15, Conn15, V15!NoDanglingChannel
<1>3. V15!MapIsConnected
  <2>1. ASSUME NEW p \in PeersOf("1.5")
        PROVE  /\ history[p].downs <= history[p].ups /\ history[p].ups <= 1
               /\ tcp[p].live <=> history[p].ups = 1 /\ history[p].downs = 0
               /\ tcp[p].live => tcp[p].connectState = "CONNECTED"
               /\ pc # "dead" => (p \in map <=> tcp[p].live /\ ~(pc = "up" /\ who = p))
    <3>1. Conn15(p) /\ Map15(p) /\ history[p].ups \in Nat /\ history[p].downs \in Nat
      BY DEF Inv15, Log15
    <3>2. QED
      BY <3>1 DEF Conn15, Map15
  <2>2. QED
    BY <2>1 DEF V15!MapIsConnected
<1>4. V15!OutputConserved
  BY DEF Inv15, Stream15, Output15, V15!OutputConserved, V15!IsWriting, E!IsWriting
<1>5. V15!EchoInOrder
  BY DEF Inv15, Stream15, Echo15, Conn15, N15!UpTo, V15!EchoInOrder
<1>6. QED
  BY <1>1, <1>2, <1>3, <1>4, <1>5

(* One of the versions, or the loop, runs, and its invariant holds.           *)
InvEarly ==
    /\ version \in Versions \cup {"loop"}
    /\ version = "1.0" => Inv10
    /\ version = "1.1" => Inv11
    /\ version = "1.2" => Inv12
    /\ version = "1.3" => Inv13
    /\ version = "1.4" => Inv14
    /\ version = "1.5" => Inv15
    /\ version = "loop" => InvLoop

LEMMA AlwaysEarly == Spec => []InvEarly
<1>1. Init => version \in Versions \cup {"loop"}
  BY DEF Init, Versions
<1>2. version \in Versions \cup {"loop"} /\ [Next]_vars
      => (version \in Versions \cup {"loop"})'
  BY DEF vars, Next, Of10, Of11, Of12, Of13, Of14, Of15, OfLoop
<1>3. Spec => [](version \in Versions \cup {"loop"})
  BY <1>1, <1>2, PTL DEF Spec
<1>4. QED
  BY <1>3, Always10, Always11, Always12, Always13, Always14, Always15, AlwaysLoop, PTL
     DEF InvEarly

(* Every variable of every version keeps its type; of the loop, that no more  *)
(* channels are reported than the event array holds, however often the        *)
(* kernel's list is turned.                                                   *)
(* (v1.0/EchoServer.cpp to v1.5/src/TcpServer.cpp, v1.3/src/Epoller.cpp:21-35)*)
THEOREM EarlyTypes == Spec => []TypeOK
<1>1. InvEarly => TypeOK
  <2> SUFFICES ASSUME InvEarly PROVE TypeOK
    OBVIOUS
  <2>1. /\ version = "1.0" => V10!TypeOK
        /\ version = "1.1" => V11!TypeOK
        /\ version = "1.2" => V12!TypeOK
        /\ version = "1.3" => V13!TypeOK
        /\ version = "1.4" => V14!TypeOK
        /\ version = "1.5" => V15!TypeOK
        /\ version = "loop" => Loop!TypeOK
    BY Shows10, Shows11, Shows12, Shows13, Shows14, Shows15 DEF InvEarly, InvLoop
  <2>2. version \in {"1.0", "1.1", "1.2", "1.3", "1.4", "1.5", "loop"}
    BY DEF InvEarly, Versions
  <2>3. QED
    BY <2>1, <2>2 DEF TypeOK
<1>2. QED
  BY <1>1, AlwaysEarly, PTL

(* No step of a batch leaves a later one a closed descriptor, a pointer to no *)
(* channel, an acceptor without its connection or a freed Channel, whatever   *)
(* the number of peers and descriptors, v1.3 having one for the connection.   *)
(* (v1.1/src/Epoller.cpp:32-66, v1.2/src/Epoller.cpp:35-84,                   *)
(* v1.3/src/Sockets.cpp:48, v1.4/src/TcpConnection.cpp:78-85)                 *)
THEOREM StepsLeaveNothingStale ==
    ASSUME Size["1.3"].fds >= 1
    PROVE  Spec => []NothingStale
<1>1. InvEarly => NothingStale
  BY Shows11, Shows12, Shows13, Shows14, Shows15 DEF InvEarly, NothingStale
<1>2. QED
  BY <1>1, AlwaysEarly, PTL

(* What a version keeps agrees with what there is: v1.2's map with the open   *)
(* descriptors, polling_ with the registrations after any calls of any        *)
(* callbacks, the map of v1.4 and v1.5 with the connections between UP and    *)
(* DOWN.  (v1.2/src/Epoller.cpp:41-77, v1.3/src/Epoller.cpp:37-71,            *)
(* v1.4/src/TcpServer.cpp:31-55, v1.5/src/TcpServer.cpp:30-54)                *)
THEOREM EarlyRecordsAgree == Spec => []RecordsAgree
<1>1. InvEarly => RecordsAgree
  BY Shows12, Shows14, Shows15 DEF InvEarly, InvLoop, RecordsAgree
<1>2. QED
  BY <1>1, AlwaysEarly, PTL

(* Bytes come in order and none is lost or repeated, whatever their number    *)
(* and the size of one read; of v1.0 as long as the kernel's buffer takes all *)
(* that a peer can send, as its loop ignores what send() returns.             *)
(* (v1.0/EchoServer.cpp:123-128, v1.3/src/Acceptor.cpp:25-42,                 *)
(* v1.4/src/TcpConnection.cpp:63-76, v1.5/src/TcpConnection.cpp:65-164)       *)
THEOREM BytesStayInOrder ==
    ASSUME Size["1.0"].maxIn <= Size["1.0"].sndBuf
    PROVE  Spec => []InOrder
<1>1. N10!Whole
  BY DEF N10!Whole
<1>2. InvEarly => InOrder
  BY <1>1, Shows10, Shows13, Shows14, Shows15 DEF InvEarly, InOrder
<1>3. QED
  BY <1>2, AlwaysEarly, PTL
=============================================================================
