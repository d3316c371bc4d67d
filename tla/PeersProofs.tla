----------------------------- MODULE PeersProofs -----------------------------
(***************************************************************************)
(* What the servers of v1.0 to v1.5 can rely on in the kernel: descriptors *)
(* are distinct, the backlog holds each waiting connection once, in the    *)
(* order in which they came, and the peers' own steps take nothing away.   *)
(* EarlyServersProofs uses it for each server.                             *)
(***************************************************************************)
EXTENDS Peers, TLAPS, SequenceTheorems

(* Descriptors are positive and there is a lowest one of any, peers are     *)
(* numbered, and sizes are numbers.                                          *)
Numbered ==
    /\ Fds \subseteq Nat \ {0}
    /\ \A T \in SUBSET Fds : T # {} => \E f \in T : \A g \in T : f <= g
    /\ Peers \subseteq Nat \ {0}
    /\ SndBuf \in Nat \ {0}
    /\ MaxIn \in Nat

(* Sockets that are open have descriptors of their own. *)
FdsDistinct ==
    /\ \A p \in Peers : sock[p].at = "open" => sock[p].fd \in Fds
    /\ \A p, q \in Peers : sock[p].at = "open" /\ sock[q].at = "open"
                           /\ sock[p].fd = sock[q].fd => p = q

(* The backlog holds connections that wait, in the order of their numbers. *)
QueueInOrder ==
    /\ \A i \in 1..Len(backlog) : sock[backlog[i]].at = "queued"
    /\ \A i, j \in 1..Len(backlog) : i < j => backlog[i] < backlog[j]
    /\ \A p, q \in Peers : q < p /\ sock[p].at # "away" => sock[q].at # "away"

(* What nobody sent or took is not there, and errors come from resets. *)
Fresh(p) ==
    /\ sock[p].at = "away" =>
          sock[p].rcv = <<>> /\ ~sock[p].fin /\ ~sock[p].rst /\ sent[p] = 0
    /\ sock[p].at \in {"away", "queued"} => sock[p].snd = <<>>
    /\ sock[p].rst => sock[p].snd = <<>>
    /\ sock[p].err # "none" => sock[p].rst
    /\ Len(sock[p].snd) <= SndBuf
    /\ sent[p] <= MaxIn

NetInv ==
    /\ NetworkTypeOK
    /\ FdsDistinct
    /\ QueueInOrder
    /\ \A p \in Peers : Fresh(p)

(* What a step of the peers leaves alone, or only adds to. *)
PeersKeep(p) ==
    /\ sock'[p].fd = sock[p].fd
    /\ \/ sock'[p].at = sock[p].at
       \/ sock[p].at = "away" /\ sock'[p].at = "queued"
    /\ sock[p].fin => sock'[p].fin
    /\ sock[p].rst => sock'[p].rst
    /\ \/ sock'[p].rcv = sock[p].rcv /\ sent'[p] = sent[p]
       \/ /\ sock[p].at \in {"queued", "open"} /\ ~sock[p].fin /\ ~sock[p].rst
          /\ sock'[p].rcv = Append(sock[p].rcv, sent[p] + 1)
          /\ sent'[p] = sent[p] + 1 /\ sent[p] < MaxIn
          /\ sock'[p].fin = sock[p].fin /\ sock'[p].rst = sock[p].rst
          /\ sock'[p].at = sock[p].at
    /\ Len(sock'[p].snd) <= Len(sock[p].snd)

PeersKeepQueue ==
    \/ backlog' = backlog
    \/ \E p \in Peers : /\ backlog' = Append(backlog, p)
                        /\ sock[p].at = "away" /\ sock'[p].at = "queued"

-----------------------------------------------------------------------------
(* A descriptor that is free. *)
LEMMA LowestIsFree ==
    ASSUME Numbered, FreeFds # {}
    PROVE  LowestFree \in FreeFds /\ LowestFree \in Nat \ {0}
<1>1. FreeFds \in SUBSET Fds /\ FreeFds \subseteq Nat \ {0}
  BY DEF Numbered, FreeFds
<1>2. \E f \in FreeFds : \A g \in FreeFds : f <= g
  BY <1>1 DEF Numbered
<1>3. QED
  BY <1>1, <1>2 DEF LowestFree

(* Behind a descriptor in use is the one connection that has it. *)
OwnersKnown ==
    /\ \A p \in Peers, f \in Fds : sock[p].at = "open" /\ sock[p].fd = f =>
           f \in UsedFds /\ Owner(f) = p
    /\ \A p \in Peers : sock[p].at = "open" => sock[p].fd \in UsedFds
    /\ \A f \in UsedFds : /\ Owner(f) \in Peers
                          /\ sock[Owner(f)].at = "open" /\ sock[Owner(f)].fd = f
    /\ UsedFds \subseteq Fds

LEMMA OwnerIs == ASSUME FdsDistinct PROVE OwnersKnown
<1>1. ASSUME NEW p \in Peers, NEW f \in Fds, sock[p].at = "open", sock[p].fd = f
      PROVE  f \in UsedFds /\ Owner(f) = p
  BY <1>1 DEF UsedFds, Owner, FdsDistinct
<1>2. ASSUME NEW f \in UsedFds
      PROVE  Owner(f) \in Peers /\ sock[Owner(f)].at = "open" /\ sock[Owner(f)].fd = f
  <2>1. \E p \in Peers : sock[p].at = "open" /\ sock[p].fd = f
    BY DEF UsedFds
  <2>2. QED
    BY <2>1 DEF Owner
<1>3. UsedFds \subseteq Fds /\ \A p \in Peers : sock[p].at = "open" => sock[p].fd \in UsedFds
  BY DEF UsedFds, FdsDistinct
<1>4. QED
  BY <1>1, <1>2, <1>3 DEF OwnersKnown

LEMMA OwnerIsThen == ASSUME FdsDistinct' PROVE OwnersKnown'
<1>1. ASSUME NEW p \in Peers, NEW f \in Fds, sock'[p].at = "open", sock'[p].fd = f
      PROVE  f \in UsedFds' /\ Owner(f)' = p
  BY <1>1 DEF UsedFds, Owner, FdsDistinct
<1>2. ASSUME NEW f \in UsedFds'
      PROVE  Owner(f)' \in Peers /\ sock'[Owner(f)'].at = "open" /\ sock'[Owner(f)'].fd = f
  <2>1. \E p \in Peers : sock'[p].at = "open" /\ sock'[p].fd = f
    BY DEF UsedFds
  <2>2. QED
    BY <2>1 DEF Owner
<1>3. /\ UsedFds' \subseteq Fds
      /\ \A p \in Peers : sock'[p].at = "open" => sock'[p].fd \in UsedFds'
  BY DEF UsedFds, FdsDistinct
<1>4. QED
  BY <1>1, <1>2, <1>3 DEF OwnersKnown

-----------------------------------------------------------------------------
(* The system calls on one socket. *)

LEMMA RecvIs ==
    ASSUME NEW s \in SocketType, NEW size \in Nat \ {0}
    PROVE  LET n == RecvResult(s, size) IN
             /\ n \in Int /\ n >= -1
             /\ n > 0 <=> s.rcv # <<>>
             /\ n > 0 => n \in 1..Len(s.rcv)
             /\ n = 0 <=> s.rcv = <<>> /\ (s.fin \/ (s.rst /\ s.err = "none"))
<1>1. s.rcv \in Seq(Nat \ {0})
  BY DEF SocketType, Bytes
<1>2. Len(s.rcv) \in Nat /\ (s.rcv # <<>> => Len(s.rcv) \in Nat \ {0})
  BY <1>1, EmptySeq, LenProperties
<1>3. QED
  BY <1>2 DEF RecvResult

(* What recv() takes out is what it returns. *)
LEMMA AfterRecvIs ==
    ASSUME NEW s \in SocketType, NEW size \in Nat \ {0},
           NEW n, n = RecvResult(s, size)
    PROVE  /\ AfterRecv(s, n) \in SocketType
           /\ AfterRecv(s, n).at = s.at
           /\ AfterRecv(s, n).fd = s.fd
           /\ AfterRecv(s, n).snd = s.snd
           /\ AfterRecv(s, n).fin = s.fin
           /\ AfterRecv(s, n).rst = s.rst
           /\ AfterRecv(s, n).err \in {s.err, "none"}
           /\ n > 0 => /\ SubSeq(s.rcv, 1, n) \in Bytes
                       /\ Len(SubSeq(s.rcv, 1, n)) = n
                       /\ s.rcv = SubSeq(s.rcv, 1, n) \o AfterRecv(s, n).rcv
                       /\ AfterRecv(s, n).err = s.err
           /\ n <= 0 => AfterRecv(s, n).rcv = s.rcv /\ s.rcv = <<>>
<1>1. s.rcv \in Seq(Nat \ {0}) /\ Len(s.rcv) \in Nat
  BY LenProperties DEF SocketType, Bytes
<1>2. n \in Int /\ n >= -1 /\ (n > 0 => n \in 1..Len(s.rcv)) /\ (n > 0 <=> s.rcv # <<>>)
  BY RecvIs
<1>3. CASE n > 0
  <2> DEFINE rest == SubSeq(s.rcv, n + 1, Len(s.rcv))
             d == [s EXCEPT !.rcv = rest]
  <2>0. \A i \in 1..Len(s.rcv) : s.rcv[i] \in Nat \ {0}
    BY <1>1, LenProperties
  <2>1. rest \in Seq(Nat \ {0})
    BY <1>1, <1>2, <1>3, <2>0, SubSeqProperties
  <2>2. SubSeq(s.rcv, 1, n) \in Seq(Nat \ {0}) /\ Len(SubSeq(s.rcv, 1, n)) = n
    BY <1>1, <1>2, <1>3, <2>0, SubSeqProperties
  <2>3. SubSeq(s.rcv, 1, n) \o rest = s.rcv
    <3>1. 1 \in 1..Len(s.rcv) + 1 /\ n \in 1 - 1..Len(s.rcv) /\ Len(s.rcv) \in n..Len(s.rcv)
      BY <1>1, <1>2, <1>3
    <3>2. SubSeq(s.rcv, 1, n) \o rest = SubSeq(s.rcv, 1, Len(s.rcv))
      BY <1>1, <3>1, ConcatAdjacentSubSeq
    <3>3. QED
      BY <1>1, <3>2, SubSeqFull
  <2>4. AfterRecv(s, n) = d
    BY <1>3 DEF AfterRecv
  <2> HIDE DEF rest
  <2>5. /\ d \in SocketType /\ d.rcv = rest
        /\ d.at = s.at /\ d.fd = s.fd /\ d.snd = s.snd /\ d.fin = s.fin
        /\ d.rst = s.rst /\ d.err = s.err
    BY <2>1 DEF SocketType, Bytes
  <2> HIDE DEF d
  <2>6. QED
    BY <1>2, <1>3, <2>2, <2>3, <2>4, <2>5 DEF Bytes
<1>4. CASE ~(n > 0)
  <2>1. AfterRecv(s, n) = s \/ AfterRecv(s, n) = [s EXCEPT !.err = "none"]
    BY <1>4 DEF AfterRecv
  <2>2. QED
    BY <1>2, <1>4, <2>1 DEF SocketType
<1>5. QED
  BY <1>3, <1>4

LEMMA AfterSendIs ==
    ASSUME NEW s \in SocketType, NEW bytes \in Bytes, Numbered,
           Len(s.snd) <= SndBuf, s.rst => s.snd = <<>>
    PROVE  /\ AfterSend(s, bytes) \in SocketType
           /\ AfterSend(s, bytes).at = s.at
           /\ AfterSend(s, bytes).fd = s.fd
           /\ AfterSend(s, bytes).rcv = s.rcv
           /\ AfterSend(s, bytes).fin = s.fin
           /\ AfterSend(s, bytes).rst = s.rst
           /\ AfterSend(s, bytes).err \in {s.err, "none"}
           /\ s.rst => AfterSend(s, bytes).snd = <<>>
           /\ Taken(s, bytes) \in 0..Len(bytes)
           /\ s.rst => Taken(s, bytes) = 0
           /\ SubSeq(bytes, 1, Taken(s, bytes)) \in Bytes
           /\ Len(SubSeq(bytes, 1, Taken(s, bytes))) = Taken(s, bytes)
           /\ Len(AfterSend(s, bytes).snd) = Len(s.snd) + Taken(s, bytes)
           /\ Len(AfterSend(s, bytes).snd) <= SndBuf
<1> DEFINE k == Taken(s, bytes)
           part == SubSeq(bytes, 1, k)
           new == s.snd \o part
           d == [s EXCEPT !.snd = new, !.err = IF s.rst THEN "none" ELSE @]
<1>1. s.snd \in Seq(Nat \ {0}) /\ Len(s.snd) \in Nat
  BY LenProperties DEF SocketType, Bytes
<1>2. bytes \in Seq(Nat \ {0}) /\ Len(bytes) \in Nat
      /\ \A i \in 1..Len(bytes) : bytes[i] \in Nat \ {0}
  BY LenProperties DEF Bytes
<1>3. k \in 0..Len(bytes) /\ (s.rst => k = 0) /\ Len(s.snd) + k <= SndBuf
  <2>1. CASE s.rst
    <3>1. k = 0
      BY <2>1 DEF Taken
    <3>2. QED
      BY <1>1, <1>2, <2>1, <3>1 DEF Numbered
  <2>2. CASE ~s.rst
    <3> DEFINE room == SndBuf - Len(s.snd)
    <3>1. room \in Nat
      BY <1>1 DEF Numbered
    <3>2. k = IF Len(bytes) <= room THEN Len(bytes) ELSE room
      BY <2>2 DEF Taken
    <3>3. k <= room /\ k \in Nat /\ k <= Len(bytes)
      <4> HIDE DEF k, room
      <4>1. QED
        BY <1>2, <3>1, <3>2
    <3>4. Len(s.snd) + k <= SndBuf
      <4> HIDE DEF k
      <4>1. QED
        BY <1>1, <3>3 DEF Numbered
    <3> HIDE DEF k, room
    <3>5. QED
      BY <1>2, <2>2, <3>3, <3>4
  <2>3. QED
    BY <2>1, <2>2
<1> HIDE DEF k
<1>4. part \in Seq(Nat \ {0}) /\ Len(part) = k
  BY <1>2, <1>3, SubSeqProperties
<1> HIDE DEF part
<1>5. new \in Seq(Nat \ {0}) /\ Len(new) = Len(s.snd) + k
  BY <1>1, <1>4, ConcatProperties
<1>6. s.rst => new = <<>>
  BY <1>1, <1>3, <1>5, EmptySeq
<1> HIDE DEF new
<1>7. AfterSend(s, bytes) = d
  BY DEF AfterSend, new, part, k
<1>8. /\ d \in SocketType /\ d.snd = new
      /\ d.at = s.at /\ d.fd = s.fd /\ d.rcv = s.rcv /\ d.fin = s.fin
      /\ d.rst = s.rst /\ d.err \in {s.err, "none"}
  BY <1>5 DEF SocketType, Bytes
<1> HIDE DEF d
<1>9. QED
  BY <1>3, <1>4, <1>5, <1>6, <1>7, <1>8 DEF k, part, Bytes

LEMMA AfterCloseIs ==
    ASSUME NEW s \in SocketType
    PROVE  /\ AfterClose(s) \in SocketType
           /\ AfterClose(s).at = "closed"
           /\ AfterClose(s).fin = s.fin
           /\ AfterClose(s).rst = s.rst
           /\ AfterClose(s).err = "none"
           /\ AfterClose(s).snd = <<>>
<1>1. <<>> \in Bytes
  BY EmptySeq DEF Bytes
<1>2. QED
  BY <1>1 DEF AfterClose, SocketType

-----------------------------------------------------------------------------
(* The steps. *)

LEMMA InitNet ==
    ASSUME Numbered, NetworkInit PROVE NetInv
<1>1. <<>> \in Bytes /\ <<>> \in Seq(Peers) /\ Len(<<>>) = 0
  BY EmptySeq DEF Bytes
<1>2. NetworkTypeOK
  BY <1>1 DEF NetworkInit, NetworkTypeOK, SocketType
<1>3. FdsDistinct /\ QueueInOrder
  BY <1>1 DEF NetworkInit, FdsDistinct, QueueInOrder
<1>4. \A p \in Peers : Fresh(p)
  BY <1>1 DEF NetworkInit, Fresh, Numbered
<1>5. QED
  BY <1>2, <1>3, <1>4 DEF NetInv

(* What the server may do to an open connection: use it, or close it. *)
Used(p) ==
    \/ sock'[p] = sock[p]
    \/ /\ sock[p].at = "open"
       /\ (sock'[p].at = "open" /\ sock'[p].fd = sock[p].fd) \/ sock'[p].at = "closed"
       /\ sock'[p].rst = sock[p].rst
       /\ sock'[p].rst => sock'[p].snd = <<>>
       /\ sock'[p].err # "none" => sock'[p].rst
       /\ Len(sock'[p].snd) <= SndBuf

LEMMA OpenChange ==
    ASSUME NetInv, sock' \in [Peers -> SocketType], \A p \in Peers : Used(p),
           UNCHANGED <<backlog, sent>>
    PROVE  /\ NetInv'
           /\ UsedFds' = {f \in UsedFds : sock'[Owner(f)].at = "open"}
           /\ \A f \in UsedFds' : Owner(f)' = Owner(f)
<1>1. /\ sock \in [Peers -> SocketType] /\ backlog \in Seq(Peers)
      /\ sent \in [Peers -> Nat]
  BY DEF NetInv, NetworkTypeOK
<1>2. NetworkTypeOK'
  BY <1>1 DEF NetworkTypeOK, SocketType, Bytes
<1>3. \A p \in Peers : sock'[p].at = "open" => sock[p].at = "open" /\ sock'[p].fd = sock[p].fd
  BY DEF Used
<1>4. FdsDistinct'
  BY <1>3 DEF FdsDistinct, NetInv
<1>5. QueueInOrder'
  <2>1. \A i \in 1..Len(backlog) : backlog[i] \in Peers
    BY <1>1, ElementOfSeq
  <2>2. \A p \in Peers : /\ sock[p].at = "queued" => sock'[p].at = "queued"
                         /\ sock'[p].at = "away" <=> sock[p].at = "away"
    BY DEF Used
  <2>3. QED
    BY <2>1, <2>2 DEF QueueInOrder, NetInv
<1>6. \A p \in Peers : Fresh(p)'
  BY DEF Fresh, NetInv, Used
<1>7. NetInv'
  BY <1>2, <1>4, <1>5, <1>6 DEF NetInv
<1>8. OwnersKnown /\ OwnersKnown'
  BY <1>7, OwnerIs, OwnerIsThen DEF NetInv
<1>9. ASSUME NEW f \in UsedFds'
      PROVE  /\ f \in UsedFds /\ Owner(f)' = Owner(f)
             /\ sock'[Owner(f)].at = "open"
  <2>1. PICK q \in Peers : sock'[q].at = "open" /\ sock'[q].fd = f
    BY DEF UsedFds
  <2>2. sock[q].at = "open" /\ sock[q].fd = f /\ f \in Fds
    BY <1>3, <1>7, <2>1 DEF NetInv, FdsDistinct
  <2>3. Owner(f)' = q /\ Owner(f) = q /\ f \in UsedFds
    BY <1>8, <2>1, <2>2 DEF OwnersKnown
  <2>4. QED
    BY <2>1, <2>3
<1>10. ASSUME NEW f \in UsedFds, sock'[Owner(f)].at = "open"
       PROVE  f \in UsedFds'
  <2>1. Owner(f) \in Peers /\ sock[Owner(f)].fd = f
    BY <1>8 DEF OwnersKnown
  <2>2. sock'[Owner(f)].fd = f
    BY <1>3, <1>10, <2>1
  <2>3. QED
    BY <1>10, <2>1, <2>2 DEF UsedFds
<1>11. QED
  BY <1>7, <1>9, <1>10

LEMMA HeadOfQueue ==
    ASSUME NetInv, backlog # <<>>
    PROVE  /\ Head(backlog) \in Peers
           /\ sock[Head(backlog)].at = "queued"
           /\ backlog \in Seq(Peers) /\ Len(backlog) \in Nat \ {0}
           /\ Head(backlog) = backlog[1]
<1>1. backlog \in Seq(Peers) /\ Len(backlog) \in Nat \ {0}
  BY EmptySeq DEF NetInv, NetworkTypeOK
<1>2. Head(backlog) = backlog[1] /\ Head(backlog) \in Peers
  BY <1>1, HeadTailProperties
<1>3. 1 \in 1..Len(backlog)
  BY <1>1
<1>4. sock[backlog[1]].at = "queued"
  BY <1>3 DEF NetInv, QueueInOrder
<1>5. QED
  BY <1>1, <1>2, <1>4

(* accept4() *)
LEMMA AcceptedNet ==
    ASSUME Numbered, NetInv, backlog # <<>>, NEW f \in FreeFds,
           sock' = Accepted(f), backlog' = Tail(backlog), UNCHANGED sent
    PROVE  /\ NetInv'
           /\ sock'[Head(backlog)] = [sock[Head(backlog)] EXCEPT !.at = "open", !.fd = f]
           /\ \A q \in Peers : q # Head(backlog) => sock'[q] = sock[q]
<1> DEFINE h == Head(backlog)
           s == [sock[h] EXCEPT !.at = "open", !.fd = f]
<1>1. /\ sock \in [Peers -> SocketType] /\ backlog \in Seq(Peers)
      /\ sent \in [Peers -> Nat]
  BY DEF NetInv, NetworkTypeOK
<1>2. h \in Peers /\ sock[h].at = "queued" /\ h = backlog[1] /\ Len(backlog) \in Nat \ {0}
  BY HeadOfQueue
<1>3. f \in Fds /\ \A q \in Peers : sock[q].at = "open" => sock[q].fd # f
  BY DEF FreeFds, UsedFds
<1> HIDE DEF h
<1>4. sock' = [sock EXCEPT ![h] = s]
  BY <1>1, <1>2 DEF Accepted, h
<1>5. /\ s \in SocketType /\ s.at = "open" /\ s.fd = f /\ s.snd = sock[h].snd
      /\ s.rst = sock[h].rst /\ s.err = sock[h].err /\ s.rcv = sock[h].rcv
  <2>1. sock[h] \in SocketType
    BY <1>1, <1>2
  <2>2. QED
    BY <1>3, <2>1 DEF SocketType
<1> HIDE DEF s
<1>6. sock' \in [Peers -> SocketType] /\ sock'[h] = s
      /\ \A q \in Peers : q # h => sock'[q] = sock[q]
  BY <1>1, <1>2, <1>4, <1>5
<1>7. /\ backlog' \in Seq(Peers) /\ Len(backlog') = Len(backlog) - 1
      /\ \A i \in 1..Len(backlog') : backlog'[i] = backlog[i + 1]
  BY <1>1, <1>2, HeadTailProperties, EmptySeq
<1>8. NetworkTypeOK'
  BY <1>1, <1>6, <1>7 DEF NetworkTypeOK, SocketType, Bytes
<1>9. FdsDistinct'
  BY <1>3, <1>5, <1>6 DEF FdsDistinct, NetInv
<1>10. QueueInOrder'
  <2>1. \A i \in 1..Len(backlog) : backlog[i] \in Peers
    BY <1>1, ElementOfSeq
  <2>2. ASSUME NEW i \in 1..Len(backlog')
        PROVE  /\ i + 1 \in 1..Len(backlog) /\ backlog'[i] = backlog[i + 1]
               /\ backlog[i + 1] # h /\ backlog[i + 1] \in Peers
    <3>1. i + 1 \in 1..Len(backlog) /\ 1 \in 1..Len(backlog) /\ 1 < i + 1
      BY <1>2, <1>7
    <3>2. backlog[1] < backlog[i + 1]
      BY <3>1 DEF NetInv, QueueInOrder
    <3>3. QED
      BY <1>2, <1>7, <2>1, <3>1, <3>2 DEF Numbered
  <2>3. \A i \in 1..Len(backlog') : sock'[backlog'[i]].at = "queued"
    BY <1>6, <2>2 DEF NetInv, QueueInOrder
  <2>4. ASSUME NEW i \in 1..Len(backlog'), NEW j \in 1..Len(backlog'), i < j
        PROVE  backlog'[i] < backlog'[j]
    BY <2>2, <2>4 DEF NetInv, QueueInOrder
  <2>5. \A p, q \in Peers : q < p /\ sock'[p].at # "away" => sock'[q].at # "away"
    BY <1>2, <1>5, <1>6 DEF NetInv, QueueInOrder
  <2>6. QED
    BY <2>3, <2>4, <2>5 DEF QueueInOrder
<1>11. \A q \in Peers : Fresh(q)'
  BY <1>2, <1>5, <1>6 DEF Fresh, NetInv
<1>12. QED
  BY <1>4, <1>6, <1>8, <1>9, <1>10, <1>11 DEF NetInv, h, s

(* accept4() on a socket of its own: the i-th who waits, the queue closes up. *)
AcceptsAt(p, i) ==
    /\ p = backlog[i]
    /\ sock' = [sock EXCEPT ![p].at = "open", ![p].fd = LowestFree]
    /\ sent' = sent
QueueWithout(i) ==
    /\ backlog' \in Seq(Peers) /\ Len(backlog') = Len(backlog) - 1
    /\ \A j \in 1..Len(backlog') :
          backlog'[j] = IF j < i THEN backlog[j] ELSE backlog[j + 1]

LEMMA AcceptAtIs ==
    ASSUME Numbered, NetInv, NEW i \in 1..Len(backlog), FreeFds # {},
           NEW p, AcceptsAt(p, i), QueueWithout(i)
    PROVE  /\ NetInv'
           /\ p \in Peers /\ sock[p].at = "queued"
           /\ sock'[p].at = "open" /\ sock'[p].fd = LowestFree /\ LowestFree \in FreeFds
           /\ \A q \in Peers : q # p => sock'[q] = sock[q]
<1>1. /\ sock \in [Peers -> SocketType] /\ backlog \in Seq(Peers)
      /\ sent \in [Peers -> Nat] /\ Len(backlog) \in Nat
  BY LenProperties DEF NetInv, NetworkTypeOK
<1>2. \A j \in 1..Len(backlog) : backlog[j] \in Peers /\ sock[backlog[j]].at = "queued"
  BY <1>1, ElementOfSeq DEF NetInv, QueueInOrder
<1>3. p \in Peers /\ sock[p].at = "queued" /\ sock[p] \in SocketType
  BY <1>1, <1>2 DEF AcceptsAt
<1>4. PICK f \in FreeFds : f = LowestFree
  BY LowestIsFree
<1>5. f \in Fds /\ \A q \in Peers : sock[q].at = "open" => sock[q].fd # f
  BY DEF FreeFds, UsedFds
<1> DEFINE s == [sock[p] EXCEPT !.at = "open", !.fd = f]
<1>6. sock' = [sock EXCEPT ![p] = s]
  BY <1>1, <1>3, <1>4 DEF AcceptsAt
<1>7. /\ s \in SocketType /\ s.at = "open" /\ s.fd = f /\ s.snd = sock[p].snd
      /\ s.rst = sock[p].rst /\ s.err = sock[p].err /\ s.rcv = sock[p].rcv
  BY <1>3, <1>5 DEF SocketType
<1> HIDE DEF s
<1>8. sock' \in [Peers -> SocketType] /\ sock'[p] = s
      /\ \A q \in Peers : q # p => sock'[q] = sock[q]
  BY <1>1, <1>3, <1>6, <1>7
<1>9. NetworkTypeOK'
  BY <1>1, <1>8 DEF NetworkTypeOK, AcceptsAt, QueueWithout
<1>10. FdsDistinct'
  BY <1>5, <1>7, <1>8 DEF FdsDistinct, NetInv
<1>11. QueueInOrder'
  <2>1. ASSUME NEW j \in 1..Len(backlog')
        PROVE  \E k \in 1..Len(backlog) : /\ backlog'[j] = backlog[k] /\ k # i
                                          /\ k = IF j < i THEN j ELSE j + 1
    <3>1. PICK k : k = IF j < i THEN j ELSE j + 1
      OBVIOUS
    <3>2. Len(backlog') = Len(backlog) - 1 /\ Len(backlog) \in Nat
      BY <1>1 DEF QueueWithout
    <3>3. k \in 1..Len(backlog) /\ k # i
      BY <3>1, <3>2
    <3>4. backlog'[j] = backlog[k]
      BY <3>1 DEF QueueWithout
    <3>5. QED
      BY <3>1, <3>3, <3>4
  <2>2. \A k \in 1..Len(backlog) : k # i => backlog[k] # p
    <3>1. \A j, k \in 1..Len(backlog) : j < k => backlog[j] < backlog[k]
      BY DEF NetInv, QueueInOrder
    <3>2. \A k \in 1..Len(backlog) : backlog[k] \in Nat
      BY <1>2 DEF Numbered
    <3>3. ASSUME NEW k \in 1..Len(backlog), k # i PROVE backlog[k] # p
      <4>1. k < i \/ i < k
        BY <3>3
      <4>2. backlog[k] < backlog[i] \/ backlog[i] < backlog[k]
        BY <3>1, <4>1
      <4>3. QED
        BY <3>2, <4>2 DEF AcceptsAt
    <3>4. QED
      BY <3>3
  <2>3. \A j \in 1..Len(backlog') : sock'[backlog'[j]].at = "queued"
    BY <1>2, <1>8, <2>1, <2>2
  <2>4. ASSUME NEW j \in 1..Len(backlog'), NEW k \in 1..Len(backlog'), j < k
        PROVE  backlog'[j] < backlog'[k]
    <3>1. PICK l \in 1..Len(backlog) : /\ backlog'[j] = backlog[l]
                                      /\ l = IF j < i THEN j ELSE j + 1
      BY <2>1
    <3>2. PICK m \in 1..Len(backlog) : /\ backlog'[k] = backlog[m]
                                      /\ m = IF k < i THEN k ELSE k + 1
      BY <2>1
    <3>3. l < m
      BY <2>4, <3>1, <3>2
    <3>4. QED
      BY <3>1, <3>2, <3>3 DEF NetInv, QueueInOrder
  <2>5. \A q, r \in Peers : r < q /\ sock'[q].at # "away" => sock'[r].at # "away"
    BY <1>3, <1>7, <1>8 DEF NetInv, QueueInOrder
  <2>6. QED
    BY <2>3, <2>4, <2>5 DEF QueueInOrder
<1>12. \A q \in Peers : Fresh(q)'
  BY <1>3, <1>7, <1>8 DEF Fresh, NetInv, AcceptsAt
<1>13. QED
  BY <1>3, <1>4, <1>7, <1>8, <1>9, <1>10, <1>11, <1>12 DEF NetInv

-----------------------------------------------------------------------------
(* What the steps do to the descriptors. *)

LEMMA OwnersAfterAccept ==
    ASSUME NetInv, NetInv', NEW p \in Peers, sock[p].at = "queued", NEW f \in FreeFds,
           sock'[p].at = "open", sock'[p].fd = f,
           \A q \in Peers : q # p => sock'[q] = sock[q]
    PROVE  /\ UsedFds' = UsedFds \cup {f} /\ f \notin UsedFds
           /\ Owner(f)' = p
           /\ \A g \in UsedFds : Owner(g)' = Owner(g)
<1>1. OwnersKnown /\ OwnersKnown'
  BY OwnerIs, OwnerIsThen DEF NetInv
<1>2. f \notin UsedFds /\ f \in UsedFds' /\ Owner(f)' = p
  BY <1>1 DEF FreeFds, OwnersKnown
<1>3. ASSUME NEW g \in UsedFds', g # f PROVE g \in UsedFds
  <2>1. PICK q \in Peers : sock'[q].at = "open" /\ sock'[q].fd = g
    BY DEF UsedFds
  <2>2. sock[q].at = "open" /\ sock[q].fd = g
    BY <1>3, <2>1
  <2>3. QED
    BY <2>2 DEF UsedFds
<1>4. ASSUME NEW g \in UsedFds PROVE g \in UsedFds' /\ Owner(g)' = Owner(g)
  <2>1. PICK q \in Peers : sock[q].at = "open" /\ sock[q].fd = g
    BY DEF UsedFds
  <2>2. sock'[q].at = "open" /\ sock'[q].fd = g
    BY <2>1
  <2>3. Owner(g) = q /\ Owner(g)' = q /\ g \in UsedFds'
    BY <1>1, <2>1, <2>2 DEF OwnersKnown
  <2>4. QED
    BY <2>3
<1>5. QED
  BY <1>2, <1>3, <1>4

-----------------------------------------------------------------------------
(* The peers' steps. *)

LEMMA ConnectIs ==
    ASSUME Numbered, NetInv, NEW p \in Peers, Connect(p)
    PROVE  NetInv' /\ (\A q \in Peers : PeersKeep(q)) /\ PeersKeepQueue
<1> DEFINE s == [sock[p] EXCEPT !.at = "queued"]
<1>1. /\ sock \in [Peers -> SocketType] /\ backlog \in Seq(Peers)
      /\ sent \in [Peers -> Nat]
  BY DEF NetInv, NetworkTypeOK
<1>2. sock[p].at = "away" /\ sock[p] \in SocketType
  BY <1>1 DEF Connect
<1>3. s \in SocketType /\ s.at = "queued" /\ s.fd = sock[p].fd /\ s.rcv = sock[p].rcv
      /\ s.snd = sock[p].snd /\ s.fin = sock[p].fin /\ s.rst = sock[p].rst
      /\ s.err = sock[p].err
  BY <1>2 DEF SocketType
<1>4. sock' = [sock EXCEPT ![p] = s] /\ sent' = sent /\ backlog' = Append(backlog, p)
  BY <1>1 DEF Connect
<1> HIDE DEF s
<1>5. sock' \in [Peers -> SocketType] /\ sock'[p] = s
      /\ \A q \in Peers : q # p => sock'[q] = sock[q]
  BY <1>1, <1>3, <1>4
<1>6. /\ backlog' \in Seq(Peers) /\ Len(backlog') = Len(backlog) + 1
      /\ Len(backlog) \in Nat /\ backlog'[Len(backlog) + 1] = p
      /\ \A i \in 1..Len(backlog) : backlog'[i] = backlog[i] /\ backlog[i] \in Peers
  BY <1>1, <1>4, AppendProperties, ElementOfSeq
<1>7. NetworkTypeOK'
  BY <1>1, <1>4, <1>5, <1>6 DEF NetworkTypeOK, SocketType, Bytes
<1>8. FdsDistinct'
  BY <1>3, <1>5 DEF FdsDistinct, NetInv
<1>9. QueueInOrder'
  <2>1. \A i \in 1..Len(backlog) : sock[backlog[i]].at = "queued" /\ backlog[i] # p
    BY <1>2 DEF NetInv, QueueInOrder
  <2>2. \A i \in 1..Len(backlog) : backlog[i] < p
    <3>1. ASSUME NEW i \in 1..Len(backlog), ~(backlog[i] < p) PROVE FALSE
      <4>1. backlog[i] \in Peers /\ p < backlog[i] /\ sock[backlog[i]].at # "away"
        BY <1>6, <2>1, <3>1 DEF Numbered
      <4>2. QED
        BY <1>2, <4>1 DEF NetInv, QueueInOrder
    <3>2. QED
      BY <3>1
  <2>3. \A i \in 1..Len(backlog') : i = Len(backlog) + 1 \/ i \in 1..Len(backlog)
    BY <1>6
  <2>4. \A i \in 1..Len(backlog') : sock'[backlog'[i]].at = "queued"
    BY <1>3, <1>5, <1>6, <2>1, <2>3
  <2>5. ASSUME NEW i \in 1..Len(backlog'), NEW j \in 1..Len(backlog'), i < j
        PROVE  backlog'[i] < backlog'[j]
    <3>1. i \in 1..Len(backlog)
      BY <1>6, <2>5
    <3>2. QED
      BY <1>6, <2>2, <2>3, <2>5, <3>1 DEF NetInv, QueueInOrder
  <2>6. \A q, r \in Peers : r < q /\ sock'[q].at # "away" => sock'[r].at # "away"
    BY <1>3, <1>5 DEF NetInv, QueueInOrder, Connect
  <2>7. QED
    BY <2>4, <2>5, <2>6 DEF QueueInOrder
<1>10. \A q \in Peers : Fresh(q)'
  BY <1>2, <1>3, <1>4, <1>5 DEF Fresh, NetInv
<1>11. \A q \in Peers : PeersKeep(q)
  <2>1. \A q \in Peers : Len(sock[q].snd) <= Len(sock[q].snd)
    BY <1>1, LenProperties DEF SocketType, Bytes
  <2>2. QED
    BY <1>2, <1>3, <1>4, <1>5, <2>1 DEF PeersKeep
<1>12. PeersKeepQueue
  BY <1>2, <1>3, <1>4, <1>5 DEF PeersKeepQueue
<1>13. QED
  BY <1>7, <1>8, <1>9, <1>10, <1>11, <1>12 DEF NetInv

(* What a peer does on its own connection. *)
LEMMA PeerChange ==
    ASSUME NetInv, NEW p \in Peers, NEW s \in SocketType,
           s.at = sock[p].at, s.fd = sock[p].fd,
           sock' = [sock EXCEPT ![p] = s], UNCHANGED backlog,
           sent' \in [Peers -> Nat], \A q \in Peers : q # p => sent'[q] = sent[q]
    PROVE  /\ sock'[p] = s
           /\ \A q \in Peers : q # p => sock'[q] = sock[q]
           /\ Fresh(p)' => NetInv'
           /\ PeersKeep(p) => \A q \in Peers : PeersKeep(q)
           /\ PeersKeepQueue
<1>1. /\ sock \in [Peers -> SocketType] /\ backlog \in Seq(Peers)
      /\ sent \in [Peers -> Nat]
  BY DEF NetInv, NetworkTypeOK
<1>2. sock' \in [Peers -> SocketType] /\ sock'[p] = s
      /\ \A q \in Peers : q # p => sock'[q] = sock[q]
  BY <1>1
<1>3. NetworkTypeOK'
  BY <1>1, <1>2 DEF NetworkTypeOK, SocketType, Bytes
<1>4. FdsDistinct'
  BY <1>2 DEF FdsDistinct, NetInv
<1>5. QueueInOrder'
  <2>1. \A i \in 1..Len(backlog) : backlog[i] \in Peers
    BY <1>1, ElementOfSeq
  <2>2. \A q \in Peers : sock'[q].at = sock[q].at
    BY <1>2
  <2>3. QED
    BY <2>1, <2>2 DEF QueueInOrder, NetInv
<1>6. ASSUME Fresh(p)' PROVE \A q \in Peers : Fresh(q)'
  BY <1>2, <1>6 DEF Fresh, NetInv
<1>7. ASSUME PeersKeep(p) PROVE \A q \in Peers : PeersKeep(q)
  <2>1. \A q \in Peers : Len(sock[q].snd) <= Len(sock[q].snd)
    BY <1>1, LenProperties DEF SocketType, Bytes
  <2>2. QED
    BY <1>2, <1>7, <2>1 DEF PeersKeep
<1>8. QED
  BY <1>2, <1>3, <1>4, <1>5, <1>6, <1>7 DEF NetInv, PeersKeepQueue

LEMMA PeerSendIs ==
    ASSUME Numbered, NetInv, NEW p \in Peers, PeerSend(p)
    PROVE  NetInv' /\ (\A q \in Peers : PeersKeep(q)) /\ PeersKeepQueue
<1> DEFINE more == Append(sock[p].rcv, sent[p] + 1)
           s == [sock[p] EXCEPT !.rcv = more]
<1>1. /\ sock \in [Peers -> SocketType] /\ sent \in [Peers -> Nat]
      /\ sock[p] \in SocketType /\ sent[p] \in Nat
  BY DEF NetInv, NetworkTypeOK
<1>2. more \in Bytes
  BY <1>1, AppendProperties DEF SocketType, Bytes
<1>3. sock' = [sock EXCEPT ![p] = s] /\ UNCHANGED backlog
  BY <1>1 DEF PeerSend
<1>4. sent' \in [Peers -> Nat] /\ sent'[p] = sent[p] + 1
      /\ \A q \in Peers : q # p => sent'[q] = sent[q]
  BY <1>1 DEF PeerSend
<1> HIDE DEF more
<1>5. s \in SocketType /\ s.at = sock[p].at /\ s.fd = sock[p].fd /\ s.rcv = more
      /\ s.snd = sock[p].snd /\ s.fin = sock[p].fin /\ s.rst = sock[p].rst
      /\ s.err = sock[p].err
  BY <1>1, <1>2 DEF SocketType
<1> HIDE DEF s
<1>6. /\ sock'[p] = s /\ (Fresh(p)' => NetInv') /\ PeersKeepQueue
      /\ PeersKeep(p) => \A q \in Peers : PeersKeep(q)
  BY <1>3, <1>4, <1>5, PeerChange
<1>7. Len(sock[p].snd) \in Nat
  BY <1>1, LenProperties DEF SocketType, Bytes
<1>8. Fresh(p)'
  BY <1>1, <1>4, <1>5, <1>6 DEF Fresh, NetInv, PeerSend, Alive, Numbered
<1>9. PeersKeep(p)
  BY <1>4, <1>5, <1>6, <1>7 DEF PeersKeep, PeerSend, Alive, more
<1>10. QED
  BY <1>6, <1>8, <1>9

LEMMA PeerRecvIs ==
    ASSUME Numbered, NetInv, NEW p \in Peers, PeerRecv(p)
    PROVE  NetInv' /\ (\A q \in Peers : PeersKeep(q)) /\ PeersKeepQueue
<1> DEFINE less == Tail(sock[p].snd)
           s == [sock[p] EXCEPT !.snd = less]
<1>1. /\ sock \in [Peers -> SocketType] /\ sent \in [Peers -> Nat]
      /\ sock[p] \in SocketType
  BY DEF NetInv, NetworkTypeOK
<1>2. less \in Bytes /\ Len(less) = Len(sock[p].snd) - 1 /\ Len(less) \in Nat
  BY <1>1, HeadTailProperties, LenProperties DEF SocketType, Bytes, PeerRecv
<1>3. sock' = [sock EXCEPT ![p] = s] /\ UNCHANGED <<backlog, sent>>
  BY <1>1 DEF PeerRecv
<1> HIDE DEF less
<1>4. s \in SocketType /\ s.at = sock[p].at /\ s.fd = sock[p].fd /\ s.rcv = sock[p].rcv
      /\ s.snd = less /\ s.fin = sock[p].fin /\ s.rst = sock[p].rst
      /\ s.err = sock[p].err
  BY <1>1, <1>2 DEF SocketType
<1> HIDE DEF s
<1>5. /\ sock'[p] = s /\ (Fresh(p)' => NetInv') /\ PeersKeepQueue
      /\ PeersKeep(p) => \A q \in Peers : PeersKeep(q)
  BY <1>1, <1>3, <1>4, PeerChange
<1>6. Fresh(p)'
  BY <1>2, <1>3, <1>4, <1>5 DEF Fresh, NetInv, PeerRecv, Numbered
<1>7. PeersKeep(p)
  BY <1>2, <1>3, <1>4, <1>5 DEF PeersKeep
<1>8. QED
  BY <1>5, <1>6, <1>7

LEMMA PeerCloseIs ==
    ASSUME Numbered, NetInv, NEW p \in Peers, PeerClose(p)
    PROVE  NetInv' /\ (\A q \in Peers : PeersKeep(q)) /\ PeersKeepQueue
<1> DEFINE s == [sock[p] EXCEPT !.fin = TRUE]
<1>1. /\ sock \in [Peers -> SocketType] /\ sent \in [Peers -> Nat]
      /\ sock[p] \in SocketType
  BY DEF NetInv, NetworkTypeOK
<1>2. sock' = [sock EXCEPT ![p] = s] /\ UNCHANGED <<backlog, sent>>
  BY <1>1 DEF PeerClose
<1>3. s \in SocketType /\ s.at = sock[p].at /\ s.fd = sock[p].fd /\ s.rcv = sock[p].rcv
      /\ s.snd = sock[p].snd /\ s.fin = TRUE /\ s.rst = sock[p].rst
      /\ s.err = sock[p].err
  BY <1>1 DEF SocketType
<1> HIDE DEF s
<1>4. /\ sock'[p] = s /\ (Fresh(p)' => NetInv') /\ PeersKeepQueue
      /\ PeersKeep(p) => \A q \in Peers : PeersKeep(q)
  BY <1>1, <1>2, <1>3, PeerChange
<1>5. Len(sock[p].snd) \in Nat
  BY <1>1, LenProperties DEF SocketType, Bytes
<1>6. Fresh(p)'
  BY <1>2, <1>3, <1>4 DEF Fresh, NetInv, PeerClose, Alive
<1>7. PeersKeep(p)
  BY <1>2, <1>3, <1>4, <1>5 DEF PeersKeep
<1>8. QED
  BY <1>4, <1>6, <1>7

LEMMA PeerResetIs ==
    ASSUME Numbered, NetInv, NEW p \in Peers, PeerReset(p)
    PROVE  NetInv' /\ (\A q \in Peers : PeersKeep(q)) /\ PeersKeepQueue
<1> DEFINE e == IF sock[p].fin THEN "EPIPE" ELSE "ECONNRESET"
           s == [sock[p] EXCEPT !.rst = TRUE, !.snd = <<>>, !.err = e]
<1>1. /\ sock \in [Peers -> SocketType] /\ sent \in [Peers -> Nat]
      /\ sock[p] \in SocketType
  BY DEF NetInv, NetworkTypeOK
<1>2. sock' = [sock EXCEPT ![p] = s] /\ UNCHANGED <<backlog, sent>>
  BY <1>1 DEF PeerReset
<1>3. <<>> \in Bytes /\ Len(<<>>) = 0
  BY EmptySeq DEF Bytes
<1>4. s \in SocketType /\ s.at = sock[p].at /\ s.fd = sock[p].fd /\ s.rcv = sock[p].rcv
      /\ s.snd = <<>> /\ s.fin = sock[p].fin /\ s.rst = TRUE
  BY <1>1, <1>3 DEF SocketType
<1> HIDE DEF s
<1>5. /\ sock'[p] = s /\ (Fresh(p)' => NetInv') /\ PeersKeepQueue
      /\ PeersKeep(p) => \A q \in Peers : PeersKeep(q)
  BY <1>1, <1>2, <1>4, PeerChange
<1>6. Len(sock[p].snd) \in Nat /\ 0 <= Len(sock[p].snd)
  BY <1>1, LenProperties DEF SocketType, Bytes
<1>7. Fresh(p)'
  BY <1>2, <1>3, <1>4, <1>5 DEF Fresh, NetInv, PeerReset, Alive, Numbered
<1>8. PeersKeep(p)
  BY <1>2, <1>3, <1>4, <1>5, <1>6 DEF PeersKeep
<1>9. QED
  BY <1>5, <1>7, <1>8

(* The peers take nothing away, and no descriptor changes. *)
LEMMA PeersMoveNet ==
    ASSUME Numbered, NetInv, PeerStep
    PROVE  /\ NetInv'
           /\ \A p \in Peers : PeersKeep(p)
           /\ PeersKeepQueue
           /\ UsedFds' = UsedFds
           /\ \A f \in UsedFds : Owner(f)' = Owner(f)
<1>1. NetInv' /\ (\A p \in Peers : PeersKeep(p)) /\ PeersKeepQueue
  BY ConnectIs, PeerSendIs, PeerRecvIs, PeerCloseIs, PeerResetIs DEF PeerStep
<1>2. OwnersKnown /\ OwnersKnown'
  BY <1>1, OwnerIs, OwnerIsThen DEF NetInv
<1>3. \A p \in Peers : /\ sock'[p].fd = sock[p].fd
                       /\ sock'[p].at = "open" <=> sock[p].at = "open"
  BY <1>1 DEF PeersKeep
<1>4. UsedFds' = UsedFds
  BY <1>3 DEF UsedFds
<1>5. ASSUME NEW f \in UsedFds PROVE Owner(f)' = Owner(f)
  <2>1. PICK p \in Peers : sock[p].at = "open" /\ sock[p].fd = f
    BY DEF UsedFds
  <2>2. sock'[p].at = "open" /\ sock'[p].fd = f
    BY <1>3, <2>1
  <2>3. QED
    BY <1>2, <2>1, <2>2 DEF OwnersKnown
<1>6. QED
  BY <1>1, <1>4, <1>5

-----------------------------------------------------------------------------
(* What the servers do with the system calls. *)

(* accept4() takes the lowest free descriptor for the one who came first. *)
LEMMA AcceptIs ==
    ASSUME Numbered, NetInv, backlog # <<>>, FreeFds # {},
           sock' = Accepted(LowestFree), backlog' = Tail(backlog), UNCHANGED sent
    PROVE  /\ NetInv'
           /\ LowestFree \in Fds /\ LowestFree \notin UsedFds
           /\ Head(backlog) \in Peers /\ sock[Head(backlog)].at = "queued"
           /\ sock'[Head(backlog)] = [sock[Head(backlog)] EXCEPT !.at = "open",
                                                               !.fd = LowestFree]
           /\ \A q \in Peers : q # Head(backlog) => sock'[q] = sock[q]
           /\ UsedFds' = UsedFds \cup {LowestFree}
           /\ \A g \in UsedFds : Owner(g)' = Owner(g)
           /\ \A g \in {LowestFree} : Owner(g)' = Head(backlog)
<1> DEFINE h == Head(backlog)
<1>1. PICK f \in FreeFds : f = LowestFree
  BY LowestIsFree
<1>2. h \in Peers /\ sock[h].at = "queued" /\ sock[h] \in SocketType
  BY HeadOfQueue DEF NetInv, NetworkTypeOK
<1>3. /\ NetInv' /\ sock'[h] = [sock[h] EXCEPT !.at = "open", !.fd = f]
      /\ \A q \in Peers : q # h => sock'[q] = sock[q]
  BY <1>1, AcceptedNet
<1> HIDE DEF h
<1>4. sock'[h].at = "open" /\ sock'[h].fd = f
  BY <1>2, <1>3 DEF SocketType
<1>5. /\ UsedFds' = UsedFds \cup {f} /\ f \notin UsedFds
      /\ Owner(f)' = h
      /\ \A g \in UsedFds : Owner(g)' = Owner(g)
  BY <1>2, <1>3, <1>4, OwnersAfterAccept
<1>6. f \in Fds
  BY DEF FreeFds
<1>7. QED
  BY <1>1, <1>2, <1>3, <1>5, <1>6 DEF h

(* close() *)
LEMMA CloseIs ==
    ASSUME Numbered, NetInv, NEW f \in UsedFds, sock' = Closing(f, sock),
           UNCHANGED <<backlog, sent>>
    PROVE  /\ NetInv'
           /\ UsedFds' = UsedFds \ {f}
           /\ \A g \in UsedFds' : Owner(g)' = Owner(g)
           /\ sock'[Owner(f)] = AfterClose(sock[Owner(f)])
           /\ \A q \in Peers : q # Owner(f) => sock'[q] = sock[q]
<1> DEFINE p == Owner(f)
<1>1. sock \in [Peers -> SocketType]
  BY DEF NetInv, NetworkTypeOK
<1>2. p \in Peers /\ sock[p].at = "open" /\ sock[p] \in SocketType
      /\ \A g \in UsedFds : Owner(g) \in Peers /\ sock[Owner(g)].fd = g
                            /\ sock[Owner(g)].at = "open"
  BY <1>1, OwnerIs DEF NetInv, OwnersKnown
<1> HIDE DEF p
<1>3. sock' = [sock EXCEPT ![p] = AfterClose(sock[p])]
  BY <1>1, <1>2 DEF Closing, p
<1>4. /\ AfterClose(sock[p]) \in SocketType /\ AfterClose(sock[p]).at = "closed"
      /\ AfterClose(sock[p]).snd = <<>> /\ AfterClose(sock[p]).err = "none"
      /\ AfterClose(sock[p]).rst = sock[p].rst
  BY <1>2, AfterCloseIs
<1>5. /\ sock' \in [Peers -> SocketType] /\ sock'[p] = AfterClose(sock[p])
      /\ \A q \in Peers : q # p => sock'[q] = sock[q]
  BY <1>1, <1>2, <1>3, <1>4
<1>6. \A q \in Peers : Used(q)
  <2>1. Len(AfterClose(sock[p]).snd) = 0
    BY <1>4, EmptySeq
  <2>2. Used(p)
    BY <1>2, <1>4, <1>5, <2>1 DEF Used, Numbered
  <2>3. QED
    BY <1>5, <2>2 DEF Used
<1>7. /\ NetInv' /\ UsedFds' = {g \in UsedFds : sock'[Owner(g)].at = "open"}
      /\ \A g \in UsedFds' : Owner(g)' = Owner(g)
  BY <1>5, <1>6, OpenChange
<1>8. \A g \in UsedFds : sock'[Owner(g)].at = "open" <=> g # f
  <2>1. ASSUME NEW g \in UsedFds, g # f PROVE sock'[Owner(g)].at = "open"
    BY <1>2, <1>5, <2>1 DEF p
  <2>2. sock'[Owner(f)].at # "open"
    BY <1>4, <1>5 DEF p
  <2>3. QED
    BY <2>1, <2>2
<1>9. QED
  BY <1>5, <1>7, <1>8 DEF p

LEMMA BytesConcat ==
    \A x, y, z \in Bytes : /\ x \o y \in Bytes
                          /\ Len(x \o y) = Len(x) + Len(y)
                          /\ (x \o y) \o z = x \o (y \o z)
<1>1. ASSUME NEW S
      PROVE  \A x, y, z \in Seq(S) : /\ x \o y \in Seq(S)
                                    /\ Len(x \o y) = Len(x) + Len(y)
                                    /\ (x \o y) \o z = x \o (y \o z)
  BY ConcatProperties, ConcatAssociative
<1>2. QED
  BY <1>1, SMTT(40) DEF Bytes

LEMMA Regroup ==
    ASSUME NEW i \in Bytes, NEW j \in Bytes, NEW k \in Bytes,
           NEW x, x = j \o k, NEW y, y = i \o j
    PROVE  i \o x = y \o k
BY BytesConcat, ZenonT(40)

(* The first n numbers: what a peer that sent n bytes has sent. *)
UpTo(n) == [k \in 1..n |-> k]

LEMMA UpToIs ==
    ASSUME NEW n \in Nat
    PROVE  UpTo(n) \in Bytes /\ Len(UpTo(n)) = n
<1>1. \A k \in 1..n : k \in Nat \ {0}
  OBVIOUS
<1>2. UpTo(n) \in [1..n -> Nat \ {0}]
  BY <1>1 DEF UpTo
<1>3. UpTo(n) \in Seq(Nat \ {0})
  BY <1>2, SeqDef
<1>4. Len(UpTo(n)) \in Nat /\ DOMAIN UpTo(n) = 1..Len(UpTo(n))
  BY <1>3, LenProperties
<1>5. 1..n = 1..Len(UpTo(n))
  BY <1>2, <1>4
<1>6. \A m \in Nat : 1..n = 1..m => m = n
  <2>1. ASSUME NEW m \in Nat, 1..n = 1..m PROVE m = n
    <3>1. (n = 0 \/ n \in 1..m) /\ (m = 0 \/ m \in 1..n)
      BY <2>1
    <3>2. QED
      BY <3>1
  <2>2. QED
    BY <2>1
<1>7. Len(UpTo(n)) = n
  BY <1>4, <1>5, <1>6
<1>8. QED
  BY <1>3, <1>7 DEF Bytes

LEMMA NothingSent == UpTo(0) = <<>>
<1>1. UpTo(0) \in Bytes /\ Len(UpTo(0)) = 0
  BY UpToIs
<1>2. QED
  BY <1>1, EmptySeq DEF Bytes

LEMMA UpToNext ==
    ASSUME NEW n \in Nat
    PROVE  UpTo(n + 1) = Append(UpTo(n), n + 1)
<1>1. UpTo(n) \in Seq(Nat \ {0}) /\ Len(UpTo(n)) = n
  BY UpToIs DEF Bytes
<1>2. UpTo(n + 1) \in Seq(Nat \ {0}) /\ Len(UpTo(n + 1)) = n + 1
  BY UpToIs DEF Bytes
<1> DEFINE s == Append(UpTo(n), n + 1)
<1>3. /\ s \in Seq(Nat \ {0}) /\ Len(s) = n + 1
      /\ \A i \in 1..n : s[i] = UpTo(n)[i]
      /\ s[n + 1] = n + 1
  BY <1>1, AppendProperties
<1>4. ASSUME NEW i \in 1..n + 1 PROVE UpTo(n + 1)[i] = s[i]
  <2>1. UpTo(n + 1)[i] = i
    BY DEF UpTo
  <2>2. i \in 1..n => UpTo(n)[i] = i
    BY DEF UpTo
  <2>3. QED
    BY <1>3, <2>1, <2>2
<1> HIDE DEF s
<1>5. UpTo(n + 1) = s
  BY <1>2, <1>3, <1>4, SeqEqual
<1>6. QED
  BY <1>5 DEF s

(* What was taken and what waits is all that was sent, also after the peers move. *)
LEMMA StreamGrows ==
    ASSUME NetInv, NEW p \in Peers, PeersKeep(p), NEW h \in Bytes,
           h \o sock[p].rcv = UpTo(sent[p])
    PROVE  h \o sock'[p].rcv = UpTo(sent'[p])
<1>1. sock[p].rcv \in Bytes /\ sent[p] \in Nat
  BY DEF NetInv, NetworkTypeOK, SocketType
<1>2. CASE sock'[p].rcv = sock[p].rcv /\ sent'[p] = sent[p]
  BY <1>2
<1>3. CASE sock'[p].rcv = Append(sock[p].rcv, sent[p] + 1) /\ sent'[p] = sent[p] + 1
  <2> DEFINE m == sent[p] + 1
  <2>1. m \in Nat \ {0} /\ <<m>> \in Bytes
    BY <1>1 DEF Bytes
  <2>2. UpTo(sent[p]) \in Bytes /\ UpTo(m) = Append(UpTo(sent[p]), m)
    BY <1>1, UpToIs, UpToNext
  <2> HIDE DEF m
  <2>3. \A b \in Bytes : Append(b, m) = b \o <<m>>
    BY <2>1, AppendIsConcat DEF Bytes
  <2>4. h \o (sock[p].rcv \o <<m>>) = (h \o sock[p].rcv) \o <<m>>
    BY <1>1, <2>1, BytesConcat
  <2>5. sock'[p].rcv = Append(sock[p].rcv, m) /\ UpTo(sent'[p]) = UpTo(m)
    BY <1>3 DEF m
  <2>6. QED
    BY <1>1, <2>2, <2>3, <2>4, <2>5
<1>4. QED
  BY <1>2, <1>3 DEF PeersKeep

(* recv() takes from what waits. *)
LEMMA StreamReceived ==
    ASSUME NEW s \in SocketType, NEW size \in Nat \ {0},
           NEW n, n = RecvResult(s, size), n > 0,
           NEW h \in Bytes
    PROVE  /\ h \o SubSeq(s.rcv, 1, n) \in Bytes
           /\ Len(h \o SubSeq(s.rcv, 1, n)) = Len(h) + n
           /\ (h \o SubSeq(s.rcv, 1, n)) \o AfterRecv(s, n).rcv = h \o s.rcv
<1> DEFINE part == SubSeq(s.rcv, 1, n)
           rest == AfterRecv(s, n).rcv
<1>1. part \in Bytes /\ Len(part) = n /\ s.rcv = part \o rest
      /\ AfterRecv(s, n) \in SocketType
  BY AfterRecvIs
<1>2. rest \in Bytes
  BY <1>1 DEF SocketType
<1> HIDE DEF part, rest
<1>3. h \o part \in Bytes /\ Len(h \o part) = Len(h) + Len(part)
      /\ (h \o part) \o rest = h \o (part \o rest)
  BY <1>1, <1>2, BytesConcat
<1>4. QED
  BY <1>1, <1>3 DEF part, rest

-----------------------------------------------------------------------------
(* The echo servers: h is what was sent back to p. *)

(* Every answer fits into the kernel's buffer. *)
Whole == MaxIn <= SndBuf

Echoing(p, h) ==
    /\ sock[p].at = "open" /\ ~sock[p].rst =>
          h \o sock[p].rcv = UpTo(sent[p]) /\ Len(sock[p].snd) <= Len(h)
    /\ sock[p].at \in {"away", "queued"} => h = <<>> /\ sock[p].rcv = UpTo(sent[p])

LEMMA EchoBegins ==
    ASSUME NetworkInit, NEW p \in Peers
    PROVE  Echoing(p, <<>>)
BY NothingSent DEF Echoing, NetworkInit

LEMMA EchoMoves ==
    ASSUME NetInv, NetInv', NEW p \in Peers, PeersKeep(p), NEW h \in Bytes, Echoing(p, h)
    PROVE  Echoing(p, h)'
<1>1. /\ sock[p] \in SocketType /\ sock'[p] \in SocketType /\ sock[p].rcv \in Bytes
      /\ sock[p].snd \in Bytes /\ sock'[p].snd \in Bytes
  BY DEF NetInv, NetworkTypeOK, SocketType
<1>2. Len(sock[p].snd) \in Nat /\ Len(sock'[p].snd) \in Nat /\ Len(h) \in Nat
  BY <1>1, LenProperties DEF Bytes
<1>3. CASE sock[p].at = "open"
  <2>1. sock'[p].at = "open"
    BY <1>3 DEF PeersKeep
  <2>2. CASE ~sock'[p].rst
    <3>1. ~sock[p].rst
      BY <2>2 DEF PeersKeep
    <3>2. h \o sock'[p].rcv = UpTo(sent'[p])
      BY <1>3, <3>1, StreamGrows DEF Echoing
    <3>3. Len(sock'[p].snd) <= Len(h)
      BY <1>2, <1>3, <3>1 DEF Echoing, PeersKeep
    <3>4. QED
      BY <2>1, <3>2, <3>3 DEF Echoing
  <2>3. QED
    BY <2>1, <2>2 DEF Echoing
<1>4. CASE sock[p].at \in {"away", "queued"}
  <2>1. sock'[p].at \in {"away", "queued"} /\ h = <<>> /\ sock[p].rcv = UpTo(sent[p])
    BY <1>4 DEF PeersKeep, Echoing
  <2>2. h \o sock[p].rcv = UpTo(sent[p])
    BY <1>1, <2>1, ConcatEmptySeq DEF Bytes
  <2>3. h \o sock'[p].rcv = UpTo(sent'[p])
    BY <2>2, StreamGrows
  <2>4. h \o sock'[p].rcv = sock'[p].rcv
    BY <1>1, <2>1, ConcatEmptySeq DEF Bytes, SocketType
  <2>5. QED
    BY <2>1, <2>3, <2>4 DEF Echoing
<1>5. CASE sock[p].at = "closed"
  BY <1>5 DEF PeersKeep, Echoing
<1>6. QED
  BY <1>1, <1>3, <1>4, <1>5 DEF SocketType

(* accept4() changes nothing else of p. *)
NowOpen(p) ==
    /\ sock[p].at = "queued" /\ sock'[p].at = "open"
    /\ sock'[p].rcv = sock[p].rcv /\ sock'[p].snd = sock[p].snd
    /\ sock'[p].fin = sock[p].fin /\ sock'[p].rst = sock[p].rst

LEMMA EchoAccepted ==
    ASSUME NetInv, NEW p \in Peers, NEW h \in Bytes, Echoing(p, h), UNCHANGED sent,
           sock'[p] = sock[p] \/ NowOpen(p)
    PROVE  Echoing(p, h)'
<1>1. sock[p] \in SocketType /\ sock[p].rcv \in Bytes
  BY DEF NetInv, NetworkTypeOK, SocketType
<1>2. CASE sock'[p] = sock[p]
  BY <1>2 DEF Echoing
<1>3. CASE NowOpen(p)
  <2>1. /\ sock'[p].at = "open" /\ sock'[p].rcv = sock[p].rcv /\ sock'[p].snd = <<>>
        /\ h = <<>> /\ sock[p].rcv = UpTo(sent[p])
    BY <1>3 DEF Echoing, NetInv, Fresh, NowOpen
  <2>2. h \o sock[p].rcv = sock[p].rcv /\ Len(sock'[p].snd) = 0 /\ Len(h) = 0
    BY <1>1, <2>1, ConcatEmptySeq, EmptySeq DEF Bytes
  <2>3. QED
    BY <2>1, <2>2 DEF Echoing
<1>4. QED
  BY <1>2, <1>3

(* Other changes of an open connection than an answer. *)
LEMMA EchoStays ==
    ASSUME NEW p \in Peers, NEW h \in Bytes, Echoing(p, h), UNCHANGED sent, Used(p),
           sock'[p].at = "open" => sock'[p].rcv = sock[p].rcv /\ sock'[p].snd = sock[p].snd
    PROVE  Echoing(p, h)'
BY DEF Echoing, Used

(* recv() and send() on one socket: what is received, and sent back of it. *)
Got(a, size) == SubSeq(a.rcv, 1, RecvResult(a, size))
AfterGot(a, size) == AfterRecv(a, RecvResult(a, size))
Reply(a, size) == SubSeq(Got(a, size), 1, Taken(AfterGot(a, size), Got(a, size)))
AfterReply(a, size) == AfterSend(AfterGot(a, size), Got(a, size))

LEMMA GotIs ==
    ASSUME NEW a \in SocketType, NEW size \in Nat \ {0}, RecvResult(a, size) > 0
    PROVE  LET s == AfterGot(a, size) IN
             /\ s \in SocketType /\ s.at = a.at /\ s.fd = a.fd /\ s.snd = a.snd
             /\ s.fin = a.fin /\ s.rst = a.rst /\ s.err = a.err
             /\ Got(a, size) \in Bytes /\ Len(Got(a, size)) = RecvResult(a, size)
             /\ Len(Got(a, size)) \in Nat \ {0}
             /\ a.rcv = Got(a, size) \o s.rcv
<1>1. PICK n : n = RecvResult(a, size)
  OBVIOUS
<1>2. n > 0
  BY <1>1
<1> DEFINE s == AfterRecv(a, n)
           b == SubSeq(a.rcv, 1, n)
<1>3. /\ s \in SocketType /\ s.at = a.at /\ s.fd = a.fd /\ s.snd = a.snd
      /\ s.fin = a.fin /\ s.rst = a.rst
  BY <1>1, <1>2, AfterRecvIs
<1>4. b \in Bytes /\ Len(b) = n
  BY <1>1, <1>2, AfterRecvIs
<1>8. a.rcv = b \o s.rcv
  BY <1>1, <1>2, AfterRecvIs
<1>9. s.err = a.err
  BY <1>1, <1>2, AfterRecvIs
<1>5. n \in Nat \ {0}
  BY <1>1, <1>2, RecvIs
<1>6. s = AfterGot(a, size) /\ b = Got(a, size)
  BY <1>1 DEF AfterGot, Got
<1> HIDE DEF s, b
<1>7. QED
  BY <1>1, <1>3, <1>4, <1>5, <1>6, <1>8, <1>9

(* The same where the result may be an error, which brings nothing. *)
LEMMA TakenIs ==
    ASSUME NEW a \in SocketType, NEW size \in Nat \ {0}, RecvResult(a, size) # 0
    PROVE  LET s == AfterGot(a, size) IN
             /\ s \in SocketType /\ s.at = a.at /\ s.fd = a.fd /\ s.snd = a.snd
             /\ s.fin = a.fin /\ s.rst = a.rst /\ s.err \in {a.err, "none"}
             /\ Got(a, size) \in Bytes
             /\ \A h \in Bytes : /\ h \o Got(a, size) \in Bytes
                                 /\ (h \o Got(a, size)) \o s.rcv = h \o a.rcv
<1> DEFINE s == AfterGot(a, size)
           b == Got(a, size)
           n == RecvResult(a, size)
<1>1. /\ s \in SocketType /\ s.at = a.at /\ s.fd = a.fd /\ s.snd = a.snd
      /\ s.fin = a.fin /\ s.rst = a.rst /\ s.err \in {a.err, "none"}
  BY AfterRecvIs DEF AfterGot
<1>2. n \in Int /\ a.rcv \in Seq(Nat \ {0}) /\ s.rcv \in Bytes
  BY <1>1, RecvIs DEF SocketType, Bytes
<1>3. b \in Bytes /\ b \o s.rcv = a.rcv
  <2>1. CASE n > 0
    BY <2>1, GotIs
  <2>2. CASE n < 0
    <3>1. b \in Seq(Nat \ {0}) /\ Len(b) = 0
      <4>1. \A i \in 1..n : a.rcv[i] \in Nat \ {0}
        BY <1>2, <2>2
      <4>2. /\ SubSeq(a.rcv, 1, n) \in Seq(Nat \ {0})
            /\ Len(SubSeq(a.rcv, 1, n)) = IF 1 <= n THEN n - 1 + 1 ELSE 0
        BY <1>2, <4>1, SubSeqProperties
      <4>3. QED
        BY <1>2, <2>2, <4>2 DEF Got
    <3>2. b = <<>>
      BY <3>1, EmptySeq
    <3>3. s.rcv = a.rcv
      BY <1>2, <2>2, AfterRecvIs DEF AfterGot
    <3>4. b \o s.rcv = a.rcv
      BY <1>2, <3>2, <3>3, ConcatEmptySeq
    <3>5. QED
      BY <3>1, <3>4 DEF Bytes
  <2>3. n > 0 \/ n < 0
    BY <1>2
  <2>4. QED
    BY <2>1, <2>2, <2>3
<1> HIDE DEF s, b
<1>4. ASSUME NEW h \in Bytes
      PROVE  h \o b \in Bytes /\ (h \o b) \o s.rcv = h \o a.rcv
  <2>1. h \o b \in Bytes /\ (h \o b) \o s.rcv = h \o (b \o s.rcv)
    BY <1>2, <1>3, BytesConcat
  <2>2. PICK x, y : x = b \o s.rcv /\ y = (h \o b) \o s.rcv
    OBVIOUS
  <2>3. y = h \o x /\ x = a.rcv
    BY <1>3, <2>1, <2>2
  <2>4. QED
    BY <2>1, <2>2, <2>3
<1>5. QED
  BY <1>1, <1>3, <1>4 DEF s, b

LEMMA ReplyOf ==
    ASSUME Numbered, NEW a \in SocketType, Len(a.snd) <= SndBuf, a.rst => a.snd = <<>>,
           NEW size \in Nat \ {0}, RecvResult(a, size) > 0
    PROVE  LET t == AfterReply(a, size)
               b == Got(a, size)
               c == Reply(a, size)
           IN /\ b \in Bytes /\ Len(b) \in Nat \ {0} /\ a.rcv = b \o t.rcv
              /\ t \in SocketType /\ t.at = a.at /\ t.fd = a.fd
              /\ t.fin = a.fin /\ t.rst = a.rst /\ t.err \in {a.err, "none"}
              /\ t.rst => t.snd = <<>>
              /\ c \in Bytes /\ Len(t.snd) <= SndBuf
              /\ ~a.rst /\ Len(a.snd) + Len(b) <= SndBuf =>
                    c = b /\ Len(t.snd) = Len(a.snd) + Len(b)
<1>1. PICK s, b, t, c, k :
        /\ s = AfterGot(a, size) /\ b = Got(a, size)
        /\ t = AfterSend(s, b) /\ k = Taken(s, b) /\ c = SubSeq(b, 1, k)
  OBVIOUS
<1>2. /\ s \in SocketType /\ s.at = a.at /\ s.fd = a.fd /\ s.snd = a.snd
      /\ s.fin = a.fin /\ s.rst = a.rst /\ s.err = a.err
      /\ b \in Bytes /\ Len(b) \in Nat \ {0} /\ a.rcv = b \o s.rcv
  BY <1>1, GotIs
<1>3. Len(s.snd) <= SndBuf /\ (s.rst => s.snd = <<>>)
  BY <1>2
<1>4. /\ t \in SocketType /\ t.at = s.at /\ t.fd = s.fd /\ t.rcv = s.rcv
      /\ t.fin = s.fin /\ t.rst = s.rst /\ t.err \in {s.err, "none"}
      /\ (s.rst => t.snd = <<>>)
  BY <1>1, <1>2, <1>3, AfterSendIs
<1>5. c \in Bytes /\ Len(t.snd) = Len(s.snd) + k /\ Len(t.snd) <= SndBuf
  BY <1>1, <1>2, <1>3, AfterSendIs
<1>6. ASSUME ~a.rst, Len(a.snd) + Len(b) <= SndBuf PROVE k = Len(b) /\ c = b
  <2>1. Len(a.snd) \in Nat
    BY LenProperties DEF SocketType, Bytes
  <2>2. ~s.rst /\ Len(b) <= SndBuf - Len(s.snd)
    BY <1>2, <1>6, <2>1 DEF Numbered
  <2>3. k = Len(b)
    BY <1>1, <2>2 DEF Taken
  <2>4. c = b
    BY <1>1, <1>2, <2>3, SubSeqFull DEF Bytes
  <2>5. QED
    BY <2>3, <2>4
<1>7. t = AfterReply(a, size) /\ c = Reply(a, size)
  BY <1>1 DEF AfterReply, Reply
<1>8. QED
  BY <1>1, <1>2, <1>4, <1>5, <1>6, <1>7

(* What is received continues what was sent back, if all of it is taken, and *)
(* the kernel can take it.                                                    *)
Answering(h, m, rcv, snd, b, r, c, n) ==
    /\ Numbered /\ Whole
    /\ h \in Bytes /\ h \o rcv = UpTo(m) /\ m \in Nat /\ m <= MaxIn
    /\ snd \in Nat /\ snd <= Len(h)
    /\ b \in Bytes /\ r \in Bytes /\ rcv = b \o r /\ Len(b) > 0
    /\ snd + Len(b) <= SndBuf => c = b /\ n = snd + Len(b)

Answered(x, m, n, r, h) == x \o r = UpTo(m) /\ n <= Len(x) /\ Len(x) > Len(h)

LEMMA AnswerContinues ==
    ASSUME NEW h, NEW m, NEW rcv, NEW snd, NEW b, NEW r, NEW c, NEW n,
           Answering(h, m, rcv, snd, b, r, c, n)
    PROVE  \A x : x = h \o c => Answered(x, m, n, r, h)
<1> USE DEF Answering
<1>1. PICK y : y = h \o b
  OBVIOUS
<1>2. y \in Bytes /\ y \o r = h \o rcv /\ Len(y) = Len(h) + Len(b)
  BY <1>1, BytesConcat, ZenonT(40)
<1>3. Len(h) \in Nat /\ Len(b) \in Nat /\ Len(r) \in Nat
  BY LenProperties DEF Bytes
<1>4. Len(y \o r) = Len(y) + Len(r)
  BY <1>2, BytesConcat
<1>5. Len(UpTo(m)) = m
  BY UpToIs
<1>6. Len(h) + Len(b) <= m
  BY <1>2, <1>3, <1>4, <1>5
<1>7. snd + Len(b) <= SndBuf
  BY <1>3, <1>6 DEF Whole, Numbered
<1>8. c = b /\ n = snd + Len(b)
  BY <1>7
<1>9. n <= Len(h) + Len(b) /\ Len(h) + Len(b) > Len(h)
  BY <1>3, <1>8
<1>10. n <= Len(y) /\ Len(y) > Len(h)
  BY <1>2, <1>9
<1>11. y \o r = UpTo(m) /\ y = h \o c
  BY <1>1, <1>2, <1>8
<1>12. QED
  BY <1>10, <1>11 DEF Answered

(* recv() and send() in one step. *)
LEMMA ReplyIs ==
    ASSUME Numbered, NetInv, NEW f \in UsedFds, NEW p, p = Owner(f),
           NEW size \in Nat \ {0}, RecvResult(sock[p], size) > 0,
           sock' = [sock EXCEPT ![p] = AfterReply(sock[p], size)], UNCHANGED <<backlog, sent>>
    PROVE  /\ NetInv'
           /\ UsedFds' = UsedFds
           /\ \A g \in UsedFds : Owner(g)' = Owner(g)
           /\ p \in Peers /\ sock[p].at = "open" /\ sock'[p].at = "open"
           /\ sock'[p].fin = sock[p].fin /\ sock'[p].rst = sock[p].rst
           /\ \A q \in Peers : q # p => sock'[q] = sock[q]
           /\ Reply(sock[p], size) \in Bytes
           /\ \A h \in Bytes : h \o Reply(sock[p], size) \in Bytes
           /\ \A h \in Bytes : \A x : Echoing(p, h) /\ Whole /\ x = h \o Reply(sock[p], size) =>
                  Echoing(p, x)'
           /\ \A h \in Bytes : Echoing(p, h) /\ Whole /\ ~sock[p].rst =>
                  Len(h \o Reply(sock[p], size)) > Len(h)
<1>1. sock \in [Peers -> SocketType] /\ sent \in [Peers -> Nat]
  BY DEF NetInv, NetworkTypeOK
<1>2. p \in Peers /\ sock[p].at = "open" /\ sock[p] \in SocketType
      /\ \A g \in UsedFds : Owner(g) \in Peers /\ sock[Owner(g)].at = "open"
  BY <1>1, OwnerIs DEF NetInv, OwnersKnown
<1>3. /\ Len(sock[p].snd) <= SndBuf /\ (sock[p].rst => sock[p].snd = <<>>)
      /\ (sock[p].err # "none" => sock[p].rst) /\ sent[p] <= MaxIn /\ sent[p] \in Nat
  BY <1>1, <1>2 DEF NetInv, Fresh
<1>4. PICK a, t, b, c : /\ a \in SocketType /\ a = sock[p] /\ t = AfterReply(a, size)
                        /\ b = Got(a, size) /\ c = Reply(a, size)
  BY <1>2
<1>5. /\ b \in Bytes /\ Len(b) \in Nat \ {0} /\ a.rcv = b \o t.rcv
      /\ t \in SocketType /\ t.at = a.at /\ t.fd = a.fd
      /\ t.fin = a.fin /\ t.rst = a.rst /\ t.err \in {a.err, "none"}
      /\ t.rst => t.snd = <<>>
      /\ c \in Bytes /\ Len(t.snd) <= SndBuf
      /\ ~a.rst /\ Len(a.snd) + Len(b) <= SndBuf =>
            c = b /\ Len(t.snd) = Len(a.snd) + Len(b)
  <2>1. Len(a.snd) <= SndBuf /\ (a.rst => a.snd = <<>>) /\ RecvResult(a, size) > 0
    BY <1>3, <1>4
  <2>2. QED
    BY <1>4, <2>1, ReplyOf
<1>6. /\ sock' \in [Peers -> SocketType] /\ sock'[p] = t
      /\ \A q \in Peers : q # p => sock'[q] = sock[q]
  BY <1>1, <1>2, <1>4, <1>5
<1>7. \A q \in Peers : Used(q)
  <2>1. t.err # "none" => t.rst
    BY <1>3, <1>4, <1>5
  <2>2. Used(p)
    BY <1>2, <1>4, <1>5, <1>6, <2>1 DEF Used
  <2>3. QED
    BY <1>6, <2>2 DEF Used
<1>8. /\ NetInv' /\ UsedFds' = {g \in UsedFds : sock'[Owner(g)].at = "open"}
      /\ \A g \in UsedFds' : Owner(g)' = Owner(g)
  BY <1>6, <1>7, OpenChange
<1>9. UsedFds' = UsedFds
  BY <1>2, <1>4, <1>5, <1>6, <1>8
<1>10. \A h \in Bytes : h \o c \in Bytes
  BY <1>5, BytesConcat
<1>11. ASSUME NEW h \in Bytes, Echoing(p, h), Whole, ~sock[p].rst
       PROVE  \A x : x = h \o c => Answered(x, sent[p], Len(t.snd), t.rcv, h)
  <2>1. t.rcv \in Bytes /\ Len(a.snd) \in Nat
    BY <1>2, <1>4, <1>5, LenProperties DEF SocketType, Bytes
  <2>2. h \o a.rcv = UpTo(sent[p]) /\ Len(a.snd) <= Len(h)
    BY <1>2, <1>4, <1>11 DEF Echoing
  <2>3. PICK r, m, k, l, w :
          r = t.rcv /\ m = sent[p] /\ k = Len(a.snd) /\ l = Len(t.snd) /\ w = a.rcv
    OBVIOUS
  <2>4. k + Len(b) <= SndBuf => c = b /\ l = k + Len(b)
    BY <1>4, <1>5, <1>11, <2>3
  <2>5. Len(b) > 0 /\ b \in Bytes /\ w = b \o r /\ r \in Bytes
    BY <1>5, <2>1, <2>3
  <2>6. m <= MaxIn /\ m \in Nat
    BY <1>3, <2>3
  <2>7. h \o w = UpTo(m) /\ k <= Len(h) /\ k \in Nat
    BY <2>1, <2>2, <2>3
  <2>10. Numbered /\ Whole /\ h \in Bytes
    BY <1>11
  <2>11. Answering(h, m, w, k, b, r, c, l)
    BY ONLY <2>10, <2>4, <2>5, <2>6, <2>7 DEF Answering
  <2>8. \A x : x = h \o c => Answered(x, m, l, r, h)
    BY <2>11, AnswerContinues, Zenon
  <2>9. QED
    BY <2>3, <2>8
<1>12. ASSUME NEW h \in Bytes, Echoing(p, h), Whole, NEW x, x = h \o c
       PROVE  Echoing(p, x)'
  <2>1. sock'[p] = t /\ sent' = sent /\ t.at = "open" /\ t.rst = sock[p].rst
    BY <1>2, <1>4, <1>5, <1>6
  <2>2. ~sock[p].rst => x \o t.rcv = UpTo(sent[p]) /\ Len(t.snd) <= Len(x)
    BY <1>11, <1>12 DEF Answered
  <2>3. QED
    BY <2>1, <2>2 DEF Echoing
<1>13. c = Reply(sock[p], size) /\ a = sock[p]
  BY <1>4
<1>14. \A h \in Bytes : \A x : Echoing(p, h) /\ Whole /\ x = h \o c => Echoing(p, x)'
  BY <1>12
<1>15. \A h \in Bytes : Echoing(p, h) /\ Whole /\ ~sock[p].rst => Len(h \o c) > Len(h)
  BY <1>11 DEF Answered
<1>16. /\ sock[p].at = "open" /\ sock'[p].at = "open"
       /\ sock'[p].fin = sock[p].fin /\ sock'[p].rst = sock[p].rst /\ c \in Bytes
  BY <1>2, <1>5, <1>6, <1>13
<1>17. \A g \in UsedFds : Owner(g)' = Owner(g)
  BY <1>8, <1>9
<1>18. \A h \in Bytes : \A x : Echoing(p, h) /\ Whole /\ x = h \o Reply(sock[p], size) =>
           Echoing(p, x)'
  BY <1>13, <1>14
<1>19. \A h \in Bytes : Echoing(p, h) /\ Whole /\ ~sock[p].rst =>
              Len(h \o Reply(sock[p], size)) > Len(h)
  BY <1>13, <1>15
<1>20. /\ Reply(sock[p], size) \in Bytes
       /\ \A h \in Bytes : h \o Reply(sock[p], size) \in Bytes
  BY <1>10, <1>13, <1>16
<1>21. QED
  BY <1>2, <1>6, <1>8, <1>9, <1>16, <1>17, <1>18, <1>19, <1>20

-----------------------------------------------------------------------------
(* What the steps of a server leave for the events that wait, and for what   *)
(* was answered: h is what each peer was sent back.                           *)

HasEvent(f) == f \in UsedFds /\ Readable(sock[Owner(f)])
SomeoneReset == \E q \in Peers : sock[q].rst
Answers(h) == \A p \in Peers : Echoing(p, h[p])


LEMMA AnswersBegin ==
    ASSUME NetworkInit
    PROVE  Answers([p \in Peers |-> <<>>])
BY EchoBegins DEF Answers

LEMMA PeersMoveOn ==
    ASSUME Numbered, NetInv, PeerStep
    PROVE  /\ \A f : HasEvent(f) => HasEvent(f)'
           /\ SomeoneReset => SomeoneReset'
           /\ backlog # <<>> => backlog' # <<>>
           /\ \A h \in [Peers -> Bytes] : Answers(h) => Answers(h)'
<1>1. /\ NetInv' /\ (\A p \in Peers : PeersKeep(p)) /\ PeersKeepQueue
      /\ UsedFds' = UsedFds /\ \A f \in UsedFds : Owner(f)' = Owner(f)
  BY PeersMoveNet
<1>2. \A f \in UsedFds : Owner(f) \in Peers
  BY OwnerIs DEF NetInv, OwnersKnown
<1>3. \A p \in Peers : sock[p].rcv \in Bytes /\ sent[p] \in Nat
  BY DEF NetInv, NetworkTypeOK, SocketType
<1>4. ASSUME NEW p \in Peers, Readable(sock[p]) PROVE Readable(sock'[p])
  <2>1. PICK r, r2, m : r = sock[p].rcv /\ r2 = sock'[p].rcv /\ m = sent[p] + 1
    OBVIOUS
  <2>2. r \in Seq(Nat \ {0}) /\ m \in Nat \ {0}
    BY <1>3, <2>1 DEF Bytes
  <2>3. Append(r, m) # <<>>
    BY <2>2, AppendProperties, EmptySeq
  <2>4. r2 = r \/ r2 = Append(r, m)
    BY <1>1, <2>1 DEF PeersKeep
  <2>5. /\ sock[p].fin => sock'[p].fin
        /\ sock[p].rst => sock'[p].rst
    BY <1>1 DEF PeersKeep
  <2>6. QED
    BY <1>4, <2>1, <2>3, <2>4, <2>5 DEF Readable
<1>5. ASSUME NEW f, HasEvent(f) PROVE HasEvent(f)'
  BY <1>1, <1>2, <1>4, <1>5 DEF HasEvent
<1>6. SomeoneReset => SomeoneReset'
  BY <1>1 DEF SomeoneReset, PeersKeep
<1>7. backlog # <<>> => backlog' # <<>>
  <2>1. backlog \in Seq(Peers)
    BY DEF NetInv, NetworkTypeOK
  <2>2. \A p \in Peers : Append(backlog, p) # <<>>
    BY <2>1, AppendProperties, EmptySeq
  <2>3. QED
    BY <1>1, <2>2 DEF PeersKeepQueue
<1>8. ASSUME NEW h \in [Peers -> Bytes], Answers(h) PROVE Answers(h)'
  BY <1>1, <1>8, EchoMoves DEF Answers
<1>9. QED
  BY <1>5, <1>6, <1>7, <1>8

LEMMA AcceptOn ==
    ASSUME Numbered, NetInv, backlog # <<>>, FreeFds # {},
           sock' = Accepted(LowestFree), backlog' = Tail(backlog), UNCHANGED sent
    PROVE  /\ NetInv'
           /\ LowestFree \in Fds
           /\ \A f : HasEvent(f) => HasEvent(f)'
           /\ SomeoneReset => SomeoneReset'
           /\ \A h \in [Peers -> Bytes] : Answers(h) => Answers(h)'
<1> DEFINE b == Head(backlog)
<1>1. /\ NetInv' /\ b \in Peers /\ sock[b].at = "queued"
      /\ sock'[b] = [sock[b] EXCEPT !.at = "open", !.fd = LowestFree]
      /\ \A q \in Peers : q # b => sock'[q] = sock[q]
      /\ UsedFds' = UsedFds \cup {LowestFree} /\ LowestFree \in Fds
      /\ \A g \in UsedFds : Owner(g)' = Owner(g)
  BY AcceptIs
<1> HIDE DEF b
<1>2. \A f \in UsedFds : Owner(f) \in Peers /\ sock[Owner(f)].at = "open"
  BY OwnerIs DEF NetInv, OwnersKnown
<1>3. sock[b] \in SocketType
  BY <1>1 DEF NetInv, NetworkTypeOK
<1>4. NowOpen(b) /\ sock'[b].rst = sock[b].rst
  BY <1>1, <1>3 DEF NowOpen, SocketType
<1>5. ASSUME NEW f, HasEvent(f) PROVE HasEvent(f)'
  <2>1. f \in UsedFds
    BY <1>5 DEF HasEvent
  <2>2. sock'[Owner(f)] = sock[Owner(f)] /\ Owner(f)' = Owner(f) /\ f \in UsedFds'
    BY <1>1, <1>2, <2>1
  <2>3. QED
    BY <1>5, <2>2 DEF HasEvent
<1>6. SomeoneReset => SomeoneReset'
  BY <1>1, <1>4 DEF SomeoneReset
<1>7. ASSUME NEW h \in [Peers -> Bytes], Answers(h) PROVE Answers(h)'
  <2>1. \A p \in Peers : sock'[p] = sock[p] \/ NowOpen(p)
    BY <1>1, <1>4
  <2>2. QED
    BY <1>7, <2>1, EchoAccepted DEF Answers
<1>8. QED
  BY <1>1, <1>5, <1>6, <1>7

(* A connection that is used or closed, but for what it received. *)
LEMMA UsedOn ==
    ASSUME \A p \in Peers : Used(p), UNCHANGED sent,
           \A p \in Peers : sock'[p].at = "open" => sock'[p].rcv = sock[p].rcv
                                                    /\ sock'[p].snd = sock[p].snd
    PROVE  /\ SomeoneReset => SomeoneReset'
           /\ \A h \in [Peers -> Bytes] : Answers(h) => Answers(h)'
<1>1. SomeoneReset => SomeoneReset'
  BY DEF SomeoneReset, Used
<1>2. ASSUME NEW h \in [Peers -> Bytes], Answers(h) PROVE Answers(h)'
  BY <1>2, EchoStays DEF Answers
<1>3. QED
  BY <1>1, <1>2

LEMMA CloseOn ==
    ASSUME Numbered, NetInv, NEW f \in UsedFds, sock' = Closing(f, sock),
           UNCHANGED <<backlog, sent>>
    PROVE  /\ NetInv'
           /\ UsedFds' = UsedFds \ {f}
           /\ \A g \in UsedFds' : Owner(g)' = Owner(g)
           /\ \A g : g # f /\ HasEvent(g) => HasEvent(g)'
           /\ SomeoneReset => SomeoneReset'
           /\ \A h \in [Peers -> Bytes] : Answers(h) => Answers(h)'
           /\ \A p \in Peers : sock[p].at = "open" /\ sock'[p].at # "open" => sock[p].fd = f
           /\ Owner(f) \in Peers /\ sock[Owner(f)].at = "open" /\ sock[Owner(f)].fd = f
           /\ sock'[Owner(f)] = AfterClose(sock[Owner(f)])
           /\ \A q \in Peers : q # Owner(f) => sock'[q] = sock[q]
<1> DEFINE p == Owner(f)
<1>1. /\ NetInv'
      /\ UsedFds' = UsedFds \ {f}
      /\ \A g \in UsedFds' : Owner(g)' = Owner(g)
      /\ sock'[p] = AfterClose(sock[p])
      /\ \A q \in Peers : q # p => sock'[q] = sock[q]
  BY CloseIs
<1>2. \A g \in UsedFds : Owner(g) \in Peers /\ sock[Owner(g)].at = "open"
                         /\ sock[Owner(g)].fd = g
  BY OwnerIs DEF NetInv, OwnersKnown
<1>3. p \in Peers /\ sock[p].at = "open" /\ sock[p].fd = f /\ sock[p] \in SocketType
  BY <1>2 DEF NetInv, NetworkTypeOK
<1>4. \A g \in UsedFds : g # f => Owner(g) # p
  BY <1>2, <1>3
<1> HIDE DEF p
<1>5. ASSUME NEW g, g # f, HasEvent(g) PROVE HasEvent(g)'
  <2>1. g \in UsedFds /\ g \in UsedFds'
    BY <1>1, <1>5 DEF HasEvent
  <2>2. sock'[Owner(g)] = sock[Owner(g)] /\ Owner(g)' = Owner(g)
    BY <1>1, <1>2, <1>4, <1>5, <2>1
  <2>3. QED
    BY <1>5, <2>1, <2>2 DEF HasEvent
<1>6. AfterClose(sock[p]).at = "closed" /\ AfterClose(sock[p]).rst = sock[p].rst
  BY <1>3, AfterCloseIs
<1>7. SomeoneReset => SomeoneReset'
  BY <1>1, <1>6 DEF SomeoneReset
<1>8. ASSUME NEW h \in [Peers -> Bytes], Answers(h) PROVE Answers(h)'
  <2>1. ASSUME NEW q \in Peers PROVE Echoing(q, h[q])'
    <3>1. CASE sock'[q].at = "closed"
      BY <3>1 DEF Echoing
    <3>2. CASE sock'[q] = sock[q]
      BY <1>8, <3>2 DEF Answers, Echoing
    <3>3. sock'[q].at = "closed" \/ sock'[q] = sock[q]
      BY <1>1, <1>6
    <3>4. QED
      BY <3>1, <3>2, <3>3
  <2>2. QED
    BY <2>1 DEF Answers
<1>9. \A q \in Peers : sock[q].at = "open" /\ sock'[q].at # "open" => sock[q].fd = f
  BY <1>1, <1>3
<1>10. QED
  BY <1>1, <1>3, <1>5, <1>7, <1>8, <1>9 DEF p

LEMMA ReplyOn ==
    ASSUME Numbered, NetInv, NEW f \in UsedFds, NEW p, p = Owner(f),
           NEW size \in Nat \ {0}, RecvResult(sock[p], size) > 0,
           sock' = [sock EXCEPT ![p] = AfterReply(sock[p], size)], UNCHANGED <<backlog, sent>>
    PROVE  /\ NetInv'
           /\ UsedFds' = UsedFds
           /\ \A g \in UsedFds : Owner(g)' = Owner(g)
           /\ \A g : g # f /\ HasEvent(g) => HasEvent(g)'
           /\ SomeoneReset => SomeoneReset'
           /\ \A h \in [Peers -> Bytes] : \A k :
                 k = [h EXCEPT ![p] = @ \o Reply(sock[p], size)] =>
                   k \in [Peers -> Bytes] /\ (Whole /\ Answers(h) => Answers(k)')
<1>1. /\ NetInv'
      /\ UsedFds' = UsedFds
      /\ \A g \in UsedFds : Owner(g)' = Owner(g)
      /\ p \in Peers /\ sock[p].at = "open" /\ sock'[p].at = "open"
      /\ sock'[p].rst = sock[p].rst
      /\ \A q \in Peers : q # p => sock'[q] = sock[q]
      /\ \A h \in Bytes : h \o Reply(sock[p], size) \in Bytes
      /\ \A h \in Bytes : \A x : Echoing(p, h) /\ Whole /\ x = h \o Reply(sock[p], size) =>
             Echoing(p, x)'
  BY ReplyIs, ZenonT(40)
<1>2. \A g \in UsedFds : Owner(g) \in Peers /\ sock[Owner(g)].at = "open"
                         /\ sock[Owner(g)].fd = g
  BY OwnerIs DEF NetInv, OwnersKnown
<1>3. \A g \in UsedFds : g # f => Owner(g) # p
  BY <1>2
<1>4. ASSUME NEW g, g # f, HasEvent(g) PROVE HasEvent(g)'
  <2>1. g \in UsedFds /\ g \in UsedFds'
    BY <1>1, <1>4 DEF HasEvent
  <2>2. sock'[Owner(g)] = sock[Owner(g)] /\ Owner(g)' = Owner(g)
    BY <1>1, <1>2, <1>3, <1>4, <2>1
  <2>3. QED
    BY <1>4, <2>1, <2>2 DEF HasEvent
<1>5. SomeoneReset => SomeoneReset'
  BY <1>1 DEF SomeoneReset
<1>6. PICK c : c = Reply(sock[p], size)
  OBVIOUS
<1>7. /\ \A h \in Bytes : h \o c \in Bytes
      /\ \A h \in Bytes : \A x : Echoing(p, h) /\ Whole /\ x = h \o c => Echoing(p, x)'
  BY <1>1, <1>6
<1>8. ASSUME NEW h \in [Peers -> Bytes], NEW k, k = [h EXCEPT ![p] = @ \o c]
      PROVE  k \in [Peers -> Bytes] /\ (Whole /\ Answers(h) => Answers(k)')
  <2>1. h[p] \in Bytes /\ h[p] \o c \in Bytes
    BY <1>1, <1>7
  <2>2. /\ k \in [Peers -> Bytes] /\ k[p] = h[p] \o c
        /\ \A q \in Peers : q # p => k[q] = h[q]
    BY <1>1, <1>8, <2>1
  <2>3. ASSUME Whole, Answers(h), NEW q \in Peers PROVE Echoing(q, k[q])'
    <3>1. Echoing(q, h[q])
      BY <2>3 DEF Answers
    <3>2. CASE q = p
      BY <1>7, <2>1, <2>2, <2>3, <3>1, <3>2
    <3>3. CASE q # p
      BY <1>1, <2>2, <3>1, <3>3 DEF Echoing
    <3>4. QED
      BY <3>2, <3>3
  <2>4. QED
    BY <2>2, <2>3 DEF Answers
<1>9. QED
  BY <1>1, <1>4, <1>5, <1>6, <1>8

(* A recv() that fails on f, and a close() of another descriptor, c. *)
LEMMA ErrorOn ==
    ASSUME Numbered, NetInv, NEW f, NEW c, NEW size \in Nat \ {0}, Received(f, size) < 0,
           sock' = Closing(c, IF f \in UsedFds
                              THEN [sock EXCEPT ![Owner(f)] = AfterRecv(@, -1)] ELSE sock),
           UNCHANGED <<backlog, sent>>
    PROVE  /\ NetInv'
           /\ HasEvent(f) => SomeoneReset
           /\ SomeoneReset => SomeoneReset'
           /\ \A h \in [Peers -> Bytes] : Answers(h) => Answers(h)'
           /\ \A p \in Peers : sock[p].at = "open" /\ sock'[p].at # "open" => sock[p].fd = c
<1>1. sock \in [Peers -> SocketType] /\ OwnersKnown
  BY OwnerIs DEF NetInv, NetworkTypeOK
<1> DEFINE Failed(s) == [s EXCEPT !.err = "none"]
           Read == {p \in Peers : f \in UsedFds /\ p = Owner(f)}
           Shut == {p \in Peers : c \in UsedFds /\ p = Owner(c)}
           After(p) == IF p \in Read THEN Failed(sock[p]) ELSE sock[p]
<1>2. \A p \in Peers : sock'[p] = IF p \in Shut THEN AfterClose(After(p)) ELSE After(p)
  BY <1>1 DEF OwnersKnown, Closing, AfterRecv
<1>3. DOMAIN sock' = Peers /\ sock' = [p \in Peers |-> sock'[p]]
  BY <1>1 DEF OwnersKnown, Closing
<1>4. ASSUME NEW p \in Peers
      PROVE  /\ After(p) \in SocketType /\ After(p).at = sock[p].at /\ After(p).fd = sock[p].fd
             /\ After(p).rcv = sock[p].rcv /\ After(p).snd = sock[p].snd
             /\ After(p).rst = sock[p].rst /\ After(p).err \in {"none", sock[p].err}
  BY <1>1 DEF SocketType
<1>5. \A p \in Read \cup Shut : sock[p].at = "open"
  BY <1>1 DEF OwnersKnown
<1>6. \A p \in Shut : sock[p].fd = c
  BY <1>1 DEF OwnersKnown
<1> HIDE DEF Read, Shut, After
<1>7. ASSUME NEW p \in Peers
      PROVE  /\ sock'[p] \in SocketType
             /\ p \notin Shut => /\ sock'[p].at = sock[p].at /\ sock'[p].fd = sock[p].fd
                                 /\ sock'[p].rcv = sock[p].rcv /\ sock'[p].snd = sock[p].snd
                                 /\ sock'[p].err \in {"none", sock[p].err}
                                 /\ sock'[p].rst = sock[p].rst
             /\ p \in Shut => /\ sock'[p].at = "closed" /\ sock'[p].snd = <<>>
                              /\ sock'[p].err = "none" /\ sock'[p].rst = sock[p].rst
  <2>1. CASE p \notin Shut
    BY <1>2, <1>4, <2>1
  <2>2. CASE p \in Shut
    <3>1. PICK s \in SocketType : s = After(p)
      BY <1>4
    <3>2. sock'[p] = AfterClose(s) /\ s.rst = sock[p].rst
      BY <1>2, <1>4, <2>2, <3>1
    <3>3. QED
      BY <2>2, <3>2, AfterCloseIs
  <2>3. QED
    BY <2>1, <2>2
<1>8. ASSUME NEW p \in Peers PROVE Used(p)
  <2>1. Fresh(p) /\ (sock[p].snd = <<>> => Len(sock[p].snd) = 0) /\ SndBuf \in Nat
    BY EmptySeq DEF NetInv, Numbered
  <2>2. CASE p \in Shut
    <3>1. Len(sock'[p].snd) = 0
      BY <1>7, <2>2, EmptySeq
    <3>2. sock'[p].at = "closed" /\ sock'[p].snd = <<>> /\ sock'[p].err = "none"
          /\ sock'[p].rst = sock[p].rst /\ sock[p].at = "open"
      BY <1>5, <1>7, <2>2
    <3>3. QED
      BY <2>1, <3>1, <3>2 DEF Used
  <2>3. CASE p \in Read /\ p \notin Shut
    <3>1. sock[p].at = "open"
      BY <1>5, <2>3
    <3>2. QED
      BY <1>7, <2>1, <2>3, <3>1 DEF Used, Fresh
  <2>4. CASE p \notin Read /\ p \notin Shut
    <3>1. sock'[p] = sock[p]
      BY <1>2, <2>4 DEF After
    <3>2. QED
      BY <3>1 DEF Used
  <2>5. QED
    BY <2>2, <2>3, <2>4
<1>9. sock' \in [Peers -> SocketType]
  BY <1>3, <1>7
<1>10. NetInv'
  BY <1>8, <1>9, OpenChange
<1>11. /\ SomeoneReset => SomeoneReset'
       /\ \A h \in [Peers -> Bytes] : Answers(h) => Answers(h)'
  <2>1. \A p \in Peers : sock'[p].at = "open" => sock'[p].rcv = sock[p].rcv
                                                 /\ sock'[p].snd = sock[p].snd
    BY <1>7
  <2>2. QED
    BY <1>8, <2>1, UsedOn
<1>12. ASSUME HasEvent(f) PROVE SomeoneReset
  <2>1. PICK s, n : s = sock[Owner(f)] /\ n = RecvResult(s, size)
    OBVIOUS
  <2>2. s \in SocketType /\ n < 0 /\ Owner(f) \in Peers
    BY <1>1, <1>12, <2>1 DEF HasEvent, Received, OwnersKnown
  <2>3. s.rcv = <<>> /\ ~s.fin
    BY <2>1, <2>2, RecvIs
  <2>4. s.rst
    BY <1>12, <2>1, <2>3 DEF HasEvent, Readable
  <2>5. QED
    BY <2>1, <2>2, <2>4 DEF SomeoneReset
<1>13. ASSUME NEW p \in Peers, sock[p].at = "open", sock'[p].at # "open" PROVE sock[p].fd = c
  BY <1>6, <1>7, <1>13
<1>14. QED
  BY <1>10, <1>11, <1>12, <1>13

LEMMA NetworkStays ==
    ASSUME UNCHANGED network
    PROVE  /\ NetInv' <=> NetInv
           /\ UsedFds' = UsedFds
           /\ FreeFds' = FreeFds
           /\ \A f : Owner(f)' = Owner(f)
           /\ \A f : HasEvent(f)' <=> HasEvent(f)
           /\ SomeoneReset' <=> SomeoneReset
           /\ \A h : Answers(h)' <=> Answers(h)
<1>1. sock' = sock /\ backlog' = backlog /\ sent' = sent
  BY DEF network
<1>2. NetInv' <=> NetInv
  BY <1>1 DEF NetInv, NetworkTypeOK, FdsDistinct, QueueInOrder, Fresh
<1>3. UsedFds' = UsedFds /\ FreeFds' = FreeFds
  BY <1>1 DEF UsedFds, FreeFds
<1>4. \A f : Owner(f)' = Owner(f)
  BY <1>1 DEF Owner
<1>5. \A f : HasEvent(f)' <=> HasEvent(f)
  BY <1>1, <1>3, <1>4 DEF HasEvent
<1>6. SomeoneReset' <=> SomeoneReset
  BY <1>1 DEF SomeoneReset
<1>7. \A h : Answers(h)' <=> Answers(h)
  BY <1>1 DEF Answers, Echoing
<1>8. QED
  BY <1>2, <1>3, <1>4, <1>5, <1>6, <1>7

-----------------------------------------------------------------------------
(* What a step means to a client, who has been answered h and then k.        *)

Mood(s) == IF s.rst THEN "cut" ELSE IF s.fin THEN "bye" ELSE "no"

ClientStays(p, h, k) ==
    /\ sock'[p].at = sock[p].at /\ Mood(sock'[p]) = Mood(sock[p])
    /\ sent'[p] = sent[p] /\ k = h

ClientPeers(p, h, k) ==
    /\ k = h
    /\ \/ /\ sock[p].at = "away" /\ sock'[p].at = "queued" /\ h = <<>>
          /\ sent[p] = 0 /\ sent'[p] = 0 /\ Mood(sock'[p]) = "no"
       \/ /\ sock[p].at \in {"queued", "open"} /\ sock'[p].at = sock[p].at
          /\ Mood(sock[p]) = "no" /\ Mood(sock'[p]) = "no" /\ sent'[p] = sent[p] + 1
       \/ /\ sock[p].at \in {"queued", "open"} /\ sock'[p].at = sock[p].at
          /\ Mood(sock[p]) \in {"no", "bye"} /\ Mood(sock'[p]) \in {"bye", "cut"}
          /\ Mood(sock'[p]) # Mood(sock[p]) /\ sent'[p] = sent[p]

ClientServed(p, h, k) ==
    /\ sent'[p] = sent[p] /\ Mood(sock'[p]) = Mood(sock[p])
    /\ \/ sock[p].at = "queued" /\ sock'[p].at = "open" /\ k = h
       \/ /\ sock[p].at = "open" /\ sock'[p].at = "open" /\ Mood(sock[p]) # "cut"
          /\ \E n \in Len(h) + 1 .. sent[p] : k = UpTo(n)
       \/ /\ sock[p].at = "open" /\ sock'[p].at = "closed" /\ k = h
          /\ Mood(sock[p]) = "cut" \/ (Mood(sock[p]) = "bye" /\ h = UpTo(sent[p]))

OneClientMoves(h, k) ==
    \E p \in Peers :
        /\ \/ ClientStays(p, h[p], k[p])
           \/ ClientPeers(p, h[p], k[p])
           \/ ClientServed(p, h[p], k[p])
        /\ \A q \in Peers \ {p} : ClientStays(q, h[q], k[q])

LEMMA PeersMoveClients ==
    ASSUME Numbered, NetInv, PeerStep
    PROVE  \A h : Answers(h) => OneClientMoves(h, h)
<1>1. sock \in [Peers -> SocketType] /\ sent \in [Peers -> Nat]
  BY DEF NetInv, NetworkTypeOK
<1>2. ASSUME NEW p \in Peers, NEW h, Answers(h), NEW s \in SocketType,
             sock' = [sock EXCEPT ![p] = s],
             \A q \in Peers \ {p} : sent'[q] = sent[q],
             ClientStays(p, h[p], h[p]) \/ ClientPeers(p, h[p], h[p])
      PROVE  OneClientMoves(h, h)
  <2>1. \A q \in Peers \ {p} : ClientStays(q, h[q], h[q])
    BY <1>1, <1>2 DEF ClientStays
  <2>2. QED
    BY <1>2, <2>1 DEF OneClientMoves
<1>3. ASSUME NEW h, Answers(h), NEW p \in Peers, Connect(p) PROVE OneClientMoves(h, h)
  <2>1. PICK s : s = [sock[p] EXCEPT !.at = "queued"]
    OBVIOUS
  <2>2. /\ s \in SocketType /\ s.at = "queued" /\ s.fin = sock[p].fin /\ s.rst = sock[p].rst
        /\ sock' = [sock EXCEPT ![p] = s] /\ sent' = sent /\ sock[p].at = "away"
    BY <1>1, <1>3, <2>1 DEF Connect, SocketType
  <2>3. ~sock[p].fin /\ ~sock[p].rst /\ sent[p] = 0 /\ h[p] = <<>>
    BY <1>3, <2>2 DEF NetInv, Fresh, Answers, Echoing
  <2>4. sock'[p] = s
    BY <1>1, <2>2
  <2>5. ClientPeers(p, h[p], h[p])
    BY <2>2, <2>3, <2>4 DEF ClientPeers, Mood
  <2>6. QED
    BY <1>2, <1>3, <2>2, <2>5
<1>4. ASSUME NEW h, Answers(h), NEW p \in Peers, PeerSend(p) PROVE OneClientMoves(h, h)
  <2>1. PICK s : s = [sock[p] EXCEPT !.rcv = Append(@, sent[p] + 1)]
    OBVIOUS
  <2>2. Append(sock[p].rcv, sent[p] + 1) \in Bytes
    BY <1>1, AppendProperties DEF SocketType, Bytes
  <2>3. /\ s \in SocketType /\ s.at = sock[p].at /\ s.fin = sock[p].fin /\ s.rst = sock[p].rst
        /\ sock' = [sock EXCEPT ![p] = s] /\ sent' = [sent EXCEPT ![p] = @ + 1]
        /\ sock[p].at \in {"queued", "open"} /\ ~sock[p].fin /\ ~sock[p].rst
    BY <1>1, <1>4, <2>1, <2>2 DEF PeerSend, Alive, SocketType
  <2>4. sock'[p] = s /\ sent'[p] = sent[p] + 1
    BY <1>1, <2>3
  <2>5. ClientPeers(p, h[p], h[p])
    BY <2>3, <2>4 DEF ClientPeers, Mood
  <2>6. QED
    BY <1>1, <1>2, <1>4, <2>3, <2>5
<1>5. ASSUME NEW h, Answers(h), NEW p \in Peers, PeerRecv(p) PROVE OneClientMoves(h, h)
  <2>1. PICK s : s = [sock[p] EXCEPT !.snd = Tail(@)]
    OBVIOUS
  <2>2. Tail(sock[p].snd) \in Bytes
    BY <1>1, <1>5, HeadTailProperties DEF PeerRecv, SocketType, Bytes
  <2>3. /\ s \in SocketType /\ s.at = sock[p].at /\ s.fin = sock[p].fin /\ s.rst = sock[p].rst
        /\ sock' = [sock EXCEPT ![p] = s] /\ sent' = sent
    BY <1>1, <1>5, <2>1, <2>2 DEF PeerRecv, SocketType
  <2>4. sock'[p] = s
    BY <1>1, <2>3
  <2>5. ClientStays(p, h[p], h[p])
    BY <2>3, <2>4 DEF ClientStays, Mood
  <2>6. QED
    BY <1>2, <1>5, <2>3, <2>5
<1>6. ASSUME NEW h, Answers(h), NEW p \in Peers, PeerClose(p) PROVE OneClientMoves(h, h)
  <2>1. PICK s : s = [sock[p] EXCEPT !.fin = TRUE]
    OBVIOUS
  <2>2. /\ s \in SocketType /\ s.at = sock[p].at /\ s.fin /\ s.rst = sock[p].rst
        /\ sock' = [sock EXCEPT ![p] = s] /\ sent' = sent
        /\ sock[p].at \in {"queued", "open"} /\ ~sock[p].fin /\ ~sock[p].rst
    BY <1>1, <1>6, <2>1 DEF PeerClose, Alive, SocketType
  <2>3. sock'[p] = s
    BY <1>1, <2>2
  <2>4. ClientPeers(p, h[p], h[p])
    BY <2>2, <2>3 DEF ClientPeers, Mood
  <2>5. QED
    BY <1>2, <1>6, <2>2, <2>4
<1>7. ASSUME NEW h, Answers(h), NEW p \in Peers, PeerReset(p) PROVE OneClientMoves(h, h)
  <2>1. PICK s : s = [sock[p] EXCEPT !.rst = TRUE, !.snd = <<>>,
                                     !.err = IF sock[p].fin THEN "EPIPE" ELSE "ECONNRESET"]
    OBVIOUS
  <2>2. <<>> \in Bytes
    BY EmptySeq DEF Bytes
  <2>3. /\ s \in SocketType /\ s.at = sock[p].at /\ s.fin = sock[p].fin /\ s.rst
    BY <1>1, <2>1, <2>2 DEF SocketType
  <2>4. /\ sock' = [sock EXCEPT ![p] = s] /\ sent' = sent
        /\ sock[p].at \in {"queued", "open"} /\ ~sock[p].rst
    BY <1>1, <1>7, <2>1 DEF PeerReset, Alive
  <2>5. sock'[p] = s
    BY <1>1, <2>4
  <2>6. ClientPeers(p, h[p], h[p])
    BY <2>3, <2>4, <2>5 DEF ClientPeers, Mood
  <2>7. QED
    BY <1>2, <1>7, <2>3, <2>4, <2>6
<1>8. QED
  BY <1>3, <1>4, <1>5, <1>6, <1>7 DEF PeerStep

LEMMA AcceptClients ==
    ASSUME Numbered, NetInv, backlog # <<>>, FreeFds # {},
           sock' = Accepted(LowestFree), backlog' = Tail(backlog), UNCHANGED sent
    PROVE  \A h : OneClientMoves(h, h)
<1> DEFINE b == Head(backlog)
<1>1. /\ b \in Peers /\ sock[b].at = "queued"
      /\ sock'[b] = [sock[b] EXCEPT !.at = "open", !.fd = LowestFree]
      /\ \A q \in Peers : q # b => sock'[q] = sock[q]
  BY AcceptIs
<1>2. sock[b] \in SocketType
  BY <1>1 DEF NetInv, NetworkTypeOK
<1> HIDE DEF b
<1>3. sock'[b].at = "open" /\ Mood(sock'[b]) = Mood(sock[b])
  BY <1>1, <1>2 DEF SocketType, Mood
<1>4. ASSUME NEW h PROVE ClientServed(b, h[b], h[b])
  BY <1>1, <1>3 DEF ClientServed
<1>5. ASSUME NEW h, NEW q \in Peers \ {b} PROVE ClientStays(q, h[q], h[q])
  BY <1>1 DEF ClientStays
<1>6. QED
  BY <1>1, <1>4, <1>5 DEF OneClientMoves

(* Who has nothing to read, and something to be told, ended. *)
LEMMA CloseClients ==
    ASSUME Numbered, NetInv, NEW f \in UsedFds, HasEvent(f), sock' = Closing(f, sock),
           NEW size \in Nat \ {0}, RecvResult(sock[Owner(f)], size) <= 0,
           UNCHANGED <<backlog, sent>>
    PROVE  \A h \in [Peers -> Bytes] : Answers(h) => OneClientMoves(h, h)
<1>1. PICK p \in Peers : p = Owner(f) /\ sock[p].at = "open"
  BY OwnerIs DEF NetInv, OwnersKnown
<1>2. sock'[p] = AfterClose(sock[p]) /\ \A q \in Peers : q # p => sock'[q] = sock[q]
  BY <1>1, CloseIs
<1>3. PICK s, n : s \in SocketType /\ s = sock[p] /\ n = RecvResult(s, size)
  BY DEF NetInv, NetworkTypeOK
<1>4. s.rcv = <<>> /\ (s.fin \/ s.rst)
  <2>1. n <= 0
    BY <1>1, <1>3
  <2>2. s.rcv = <<>>
    BY <1>3, <2>1, RecvIs
  <2>3. QED
    BY <1>1, <1>3, <2>2 DEF HasEvent, Readable
<1>5. sock'[p].at = "closed" /\ sock'[p].fin = s.fin /\ sock'[p].rst = s.rst
  <2>1. PICK t : t = AfterClose(s)
    OBVIOUS
  <2>2. t.at = "closed" /\ t.fin = s.fin /\ t.rst = s.rst
    BY <2>1 DEF AfterClose, SocketType
  <2>3. QED
    BY <1>2, <1>3, <2>1, <2>2
<1>6. ASSUME NEW h \in [Peers -> Bytes], Answers(h) PROVE OneClientMoves(h, h)
  <2>1. ~s.rst => h[p] \o s.rcv = UpTo(sent[p])
    BY <1>1, <1>3, <1>6 DEF Answers, Echoing
  <2>2. ~s.rst => h[p] = UpTo(sent[p])
    BY <1>4, <2>1, ConcatEmptySeq DEF Bytes
  <2>3. Mood(sock'[p]) = Mood(sock[p])
    BY <1>3, <1>5 DEF Mood
  <2>4. Mood(sock[p]) = "cut" \/ (Mood(sock[p]) = "bye" /\ h[p] = UpTo(sent[p]))
    BY <1>3, <1>4, <2>2 DEF Mood
  <2>5. ClientServed(p, h[p], h[p])
    BY <1>1, <1>5, <2>3, <2>4 DEF ClientServed
  <2>6. \A q \in Peers \ {p} : ClientStays(q, h[q], h[q])
    BY <1>2 DEF ClientStays
  <2>7. QED
    BY <2>5, <2>6 DEF OneClientMoves
<1>7. QED
  BY <1>6

(* What begins the bytes of a peer is the first of them. *)
LEMMA BeginsUpTo ==
    ASSUME NEW x \in Bytes, NEW r \in Bytes, NEW m \in Nat, x \o r = UpTo(m)
    PROVE  Len(x) \in Nat /\ Len(x) <= m /\ x = UpTo(Len(x))
<1>1. x \in Seq(Nat \ {0}) /\ r \in Seq(Nat \ {0})
  BY DEF Bytes
<1>2. Len(x) \in Nat /\ Len(r) \in Nat
  BY <1>1, LenProperties
<1>3. /\ Len(x \o r) = Len(x) + Len(r)
      /\ \A i \in 1..Len(x) : (x \o r)[i] = x[i]
  BY <1>1, <1>2, ConcatProperties
<1>4. Len(x) <= m
  BY <1>2, <1>3, UpToIs
<1>5. PICK n \in Nat : n = Len(x)
  BY <1>2
<1>6. UpTo(n) \in Seq(Nat \ {0}) /\ Len(UpTo(n)) = n
  BY UpToIs DEF Bytes
<1>7. ASSUME NEW i \in 1..n PROVE x[i] = UpTo(n)[i]
  <2>1. x[i] = UpTo(m)[i]
    BY <1>3, <1>5
  <2>2. i \in 1..m
    BY <1>4, <1>5
  <2>3. QED
    BY <2>1, <2>2 DEF UpTo
<1>8. x = UpTo(n)
  BY <1>1, <1>5, <1>6, <1>7, SeqEqual
<1>9. QED
  BY <1>2, <1>4, <1>5, <1>8

LEMMA ReplyClients ==
    ASSUME Numbered, NetInv, Whole, NEW f \in UsedFds, NEW p, p = Owner(f),
           NEW size \in Nat \ {0}, RecvResult(sock[p], size) > 0,
           sock' = [sock EXCEPT ![p] = AfterReply(sock[p], size)], UNCHANGED <<backlog, sent>>
    PROVE  \A h \in [Peers -> Bytes] : \A k :
              Answers(h) /\ k = [h EXCEPT ![p] = @ \o Reply(sock[p], size)] =>
                  OneClientMoves(h, k)
<1>1. /\ p \in Peers /\ sock[p].at = "open" /\ sock'[p].at = "open"
      /\ sock'[p].fin = sock[p].fin /\ sock'[p].rst = sock[p].rst
      /\ \A q \in Peers : q # p => sock'[q] = sock[q]
      /\ Reply(sock[p], size) \in Bytes
      /\ \A h \in Bytes : Echoing(p, h) /\ Whole /\ ~sock[p].rst =>
             Len(h \o Reply(sock[p], size)) > Len(h)
  BY ReplyIs, ZenonT(40)
<1>2. /\ NetInv'
      /\ \A h \in [Peers -> Bytes] : \A k :
            k = [h EXCEPT ![p] = @ \o Reply(sock[p], size)] =>
              k \in [Peers -> Bytes] /\ (Whole /\ Answers(h) => Answers(k)')
  BY ReplyOn
<1>3. PICK c \in Bytes : c = Reply(sock[p], size)
  BY <1>1
<1>4. sock[p].rst => c = <<>>
  <2>1. PICK s, b, m : s = AfterGot(sock[p], size) /\ b = Got(sock[p], size) /\ m = Taken(s, b)
    OBVIOUS
  <2>2. s \in SocketType /\ s.rst = sock[p].rst /\ b \in Bytes
    BY <1>1, <2>1, GotIs DEF NetInv, NetworkTypeOK
  <2>3. c = SubSeq(b, 1, m)
    BY <1>3, <2>1 DEF Reply
  <2>4. sock[p].rst => m = 0
    BY <2>1, <2>2 DEF Taken
  <2>5. SubSeq(b, 1, 0) = <<>>
    BY <2>2, SubSeqProperties, EmptySeq DEF Bytes
  <2>6. QED
    BY <2>3, <2>4, <2>5
<1>5. ASSUME NEW h \in [Peers -> Bytes], NEW k, Answers(h), k = [h EXCEPT ![p] = @ \o c]
      PROVE  OneClientMoves(h, k)
  <2>1. /\ k[p] = h[p] \o c /\ h[p] \in Bytes /\ Echoing(p, h[p])
        /\ \A q \in Peers : q # p => k[q] = h[q]
    BY <1>1, <1>5 DEF Answers
  <2>2. k \in [Peers -> Bytes] /\ Answers(k)'
    BY <1>2, <1>3, <1>5
  <2>3. Mood(sock'[p]) = Mood(sock[p]) /\ sent'[p] = sent[p]
    BY <1>1 DEF Mood
  <2>4. CASE sock[p].rst
    <3>1. k[p] = h[p]
      BY <1>4, <2>1, <2>4, ConcatEmptySeq DEF Bytes
    <3>2. ClientStays(p, h[p], k[p])
      BY <1>1, <2>3, <3>1 DEF ClientStays
    <3>3. \A q \in Peers \ {p} : ClientStays(q, h[q], k[q])
      BY <1>1, <2>1 DEF ClientStays
    <3>4. QED
      BY <1>1, <3>2, <3>3 DEF OneClientMoves
  <2>5. CASE ~sock[p].rst
    <3>1. PICK x, r, m : x = k[p] /\ r = sock'[p].rcv /\ m = sent[p]
      OBVIOUS
    <3>2. x \in Bytes /\ r \in Bytes /\ m \in Nat
      BY <1>1, <1>2, <2>2, <3>1 DEF NetInv, NetworkTypeOK, SocketType
    <3>3. x \o r = UpTo(m)
      BY <1>1, <2>2, <2>3, <2>5, <3>1 DEF Answers, Echoing
    <3>4. Len(x) \in Nat /\ Len(x) <= m /\ x = UpTo(Len(x))
      BY <3>1, <3>2, <3>3, BeginsUpTo, ZenonT(40)
    <3>5. Len(x) > Len(h[p]) /\ Len(h[p]) \in Nat
      BY <1>1, <1>3, <2>1, <2>5, <3>1, LenProperties DEF Bytes
    <3>6. Len(x) \in Len(h[p]) + 1 .. sent[p]
      BY <3>1, <3>4, <3>5
    <3>7. ClientServed(p, h[p], k[p])
      BY <1>1, <2>3, <2>5, <3>1, <3>4, <3>6 DEF ClientServed, Mood
    <3>8. \A q \in Peers \ {p} : ClientStays(q, h[q], k[q])
      BY <1>1, <2>1 DEF ClientStays
    <3>9. QED
      BY <1>1, <3>7, <3>8 DEF OneClientMoves
  <2>6. QED
    BY <2>4, <2>5
<1>6. QED
  BY <1>3, <1>5

-----------------------------------------------------------------------------
(* What a send() writes and what it leaves to an output buffer. *)

LEMMA CutBytes ==
    ASSUME NEW b \in Bytes, NEW n \in 0..Len(b)
    PROVE  /\ SubSeq(b, 1, n) \in Bytes
           /\ Len(SubSeq(b, 1, n)) = n
           /\ SubSeq(b, n + 1, Len(b)) \in Bytes
           /\ Len(SubSeq(b, n + 1, Len(b))) = Len(b) - n
           /\ SubSeq(b, 1, n) \o SubSeq(b, n + 1, Len(b)) = b
<1>1. b \in Seq(Nat \ {0}) /\ Len(b) \in Nat /\ \A i \in 1..Len(b) : b[i] \in Nat \ {0}
  BY LenProperties DEF Bytes
<1>2. SubSeq(b, 1, n) \in Seq(Nat \ {0}) /\ Len(SubSeq(b, 1, n)) = n
  BY <1>1, SubSeqProperties
<1>3. SubSeq(b, n + 1, Len(b)) \in Seq(Nat \ {0})
      /\ Len(SubSeq(b, n + 1, Len(b))) = Len(b) - n
  BY <1>1, SubSeqProperties
<1>4. SubSeq(b, 1, n) \o SubSeq(b, n + 1, Len(b)) = SubSeq(b, 1, Len(b))
  <2>1. 1 \in 1..Len(b) + 1 /\ n \in 1 - 1..Len(b) /\ Len(b) \in n..Len(b)
    BY <1>1
  <2>2. QED
    BY <1>1, <2>1, ConcatAdjacentSubSeq
<1>5. QED
  BY <1>1, <1>2, <1>3, <1>4, SubSeqFull DEF Bytes

(* u is left of the bytes after k of them, x, were written to what has written *)
(* w and has o waiting; a is all that was sent before.                        *)
SendOf(bytes, k, w, o, u, x, a) ==
    /\ bytes \in Bytes /\ k \in 0..Len(bytes) /\ w \in Bytes /\ o \in Bytes
    /\ k = 0 \/ o = <<>>
    /\ u = SubSeq(bytes, 1 + k, Len(bytes))
    /\ x = SubSeq(bytes, 1, Len(bytes) - Len(u))
    /\ a = w \o o

LEMMA SendSplits ==
    ASSUME NEW bytes, NEW k, NEW w, NEW o, NEW u, NEW x, NEW a,
           SendOf(bytes, k, w, o, u, x, a)
    PROVE  /\ u \in Bytes /\ x \in Bytes /\ w \o x \in Bytes /\ o \o u \in Bytes
           /\ a \o bytes \in Bytes /\ a \o bytes = (w \o x) \o (o \o u)
           /\ o \o u = <<>> <=> o = <<>> /\ u = <<>>
<1>0. /\ bytes \in Bytes /\ k \in 0..Len(bytes) /\ w \in Bytes /\ o \in Bytes
      /\ k = 0 \/ o = <<>>
      /\ u = SubSeq(bytes, 1 + k, Len(bytes))
      /\ x = SubSeq(bytes, 1, Len(bytes) - Len(u))
      /\ a = w \o o
  BY DEF SendOf
<1>1. Len(bytes) \in Nat /\ 1 + k = k + 1
  BY <1>0, LenProperties DEF Bytes
<1>2. u \in Bytes /\ Len(u) = Len(bytes) - k
  BY <1>0, <1>1, CutBytes, ZenonT(40)
<1>3. x = SubSeq(bytes, 1, k)
  BY <1>0, <1>1, <1>2
<1>4. x \in Bytes /\ Len(x) = k /\ x \o u = bytes
  <2>1. /\ SubSeq(bytes, 1, k) \in Bytes /\ Len(SubSeq(bytes, 1, k)) = k
        /\ SubSeq(bytes, 1, k) \o SubSeq(bytes, k + 1, Len(bytes)) = bytes
    BY <1>0, CutBytes
  <2>2. u = SubSeq(bytes, k + 1, Len(bytes))
    BY <1>0, <1>1
  <2>3. QED
    BY <1>3, <2>1, <2>2
<1>5. /\ w \o x \in Bytes /\ o \o u \in Bytes /\ w \o o \in Bytes
      /\ Len(o \o u) = Len(o) + Len(u)
  BY <1>0, <1>2, <1>4, BytesConcat
<1>6. Len(o) \in Nat /\ Len(u) \in Nat /\ Len(x) \in Nat
  BY <1>0, <1>2, <1>4, LenProperties DEF Bytes
<1>7. \A s \in Bytes : s = <<>> <=> Len(s) = 0
  BY EmptySeq DEF Bytes
<1>8. o \o u = <<>> <=> o = <<>> /\ u = <<>>
  BY <1>2, <1>5, <1>6, <1>7
<1>9. (w \o o) \o bytes \in Bytes
  BY <1>0, <1>5, BytesConcat
<1>10. (w \o o) \o bytes = (w \o x) \o (o \o u)
  <2>1. CASE o = <<>>
    <3>1. w \o o = w /\ o \o u = u
      BY <1>0, <1>2, <2>1, ConcatEmptySeq DEF Bytes
    <3>2. w \o (x \o u) = (w \o x) \o u
      <4>1. w \in Bytes /\ x \in Bytes /\ u \in Bytes
        BY <1>0, <1>2, <1>4
      <4>2. QED
        BY ONLY <4>1, BytesConcat, ZenonT(40)
    <3>3. QED
      BY <1>4, <3>1, <3>2
  <2>2. CASE k = 0
    <3>1. x = <<>>
      BY <1>4, <1>7, <2>2
    <3>2. w \o x = w /\ u = bytes
      <4>1. <<>> \o u = u /\ w \o <<>> = w
        BY <1>0, <1>2, ConcatEmptySeq DEF Bytes
      <4>2. QED
        BY <1>4, <3>1, <4>1
    <3>3. (w \o o) \o bytes = w \o (o \o bytes)
      BY <1>0, BytesConcat, ZenonT(40)
    <3>4. QED
      BY <3>2, <3>3
  <2>3. QED
    BY <1>0, <2>1, <2>2
<1>11. QED
  BY <1>0, <1>2, <1>4, <1>5, <1>8, <1>9, <1>10
=============================================================================
