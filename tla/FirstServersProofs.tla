-------------------------- MODULE FirstServersProofs --------------------------
(***************************************************************************)
(* What EarlyServers promises of the servers of v1.0 to v1.3, and of the   *)
(* loop of v1.3 to v1.5, for every number of peers, descriptors and bytes. *)
(* Each has an inductive invariant of its own; what the versions share,    *)
(* the kernel and the peers, is in PeersProofs, which is used once for     *)
(* each of them.  EarlyServersProofs goes on with v1.4 and v1.5.           *)
(***************************************************************************)
EXTENDS EarlyServers, TLAPS, SequenceTheorems, FiniteSetTheorems

N10 == INSTANCE PeersProofs WITH
         Peers <- PeersOf("1.0"), Fds <- FdsOf("1.0"), MaxIn <- Size["1.0"].maxIn,
         SndBuf <- Size["1.0"].sndBuf, Backlog <- Size["1.0"].backlog
N11 == INSTANCE PeersProofs WITH
         Peers <- PeersOf("1.1"), Fds <- FdsOf("1.1"), MaxIn <- Size["1.1"].maxIn,
         SndBuf <- Size["1.1"].sndBuf, Backlog <- Size["1.1"].backlog
N12 == INSTANCE PeersProofs WITH
         Peers <- PeersOf("1.2"), Fds <- FdsOf("1.2"), MaxIn <- Size["1.2"].maxIn,
         SndBuf <- Size["1.2"].sndBuf, Backlog <- Size["1.2"].backlog
N13 == INSTANCE PeersProofs WITH
         Peers <- PeersOf("1.3"), Fds <- FdsOf("1.3"), MaxIn <- Size["1.3"].maxIn,
         SndBuf <- Size["1.3"].sndBuf, Backlog <- Size["1.3"].backlog

(* A set of numbers has a least one. *)
LEMMA LeastNumber ==
    ASSUME NEW T \in SUBSET Nat, T # {}
    PROVE  \E x \in T : \A y \in T : x <= y
<1> DEFINE R == OpToRel(<, Nat)
<1>1. IsWellFoundedOn(R, Nat)
  BY NatLessThanWellFounded, Zenon
<1>2. \E x \in T : \A y \in T : ~(<<y, x>> \in R)
  <2> HIDE DEF R
  <2>1. QED
    BY <1>1, WFMin
<1>3. ASSUME NEW x \in T, NEW y \in T, ~(<<y, x>> \in R) PROVE x <= y
  BY <1>3 DEF OpToRel
<1>4. QED
  BY <1>2, <1>3

LEMMA SizesOf ==
    ASSUME NEW v \in Versions
    PROVE  /\ Size[v].peers \in Nat /\ Size[v].fds \in Nat /\ Size[v].maxIn \in Nat
           /\ Size[v].sndBuf \in Nat \ {0} /\ Size[v].backlog \in Nat \ {0}
           /\ Size[v].read \in Nat \ {0}
           /\ PeersOf(v) \subseteq Nat \ {0}
           /\ FdsOf(v) \subseteq Nat \ {0}
           /\ \A T \in SUBSET FdsOf(v) : T # {} => \E f \in T : \A g \in T : f <= g
<1>1. Size[v] \in [peers : Nat, fds : Nat, maxIn : Nat, sndBuf : Positive,
                   backlog : Positive, read : Positive]
  BY SizeAssumption
<1>2. Size[v].peers \in Nat /\ Size[v].fds \in Nat
  BY <1>1
<1>3. PeersOf(v) \subseteq Nat \ {0} /\ FdsOf(v) \subseteq Nat \ {0}
  BY <1>2 DEF PeersOf, FdsOf
<1>4. ASSUME NEW T \in SUBSET FdsOf(v), T # {}
      PROVE  \E f \in T : \A g \in T : f <= g
  <2>1. T \in SUBSET Nat
    BY <1>3
  <2>2. QED
    BY <1>4, <2>1, LeastNumber
<1>5. QED
  BY <1>1, <1>2, <1>3, <1>4 DEF Positive

-----------------------------------------------------------------------------
(* v1.0 *)

(* The kernel is what it should be; events in the batch are of connections    *)
(* with something to read, unless an error closed one of them.                *)
Inv10 ==
    /\ N10!NetInv
    /\ pc \in {"wait", "batch", "dead"}
    /\ batch \subseteq FdsOf("1.0") \cup {0}
    /\ cur \in FdsOf("1.0") \cup {0}
    /\ history \in [PeersOf("1.0") -> N10!Bytes]
    /\ 0 \in batch => backlog # <<>>
    /\ \A f \in batch : f # 0 => N10!HasEvent(f) \/ N10!SomeoneReset
    /\ N10!Whole => N10!Answers(history)

LEMMA Numbered10 == N10!Numbered /\ Size["1.0"].read \in Nat \ {0}
BY SizesOf DEF N10!Numbered, Versions

(* The kernel's operators are the same ones. *)
LEMMA Same10 ==
    /\ V10!NetworkInit <=> N10!NetworkInit
    /\ V10!PeerStep <=> N10!PeerStep
    /\ V10!UsedFds = N10!UsedFds
    /\ V10!FreeFds = N10!FreeFds
    /\ V10!LowestFree = N10!LowestFree
    /\ \A f : V10!Owner(f) = N10!Owner(f)
    /\ \A s : V10!Readable(s) <=> N10!Readable(s)
    /\ \A f, n : V10!Received(f, n) = N10!Received(f, n)
    /\ \A f : V10!Accepted(f) = N10!Accepted(f)
    /\ \A f, s : V10!Closing(f, s) = N10!Closing(f, s)
    /\ \A s, n : V10!AfterRecv(s, n) = N10!AfterRecv(s, n)
    /\ \A s, b : V10!AfterSend(s, b) = N10!AfterSend(s, b)
    /\ \A s, b : V10!Taken(s, b) = N10!Taken(s, b)
    /\ V10!Bytes = N10!Bytes
<1>1. V10!NetworkInit <=> N10!NetworkInit
  BY DEF V10!NetworkInit, N10!NetworkInit
<1>2. V10!PeerStep <=> N10!PeerStep
  BY DEF V10!PeerStep, V10!Connect, V10!PeerSend, V10!PeerRecv, V10!PeerClose, V10!PeerReset,
         V10!Alive, N10!PeerStep, N10!Connect, N10!PeerSend, N10!PeerRecv, N10!PeerClose,
         N10!PeerReset, N10!Alive
<1>3. /\ V10!UsedFds = N10!UsedFds /\ V10!FreeFds = N10!FreeFds
      /\ V10!LowestFree = N10!LowestFree
  BY DEF V10!UsedFds, N10!UsedFds, V10!FreeFds, N10!FreeFds, V10!LowestFree, N10!LowestFree
<1>4. \A f : V10!Owner(f) = N10!Owner(f)
  BY DEF V10!Owner, N10!Owner
<1>5. \A s : V10!Readable(s) <=> N10!Readable(s)
  BY DEF V10!Readable, N10!Readable
<1>6. \A f, n : V10!Received(f, n) = N10!Received(f, n)
  BY <1>3, <1>4 DEF V10!Received, N10!Received, V10!RecvResult, N10!RecvResult
<1>7. \A f : V10!Accepted(f) = N10!Accepted(f)
  BY DEF V10!Accepted, N10!Accepted
<1>8. \A s : V10!AfterClose(s) = N10!AfterClose(s)
  BY DEF V10!AfterClose, N10!AfterClose
<1>9. \A f, s : V10!Closing(f, s) = N10!Closing(f, s)
  BY <1>3, <1>4, <1>8 DEF V10!Closing, N10!Closing
<1>10. \A s, n : V10!AfterRecv(s, n) = N10!AfterRecv(s, n)
  BY DEF V10!AfterRecv, N10!AfterRecv
<1>11. /\ \A s, b : V10!Taken(s, b) = N10!Taken(s, b)
       /\ \A s, b : V10!AfterSend(s, b) = N10!AfterSend(s, b)
  BY DEF V10!Taken, N10!Taken, V10!AfterSend, N10!AfterSend
<1>12. V10!Bytes = N10!Bytes
  BY DEF V10!Bytes, N10!Bytes
<1>13. QED
  BY <1>1, <1>2, <1>3, <1>4, <1>5, <1>6, <1>7, <1>9, <1>10, <1>11, <1>12

LEMMA Init10 == ASSUME V10!Init PROVE Inv10
<1>1. N10!NetworkInit
  BY Same10 DEF V10!Init
<1>2. N10!NetInv /\ N10!Answers([p \in PeersOf("1.0") |-> <<>>])
  BY <1>1, Numbered10, N10!InitNet, N10!AnswersBegin
<1>3. <<>> \in N10!Bytes
  BY EmptySeq DEF N10!Bytes
<1>4. /\ pc = "wait" /\ batch = {} /\ cur = 0
      /\ history = [p \in PeersOf("1.0") |-> <<>>]
  BY DEF V10!Init
<1>5. QED
  BY <1>2, <1>3, <1>4 DEF Inv10

(* What an event's step does to the batch. *)
LEMMA Taken10 ==
    ASSUME Inv10, NEW f, V10!Take(f)
    PROVE  /\ f \in batch /\ pc = "batch"
           /\ batch' = batch \ {f}
           /\ batch' \subseteq FdsOf("1.0") \cup {0}
BY DEF Inv10, V10!Take

LEMMA Wait10 == ASSUME Inv10, V10!Wait PROVE Inv10'
<1>1. /\ UNCHANGED N10!network /\ pc' = "batch" /\ batch' = V10!ReadyFds
      /\ cur' = cur /\ history' = history
  BY DEF V10!Wait, V10!network, N10!network
<1>2. \A f \in batch' : \/ f \in N10!UsedFds /\ N10!Readable(sock[N10!Owner(f)])
                        \/ f = 0 /\ backlog # <<>>
  BY <1>1, Same10 DEF V10!ReadyFds, V10!server_sock
<1>3. 0 \notin N10!UsedFds /\ N10!UsedFds \subseteq FdsOf("1.0")
  BY N10!OwnerIs, Numbered10 DEF Inv10, N10!NetInv, N10!OwnersKnown, N10!Numbered
<1>4. backlog' = backlog
  BY <1>1 DEF N10!network
<1>5. \A f \in batch' : f # 0 => N10!HasEvent(f)'
  BY <1>1, <1>2, N10!NetworkStays DEF N10!HasEvent
<1>6. N10!NetInv' /\ (N10!Whole => N10!Answers(history)')
  BY <1>1, N10!NetworkStays DEF Inv10
<1>7. QED
  BY <1>1, <1>2, <1>3, <1>4, <1>5, <1>6 DEF Inv10

LEMMA EndBatch10 == ASSUME Inv10, V10!EndBatch PROVE Inv10'
<1>1. /\ UNCHANGED N10!network /\ pc' = "wait" /\ batch' = {}
      /\ cur' = cur /\ history' = history
  BY DEF V10!EndBatch, V10!network, N10!network
<1>2. N10!NetInv' /\ (N10!Whole => N10!Answers(history)')
  BY <1>1, N10!NetworkStays DEF Inv10
<1>3. QED
  BY <1>1, <1>2 DEF Inv10

(* The process dies with the event taken. *)
LEMMA Die10 == ASSUME Inv10, NEW f, V10!Take(f), V10!Die PROVE Inv10'
<1>1. /\ UNCHANGED N10!network /\ pc' = "dead" /\ batch' \subseteq batch
      /\ cur' = cur /\ history' = history
  BY DEF V10!Die, V10!Take, V10!network, N10!network
<1>2. backlog' = backlog
  BY <1>1 DEF N10!network
<1>3. /\ N10!NetInv' /\ (N10!Whole => N10!Answers(history)')
      /\ \A g \in batch' : g # 0 => N10!HasEvent(g)' \/ N10!SomeoneReset'
  BY <1>1, N10!NetworkStays DEF Inv10
<1>4. QED
  BY <1>1, <1>2, <1>3 DEF Inv10

LEMMA Accept10 == ASSUME Inv10, V10!AcceptEvent PROVE Inv10'
<1>1. /\ 0 \in batch /\ pc = "batch" /\ batch' = batch \ {0} /\ V10!Take(0)
  BY Taken10 DEF V10!AcceptEvent, V10!server_sock
<1>2. CASE N10!FreeFds = {}
  <2>1. V10!Die
    BY <1>2, Same10 DEF V10!AcceptEvent
  <2>2. QED
    BY <1>1, <2>1, Die10
<1>3. CASE N10!FreeFds # {}
  <2>1. /\ cur' = N10!LowestFree /\ sock' = N10!Accepted(N10!LowestFree)
        /\ backlog' = Tail(backlog) /\ sent' = sent /\ pc' = pc /\ history' = history
    BY <1>3, Same10 DEF V10!AcceptEvent
  <2>2. backlog # <<>>
    BY <1>1 DEF Inv10
  <2>3. /\ N10!NetInv'
        /\ N10!LowestFree \in FdsOf("1.0")
        /\ \A f : N10!HasEvent(f) => N10!HasEvent(f)'
        /\ N10!SomeoneReset => N10!SomeoneReset'
        /\ \A h \in [PeersOf("1.0") -> N10!Bytes] : N10!Answers(h) => N10!Answers(h)'
    BY <1>3, <2>1, <2>2, Numbered10, N10!AcceptOn DEF Inv10
  <2>4. N10!Whole => N10!Answers(history)'
    BY <2>1, <2>3 DEF Inv10
  <2>5. QED
    BY <1>1, <2>1, <2>3, <2>4 DEF Inv10
<1>4. QED
  BY <1>2, <1>3

(* Bytes that the process does not follow any further. *)
LEMMA RecvError10 ==
    ASSUME Inv10, NEW f, V10!RecvError(f)
    PROVE  /\ Inv10'
           /\ N10!SomeoneReset
           /\ \A p \in PeersOf("1.0") :
                 sock[p].at = "open" /\ sock'[p].at # "open" => sock[p].fd = cur
<1>1. f \in batch /\ f # 0 /\ batch' = batch \ {f}
  BY Taken10 DEF V10!RecvError, V10!server_sock
<1>2. /\ N10!Received(f, Size["1.0"].read) < 0
      /\ sock' = N10!Closing(cur, IF f \in N10!UsedFds
                                  THEN [sock EXCEPT ![N10!Owner(f)] = N10!AfterRecv(@, -1)]
                                  ELSE sock)
      /\ backlog' = backlog /\ sent' = sent /\ pc' = pc /\ cur' = cur /\ history' = history
  BY Same10 DEF V10!RecvError
<1>3. /\ N10!NetInv'
      /\ N10!HasEvent(f) => N10!SomeoneReset
      /\ N10!SomeoneReset => N10!SomeoneReset'
      /\ \A h \in [PeersOf("1.0") -> N10!Bytes] : N10!Answers(h) => N10!Answers(h)'
      /\ \A p \in PeersOf("1.0") :
            sock[p].at = "open" /\ sock'[p].at # "open" => sock[p].fd = cur
  BY <1>2, Numbered10, N10!ErrorOn DEF Inv10
<1>4. N10!SomeoneReset /\ N10!SomeoneReset'
  BY <1>1, <1>3 DEF Inv10
<1>5. N10!Whole => N10!Answers(history)'
  BY <1>2, <1>3 DEF Inv10
<1>6. QED
  BY <1>1, <1>2, <1>3, <1>4, <1>5 DEF Inv10

LEMMA RecvEnd10 ==
    ASSUME Inv10, NEW f, V10!RecvEnd(f)
    PROVE  /\ Inv10'
           /\ \A p \in PeersOf("1.0") :
                 sock[p].at = "open" /\ sock'[p].at # "open" => sock[p].fin \/ sock[p].rst
<1>1. f \in batch /\ f # 0 /\ batch' = batch \ {f}
  BY Taken10 DEF V10!RecvEnd, V10!server_sock
<1>2. /\ N10!Received(f, Size["1.0"].read) = 0
      /\ sock' = N10!Closing(f, sock)
      /\ backlog' = backlog /\ sent' = sent /\ pc' = pc /\ cur' = cur /\ history' = history
  BY Same10 DEF V10!RecvEnd
<1>3. f \in N10!UsedFds
  BY <1>2 DEF N10!Received
<1>4. /\ N10!NetInv'
      /\ \A g : g # f /\ N10!HasEvent(g) => N10!HasEvent(g)'
      /\ N10!SomeoneReset => N10!SomeoneReset'
      /\ \A h \in [PeersOf("1.0") -> N10!Bytes] : N10!Answers(h) => N10!Answers(h)'
      /\ \A p \in PeersOf("1.0") : sock[p].at = "open" /\ sock'[p].at # "open" => sock[p].fd = f
  BY <1>2, <1>3, Numbered10, N10!CloseOn DEF Inv10
<1>5. N10!Whole => N10!Answers(history)'
  BY <1>2, <1>4 DEF Inv10
<1>6. Inv10'
  BY <1>1, <1>2, <1>4, <1>5 DEF Inv10
<1>7. ASSUME NEW p \in PeersOf("1.0"), sock[p].at = "open", sock'[p].at # "open"
      PROVE  sock[p].fin \/ sock[p].rst
  <2>1. sock[p].fd = f
    BY <1>4, <1>7
  <2>2. p = N10!Owner(f) /\ sock[p] \in N10!SocketType
    BY <1>3, <1>7, <2>1, N10!OwnerIs
       DEF Inv10, N10!NetInv, N10!NetworkTypeOK, N10!OwnersKnown
  <2>3. N10!RecvResult(sock[p], Size["1.0"].read) = 0
    BY <1>2, <1>3, <2>2 DEF N10!Received
  <2>4. QED
    BY <2>2, <2>3, Numbered10, N10!RecvIs
<1>8. QED
  BY <1>6, <1>7

LEMMA RecvData10 ==
    ASSUME Inv10, NEW f, V10!RecvData(f)
    PROVE  /\ Inv10'
           /\ \A p \in PeersOf("1.0") : sock[p].at = "open" => sock'[p].at = "open"
<1>1. f \in batch /\ batch' = batch \ {f} /\ V10!Take(f)
  BY Taken10 DEF V10!RecvData
<1>2. N10!Received(f, Size["1.0"].read) > 0
  BY Same10 DEF V10!RecvData
<1>3. f \in N10!UsedFds
  BY <1>2 DEF N10!Received
<1>4. PICK p, size : p = N10!Owner(f) /\ size = Size["1.0"].read
  OBVIOUS
<1>5. N10!RecvResult(sock[p], size) > 0 /\ size \in Nat \ {0}
  BY <1>2, <1>3, <1>4, Numbered10 DEF N10!Received
<1>6. \/ V10!Die
      \/ /\ sock' = [sock EXCEPT ![p] = N10!AfterReply(sock[p], size)]
         /\ history' = [history EXCEPT ![p] = @ \o N10!Reply(sock[p], size)]
         /\ backlog' = backlog /\ sent' = sent /\ pc' = pc /\ cur' = cur
  BY <1>3, <1>4, Same10
     DEF V10!RecvData, V10!Echo, N10!Received, N10!AfterReply, N10!Reply, N10!Got, N10!AfterGot
<1>7. CASE V10!Die
  BY <1>1, <1>7, Die10 DEF V10!Die, V10!network
<1>8. CASE /\ sock' = [sock EXCEPT ![p] = N10!AfterReply(sock[p], size)]
           /\ history' = [history EXCEPT ![p] = @ \o N10!Reply(sock[p], size)]
           /\ backlog' = backlog /\ sent' = sent /\ pc' = pc /\ cur' = cur
  <2>1. N10!NetInv /\ N10!Numbered /\ history \in [PeersOf("1.0") -> N10!Bytes]
    BY Numbered10 DEF Inv10
  <2>2. /\ N10!NetInv'
        /\ \A g : g # f /\ N10!HasEvent(g) => N10!HasEvent(g)'
        /\ N10!SomeoneReset => N10!SomeoneReset'
        /\ \A h \in [PeersOf("1.0") -> N10!Bytes] : \A k :
              k = [h EXCEPT ![p] = @ \o N10!Reply(sock[p], size)] =>
                /\ k \in [PeersOf("1.0") -> N10!Bytes]
                /\ N10!Whole /\ N10!Answers(h) => N10!Answers(k)'
    BY <1>3, <1>4, <1>5, <1>8, <2>1, N10!ReplyOn
  <2>3. PICK k : k = history'
    OBVIOUS
  <2>4. /\ k \in [PeersOf("1.0") -> N10!Bytes]
        /\ N10!Whole /\ N10!Answers(history) => N10!Answers(k)'
    BY <1>8, <2>1, <2>2, <2>3
  <2>5. N10!Whole => N10!Answers(history)'
    BY <2>3, <2>4 DEF Inv10
  <2>6. Inv10'
    BY <1>1, <1>8, <2>2, <2>3, <2>4, <2>5 DEF Inv10
  <2>7. ASSUME NEW q \in PeersOf("1.0"), sock[q].at = "open" PROVE sock'[q].at = "open"
    BY <1>3, <1>4, <1>5, <1>8, <2>1, <2>7, N10!ReplyIs
  <2>8. QED
    BY <2>6, <2>7
<1>9. QED
  BY <1>6, <1>7, <1>8

LEMMA PeersMove10 == ASSUME Inv10, V10!PeersMove PROVE Inv10'
<1>1. /\ N10!PeerStep /\ pc' = pc /\ batch' = batch /\ cur' = cur /\ history' = history
  BY Same10 DEF V10!PeersMove
<1>2. /\ N10!NetInv'
      /\ \A f : N10!HasEvent(f) => N10!HasEvent(f)'
      /\ N10!SomeoneReset => N10!SomeoneReset'
      /\ backlog # <<>> => backlog' # <<>>
      /\ \A h \in [PeersOf("1.0") -> N10!Bytes] : N10!Answers(h) => N10!Answers(h)'
  BY <1>1, Numbered10, N10!PeersMoveNet, N10!PeersMoveOn DEF Inv10
<1>3. N10!Whole => N10!Answers(history)'
  BY <1>1, <1>2 DEF Inv10
<1>4. QED
  BY <1>1, <1>2, <1>3 DEF Inv10

(* Every step of v1.0 keeps the invariant, and wrongs at most the newest. *)
Wronged10 ==
    \A p \in PeersOf("1.0") :
       sock[p].at = "open" /\ sock'[p].at = "closed" /\ ~sock[p].fin /\ ~sock[p].rst =>
           sock[p].fd = cur /\ N10!SomeoneReset

LEMMA Step10 == ASSUME Inv10, V10!Next PROVE Inv10' /\ Wronged10
<1>1. CASE V10!PeersMove
  <2>1. N10!PeerStep /\ N10!NetInv
    BY <1>1, Same10 DEF V10!PeersMove, Inv10
  <2>2. \A p \in PeersOf("1.0") : sock[p].at = "open" => sock'[p].at = "open"
    BY <2>1, Numbered10, N10!PeersMoveNet DEF N10!PeersKeep
  <2>3. QED
    BY <1>1, <2>2, PeersMove10 DEF Wronged10
<1>2. CASE V10!Wait
  BY <1>2, Wait10 DEF Wronged10, V10!Wait, V10!network
<1>3. CASE V10!EndBatch
  BY <1>3, EndBatch10 DEF Wronged10, V10!EndBatch, V10!network
<1>4. CASE V10!AcceptEvent
  <2>1. ASSUME NEW p \in PeersOf("1.0"), sock[p].at = "open", sock'[p].at = "closed"
        PROVE  FALSE
    <3>1. sock \in [PeersOf("1.0") -> N10!SocketType]
      BY DEF Inv10, N10!NetInv, N10!NetworkTypeOK
    <3>2. sock' = sock \/ sock' = N10!Accepted(N10!LowestFree)
      BY <1>4, Same10 DEF V10!AcceptEvent, V10!Die, V10!network
    <3>3. QED
      BY <2>1, <3>1, <3>2 DEF N10!Accepted, N10!SocketType
  <2>2. QED
    BY <1>4, <2>1, Accept10 DEF Wronged10
<1>5. CASE \E f \in FdsOf("1.0") : V10!RecvError(f)
  BY <1>5, RecvError10 DEF Wronged10
<1>6. CASE \E f \in FdsOf("1.0") : V10!RecvEnd(f)
  BY <1>6, RecvEnd10 DEF Wronged10
<1>7. CASE \E f \in FdsOf("1.0") : V10!RecvData(f)
  BY <1>7, RecvData10 DEF Wronged10
<1>8. QED
  BY <1>1, <1>2, <1>3, <1>4, <1>5, <1>6, <1>7 DEF V10!Next, V10!LoopStep

-----------------------------------------------------------------------------
(* v1.1 *)

(* An event that waits in the batch is of an open connection with something   *)
(* to read, or of the listening socket with someone in its queue.             *)
Inv11 ==
    /\ N11!NetInv
    /\ pc \in {"wait", "batch", "dead"}
    /\ batch \subseteq FdsOf("1.1") \cup {0}
    /\ history \in [PeersOf("1.1") -> N11!Bytes]
    /\ 0 \in batch => backlog # <<>>
    /\ \A f \in batch : f # 0 => N11!HasEvent(f)
    /\ N11!Whole => N11!Answers(history)

LEMMA Numbered11 == N11!Numbered /\ Size["1.1"].read \in Nat \ {0}
BY SizesOf DEF N11!Numbered, Versions

(* The kernel's operators are the same ones. *)
LEMMA Same11 ==
    /\ V11!NetworkInit <=> N11!NetworkInit
    /\ V11!PeerStep <=> N11!PeerStep
    /\ V11!UsedFds = N11!UsedFds
    /\ V11!FreeFds = N11!FreeFds
    /\ V11!LowestFree = N11!LowestFree
    /\ \A f : V11!Owner(f) = N11!Owner(f)
    /\ \A s : V11!Readable(s) <=> N11!Readable(s)
    /\ \A f, n : V11!Received(f, n) = N11!Received(f, n)
    /\ \A f : V11!Accepted(f) = N11!Accepted(f)
    /\ \A f, s : V11!Closing(f, s) = N11!Closing(f, s)
    /\ \A s, n : V11!AfterRecv(s, n) = N11!AfterRecv(s, n)
    /\ \A s, b : V11!AfterSend(s, b) = N11!AfterSend(s, b)
    /\ \A s, b : V11!Taken(s, b) = N11!Taken(s, b)
    /\ V11!Bytes = N11!Bytes
<1>1. V11!NetworkInit <=> N11!NetworkInit
  BY DEF V11!NetworkInit, N11!NetworkInit
<1>2. V11!PeerStep <=> N11!PeerStep
  BY DEF V11!PeerStep, V11!Connect, V11!PeerSend, V11!PeerRecv, V11!PeerClose, V11!PeerReset,
         V11!Alive, N11!PeerStep, N11!Connect, N11!PeerSend, N11!PeerRecv, N11!PeerClose,
         N11!PeerReset, N11!Alive
<1>3. /\ V11!UsedFds = N11!UsedFds /\ V11!FreeFds = N11!FreeFds
      /\ V11!LowestFree = N11!LowestFree
  BY DEF V11!UsedFds, N11!UsedFds, V11!FreeFds, N11!FreeFds, V11!LowestFree, N11!LowestFree
<1>4. \A f : V11!Owner(f) = N11!Owner(f)
  BY DEF V11!Owner, N11!Owner
<1>5. \A s : V11!Readable(s) <=> N11!Readable(s)
  BY DEF V11!Readable, N11!Readable
<1>6. \A f, n : V11!Received(f, n) = N11!Received(f, n)
  BY <1>3, <1>4 DEF V11!Received, N11!Received, V11!RecvResult, N11!RecvResult
<1>7. \A f : V11!Accepted(f) = N11!Accepted(f)
  BY DEF V11!Accepted, N11!Accepted
<1>8. \A s : V11!AfterClose(s) = N11!AfterClose(s)
  BY DEF V11!AfterClose, N11!AfterClose
<1>9. \A f, s : V11!Closing(f, s) = N11!Closing(f, s)
  BY <1>3, <1>4, <1>8 DEF V11!Closing, N11!Closing
<1>10. \A s, n : V11!AfterRecv(s, n) = N11!AfterRecv(s, n)
  BY DEF V11!AfterRecv, N11!AfterRecv
<1>11. /\ \A s, b : V11!Taken(s, b) = N11!Taken(s, b)
       /\ \A s, b : V11!AfterSend(s, b) = N11!AfterSend(s, b)
  BY DEF V11!Taken, N11!Taken, V11!AfterSend, N11!AfterSend
<1>12. V11!Bytes = N11!Bytes
  BY DEF V11!Bytes, N11!Bytes
<1>13. QED
  BY <1>1, <1>2, <1>3, <1>4, <1>5, <1>6, <1>7, <1>9, <1>10, <1>11, <1>12

(* What a step means to the clients. *)
Clients11 ==
    N11!Whole => UNCHANGED <<sock, sent, history>> \/ N11!OneClientMoves(history, history')

LEMMA Init11 == ASSUME V11!Init PROVE Inv11
<1>1. N11!NetworkInit
  BY Same11 DEF V11!Init
<1>2. N11!NetInv /\ N11!Answers([p \in PeersOf("1.1") |-> <<>>])
  BY <1>1, Numbered11, N11!InitNet, N11!AnswersBegin
<1>3. <<>> \in N11!Bytes
  BY EmptySeq DEF N11!Bytes
<1>4. pc = "wait" /\ batch = {} /\ history = [p \in PeersOf("1.1") |-> <<>>]
  BY DEF V11!Init
<1>5. QED
  BY <1>2, <1>3, <1>4 DEF Inv11

LEMMA Taken11 ==
    ASSUME Inv11, NEW f, V11!Take(f)
    PROVE  f \in batch /\ pc = "batch" /\ batch' = batch \ {f}
BY DEF V11!Take

LEMMA Poll11 == ASSUME Inv11, V11!Poll PROVE Inv11' /\ Clients11
<1>1. /\ UNCHANGED N11!network /\ pc' = "batch" /\ history' = history
      /\ batch' = {f \in V11!Registered : V11!Ready(f)}
  BY DEF V11!Poll, V11!network, N11!network
<1>2. \A f \in batch' : \/ f # 0 /\ f \in N11!UsedFds /\ N11!Readable(sock[N11!Owner(f)])
                        \/ f = 0 /\ backlog # <<>>
  BY <1>1, Same11 DEF V11!Registered, V11!Ready, V11!serverSock
<1>3. N11!UsedFds \subseteq FdsOf("1.1")
  BY N11!OwnerIs DEF Inv11, N11!NetInv, N11!OwnersKnown
<1>4. backlog' = backlog /\ sock' = sock /\ sent' = sent
  BY <1>1 DEF N11!network
<1>5. \A f \in batch' : f # 0 => N11!HasEvent(f)'
  BY <1>1, <1>2, N11!NetworkStays DEF N11!HasEvent
<1>6. N11!NetInv' /\ (N11!Whole => N11!Answers(history)')
  BY <1>1, N11!NetworkStays DEF Inv11
<1>7. QED
  BY <1>1, <1>2, <1>3, <1>4, <1>5, <1>6 DEF Inv11, Clients11

LEMMA EndBatch11 == ASSUME Inv11, V11!EndBatch PROVE Inv11' /\ Clients11
<1>1. UNCHANGED N11!network /\ pc' = "wait" /\ batch' = {} /\ history' = history
  BY DEF V11!EndBatch, V11!network, N11!network
<1>2. N11!NetInv' /\ (N11!Whole => N11!Answers(history)')
  BY <1>1, N11!NetworkStays DEF Inv11
<1>3. QED
  BY <1>1, <1>2 DEF Inv11, Clients11, N11!network

LEMMA Die11 == ASSUME Inv11, NEW f, V11!Take(f), V11!Die PROVE Inv11' /\ Clients11
<1>1. UNCHANGED N11!network /\ pc' = "dead" /\ batch' \subseteq batch /\ history' = history
  BY DEF V11!Die, V11!Take, V11!network, N11!network
<1>2. backlog' = backlog
  BY <1>1 DEF N11!network
<1>3. /\ N11!NetInv' /\ (N11!Whole => N11!Answers(history)')
      /\ \A g \in batch' : g # 0 => N11!HasEvent(g)'
  BY <1>1, N11!NetworkStays DEF Inv11
<1>4. QED
  BY <1>1, <1>2, <1>3 DEF Inv11, Clients11, N11!network

LEMMA Accept11 == ASSUME Inv11, V11!Accept PROVE Inv11' /\ Clients11
<1>1. 0 \in batch /\ pc = "batch" /\ batch' = batch \ {0} /\ V11!Take(0)
  BY Taken11 DEF V11!Accept, V11!serverSock
<1>2. CASE N11!FreeFds = {}
  <2>1. V11!Die
    BY <1>2, Same11 DEF V11!Accept, V11!AcceptFails
  <2>2. QED
    BY <1>1, <2>1, Die11
<1>3. CASE N11!FreeFds # {}
  <2>1. /\ sock' = N11!Accepted(N11!LowestFree)
        /\ backlog' = Tail(backlog) /\ sent' = sent /\ pc' = pc /\ history' = history
    BY <1>3, Same11 DEF V11!Accept, V11!AcceptFails
  <2>2. backlog # <<>>
    BY <1>1 DEF Inv11
  <2>3. /\ N11!NetInv'
        /\ \A f : N11!HasEvent(f) => N11!HasEvent(f)'
        /\ \A h \in [PeersOf("1.1") -> N11!Bytes] : N11!Answers(h) => N11!Answers(h)'
        /\ \A h : N11!OneClientMoves(h, h)
    BY <1>3, <2>1, <2>2, Numbered11, N11!AcceptOn, N11!AcceptClients DEF Inv11
  <2>4. N11!Whole => N11!Answers(history)'
    BY <2>1, <2>3 DEF Inv11
  <2>5. Clients11
    BY <2>1, <2>3 DEF Clients11
  <2>6. QED
    BY <1>1, <2>1, <2>3, <2>4, <2>5 DEF Inv11
<1>4. QED
  BY <1>2, <1>3

LEMMA RecvClose11 == ASSUME Inv11, NEW f, V11!RecvClose(f) PROVE Inv11' /\ Clients11
<1>1. f \in batch /\ f # 0 /\ batch' = batch \ {f} /\ N11!HasEvent(f) /\ f \in N11!UsedFds
  BY Taken11 DEF V11!RecvClose, V11!serverSock, Inv11, N11!HasEvent
<1>2. /\ N11!RecvResult(sock[N11!Owner(f)], Size["1.1"].read) <= 0
      /\ sock' = N11!Closing(f, sock)
      /\ backlog' = backlog /\ sent' = sent /\ pc' = pc /\ history' = history
  BY <1>1, Same11 DEF V11!RecvClose, V11!Ends, N11!Received
<1>3. N11!NetInv /\ N11!Numbered /\ Size["1.1"].read \in Nat \ {0}
  BY Numbered11 DEF Inv11
<1>4. /\ N11!NetInv'
      /\ \A g : g # f /\ N11!HasEvent(g) => N11!HasEvent(g)'
      /\ \A h \in [PeersOf("1.1") -> N11!Bytes] : N11!Answers(h) => N11!Answers(h)'
  BY <1>1, <1>2, <1>3, N11!CloseOn
<1>5. \A h \in [PeersOf("1.1") -> N11!Bytes] : N11!Answers(h) => N11!OneClientMoves(h, h)
  BY <1>1, <1>2, <1>3, N11!CloseClients
<1>6. N11!Whole => N11!Answers(history)'
  BY <1>2, <1>4 DEF Inv11
<1>7. Clients11
  BY <1>2, <1>5 DEF Inv11, Clients11
<1>8. QED
  BY <1>1, <1>2, <1>4, <1>6, <1>7 DEF Inv11

LEMMA RecvEcho11 == ASSUME Inv11, NEW f, V11!RecvEcho(f) PROVE Inv11' /\ Clients11
<1>1. f \in batch /\ f # 0 /\ batch' = batch \ {f} /\ V11!Take(f) /\ f \in N11!UsedFds
  BY Taken11 DEF V11!RecvEcho, V11!serverSock, Inv11, N11!HasEvent
<1>2. PICK p, size : p = N11!Owner(f) /\ size = Size["1.1"].read
  OBVIOUS
<1>3. N11!NetInv /\ N11!Numbered /\ size \in Nat \ {0}
      /\ history \in [PeersOf("1.1") -> N11!Bytes]
  BY <1>2, Numbered11 DEF Inv11
<1>4. N11!RecvResult(sock[p], size) \in Int
  <2>1. p \in PeersOf("1.1") /\ sock[p] \in N11!SocketType
    BY <1>1, <1>2, <1>3, N11!OwnerIs DEF N11!NetInv, N11!OwnersKnown, N11!NetworkTypeOK
  <2>2. QED
    BY <1>3, <2>1, N11!RecvIs
<1>5. N11!RecvResult(sock[p], size) > 0
  BY <1>1, <1>2, <1>4, Same11 DEF V11!RecvEcho, V11!Ends, N11!Received
<1>6. \/ V11!Die
      \/ /\ sock' = [sock EXCEPT ![p] = N11!AfterReply(sock[p], size)]
         /\ history' = [history EXCEPT ![p] = @ \o N11!Reply(sock[p], size)]
         /\ backlog' = backlog /\ sent' = sent /\ pc' = pc
  BY <1>1, <1>2, Same11
     DEF V11!RecvEcho, V11!Buffer, N11!Received, N11!AfterReply, N11!Reply, N11!Got,
         N11!AfterGot
<1>7. CASE V11!Die
  BY <1>1, <1>7, Die11
<1>8. CASE /\ sock' = [sock EXCEPT ![p] = N11!AfterReply(sock[p], size)]
           /\ history' = [history EXCEPT ![p] = @ \o N11!Reply(sock[p], size)]
           /\ backlog' = backlog /\ sent' = sent /\ pc' = pc
  <2>1. /\ N11!NetInv'
        /\ \A g : g # f /\ N11!HasEvent(g) => N11!HasEvent(g)'
        /\ \A h \in [PeersOf("1.1") -> N11!Bytes] : \A k :
              k = [h EXCEPT ![p] = @ \o N11!Reply(sock[p], size)] =>
                /\ k \in [PeersOf("1.1") -> N11!Bytes]
                /\ N11!Whole /\ N11!Answers(h) => N11!Answers(k)'
    BY <1>1, <1>2, <1>3, <1>5, <1>8, N11!ReplyOn
  <2>2. N11!Whole =>
          \A h \in [PeersOf("1.1") -> N11!Bytes] : \A k :
              N11!Answers(h) /\ k = [h EXCEPT ![p] = @ \o N11!Reply(sock[p], size)] =>
                  N11!OneClientMoves(h, k)
    BY <1>1, <1>2, <1>3, <1>5, <1>8, N11!ReplyClients
  <2>3. PICK k : k = history'
    OBVIOUS
  <2>4. /\ k \in [PeersOf("1.1") -> N11!Bytes]
        /\ N11!Whole /\ N11!Answers(history) => N11!Answers(k)'
    BY <1>3, <1>8, <2>1, <2>3
  <2>5. N11!Whole => N11!Answers(history)'
    BY <2>3, <2>4 DEF Inv11
  <2>6. Inv11'
    BY <1>1, <1>8, <2>1, <2>3, <2>4, <2>5 DEF Inv11
  <2>7. N11!Whole => N11!OneClientMoves(history, k)
    BY <1>3, <1>8, <2>2, <2>3 DEF Inv11
  <2>8. Clients11
    BY <2>3, <2>7 DEF Clients11
  <2>9. QED
    BY <2>6, <2>8
<1>9. QED
  BY <1>6, <1>7, <1>8

LEMMA PeersMove11 == ASSUME Inv11, V11!PeersMove PROVE Inv11' /\ Clients11
<1>1. N11!PeerStep /\ pc' = pc /\ batch' = batch /\ history' = history
  BY Same11 DEF V11!PeersMove
<1>2. /\ N11!NetInv'
      /\ \A f : N11!HasEvent(f) => N11!HasEvent(f)'
      /\ backlog # <<>> => backlog' # <<>>
      /\ \A h \in [PeersOf("1.1") -> N11!Bytes] : N11!Answers(h) => N11!Answers(h)'
      /\ \A h : N11!Answers(h) => N11!OneClientMoves(h, h)
  BY <1>1, Numbered11, N11!PeersMoveNet, N11!PeersMoveOn, N11!PeersMoveClients DEF Inv11
<1>3. N11!Whole => N11!Answers(history)'
  BY <1>1, <1>2 DEF Inv11
<1>4. Clients11
  BY <1>1, <1>2 DEF Inv11, Clients11
<1>5. QED
  BY <1>1, <1>2, <1>3, <1>4 DEF Inv11

LEMMA Step11 == ASSUME Inv11, V11!Next PROVE Inv11' /\ Clients11
BY Poll11, Accept11, RecvClose11, RecvEcho11, EndBatch11, PeersMove11
   DEF V11!Next, V11!LoopStep

-----------------------------------------------------------------------------
(* v1.2 *)

Listens == [readCallback |-> "acceptConnection", of |-> 0]
Reads(p) == [readCallback |-> "onMessage", of |-> p]

(* The map has a channel for every open descriptor, and a pointer in the      *)
(* batch leads to one that still has its event.                               *)
Map12 ==
    /\ DOMAIN chan = N12!UsedFds \cup {0}
    /\ chan[0] = Listens
    /\ \A f \in N12!UsedFds : chan[f] = Reads(N12!Owner(f))
Pointer12(ptr) ==
    \/ ptr = <<0, 0>> /\ backlog # <<>>
    \/ \E f \in N12!UsedFds : ptr = <<f, N12!Owner(f)>> /\ N12!HasEvent(f)
Inv12 ==
    /\ N12!NetInv
    /\ pc \in {"wait", "batch", "dead"}
    /\ Map12
    /\ \A ptr \in batch : Pointer12(ptr)
    /\ history \in [PeersOf("1.2") -> N12!Bytes]
    /\ N12!Whole => N12!Answers(history)

LEMMA Numbered12 == N12!Numbered /\ Size["1.2"].read \in Nat \ {0}
BY SizesOf DEF N12!Numbered, Versions

(* The kernel's operators are the same ones. *)
LEMMA Same12 ==
    /\ V12!NetworkInit <=> N12!NetworkInit
    /\ V12!PeerStep <=> N12!PeerStep
    /\ V12!UsedFds = N12!UsedFds
    /\ V12!FreeFds = N12!FreeFds
    /\ V12!LowestFree = N12!LowestFree
    /\ \A f : V12!Owner(f) = N12!Owner(f)
    /\ \A s : V12!Readable(s) <=> N12!Readable(s)
    /\ \A f, n : V12!Received(f, n) = N12!Received(f, n)
    /\ \A f : V12!Accepted(f) = N12!Accepted(f)
    /\ \A f, s : V12!Closing(f, s) = N12!Closing(f, s)
    /\ \A s, n : V12!AfterRecv(s, n) = N12!AfterRecv(s, n)
    /\ \A s, b : V12!AfterSend(s, b) = N12!AfterSend(s, b)
    /\ \A s, b : V12!Taken(s, b) = N12!Taken(s, b)
    /\ V12!Bytes = N12!Bytes
<1>1. V12!NetworkInit <=> N12!NetworkInit
  BY DEF V12!NetworkInit, N12!NetworkInit
<1>2. V12!PeerStep <=> N12!PeerStep
  BY DEF V12!PeerStep, V12!Connect, V12!PeerSend, V12!PeerRecv, V12!PeerClose, V12!PeerReset,
         V12!Alive, N12!PeerStep, N12!Connect, N12!PeerSend, N12!PeerRecv, N12!PeerClose,
         N12!PeerReset, N12!Alive
<1>3. /\ V12!UsedFds = N12!UsedFds /\ V12!FreeFds = N12!FreeFds
      /\ V12!LowestFree = N12!LowestFree
  BY DEF V12!UsedFds, N12!UsedFds, V12!FreeFds, N12!FreeFds, V12!LowestFree, N12!LowestFree
<1>4. \A f : V12!Owner(f) = N12!Owner(f)
  BY DEF V12!Owner, N12!Owner
<1>5. \A s : V12!Readable(s) <=> N12!Readable(s)
  BY DEF V12!Readable, N12!Readable
<1>6. \A f, n : V12!Received(f, n) = N12!Received(f, n)
  BY <1>3, <1>4 DEF V12!Received, N12!Received, V12!RecvResult, N12!RecvResult
<1>7. \A f : V12!Accepted(f) = N12!Accepted(f)
  BY DEF V12!Accepted, N12!Accepted
<1>8. \A s : V12!AfterClose(s) = N12!AfterClose(s)
  BY DEF V12!AfterClose, N12!AfterClose
<1>9. \A f, s : V12!Closing(f, s) = N12!Closing(f, s)
  BY <1>3, <1>4, <1>8 DEF V12!Closing, N12!Closing
<1>10. \A s, n : V12!AfterRecv(s, n) = N12!AfterRecv(s, n)
  BY DEF V12!AfterRecv, N12!AfterRecv
<1>11. /\ \A s, b : V12!Taken(s, b) = N12!Taken(s, b)
       /\ \A s, b : V12!AfterSend(s, b) = N12!AfterSend(s, b)
  BY DEF V12!Taken, N12!Taken, V12!AfterSend, N12!AfterSend
<1>12. V12!Bytes = N12!Bytes
  BY DEF V12!Bytes, N12!Bytes
<1>13. QED
  BY <1>1, <1>2, <1>3, <1>4, <1>5, <1>6, <1>7, <1>9, <1>10, <1>11, <1>12

(* What a step means to the clients. *)
Clients12 ==
    N12!Whole => UNCHANGED <<sock, sent, history>> \/ N12!OneClientMoves(history, history')

LEMMA Init12 == ASSUME V12!Init PROVE Inv12
<1>1. N12!NetworkInit
  BY Same12 DEF V12!Init
<1>2. N12!NetInv /\ N12!Answers([p \in PeersOf("1.2") |-> <<>>])
  BY <1>1, Numbered12, N12!InitNet, N12!AnswersBegin
<1>3. <<>> \in N12!Bytes
  BY EmptySeq DEF N12!Bytes
<1>4. /\ pc = "wait" /\ batch = {} /\ history = [p \in PeersOf("1.2") |-> <<>>]
      /\ chan = [f \in {0} |-> Listens]
  BY DEF V12!Init, V12!serverSock, Listens
<1>5. N12!UsedFds = {}
  BY <1>1 DEF N12!UsedFds, N12!NetworkInit
<1>6. Map12
  BY <1>4, <1>5 DEF Map12
<1>7. QED
  BY <1>2, <1>3, <1>4, <1>6 DEF Inv12

(* Nothing happens to the sockets. *)
LEMMA Quiet12 ==
    ASSUME Inv12, UNCHANGED <<N12!network, history>>
    PROVE  /\ N12!NetInv' /\ (N12!Whole => N12!Answers(history)') /\ Clients12
           /\ history' \in [PeersOf("1.2") -> N12!Bytes]
           /\ chan' = chan => Map12'
           /\ \A ptr : Pointer12(ptr) => Pointer12(ptr)'
<1>1. sock' = sock /\ backlog' = backlog /\ sent' = sent /\ history' = history
  BY DEF N12!network
<1>2. N12!NetInv' /\ (N12!Whole => N12!Answers(history)')
  BY N12!NetworkStays DEF Inv12
<1>3. chan' = chan => Map12'
  BY N12!NetworkStays DEF Inv12, Map12
<1>4. ASSUME NEW ptr, Pointer12(ptr) PROVE Pointer12(ptr)'
  BY <1>1, <1>4, N12!NetworkStays DEF Pointer12
<1>5. QED
  BY <1>1, <1>2, <1>3, <1>4 DEF Inv12, Clients12

LEMMA UsedFds12 == ASSUME Inv12 PROVE 0 \notin N12!UsedFds /\ N12!UsedFds \subseteq FdsOf("1.2")
BY N12!OwnerIs, Numbered12 DEF Inv12, N12!NetInv, N12!OwnersKnown, N12!Numbered

LEMMA Poll12 == ASSUME Inv12, V12!Poll PROVE Inv12' /\ Clients12
<1>1. /\ UNCHANGED <<N12!network, history>> /\ pc' = "batch"
      /\ chan' = V12!Inserted(V12!ReadyFds, V12!NoCallbacks)
      /\ batch' = {<<f, chan'[f].of>> : f \in V12!ReadyFds}
  BY DEF V12!Poll, V12!network, N12!network
<1>2. V12!ReadyFds = {f \in N12!UsedFds : N12!HasEvent(f)} \cup {f \in {0} : backlog # <<>>}
  BY Same12 DEF V12!ReadyFds, V12!serverSock, N12!HasEvent
<1>3. chan' = [f \in DOMAIN chan |-> chan[f]]
  <2>1. DOMAIN chan \cup V12!ReadyFds = DOMAIN chan
    BY <1>2 DEF Inv12, Map12
  <2>2. QED
    BY <1>1, <2>1 DEF V12!Inserted
<1>4. Map12'
  BY <1>1, <1>3, N12!NetworkStays DEF Inv12, Map12
<1>5. ASSUME NEW ptr \in batch' PROVE Pointer12(ptr)
  <2>1. PICK f \in V12!ReadyFds : ptr = <<f, chan'[f].of>>
    BY <1>1
  <2>2. chan'[f] = chan[f]
    BY <1>2, <1>3 DEF Inv12, Map12
  <2>3. CASE f \in N12!UsedFds /\ N12!HasEvent(f)
    BY <2>1, <2>2, <2>3 DEF Inv12, Map12, Pointer12, Reads
  <2>4. CASE f = 0 /\ backlog # <<>>
    BY <2>1, <2>2, <2>4 DEF Inv12, Map12, Pointer12, Listens
  <2>5. QED
    BY <1>2, <2>3, <2>4
<1>6. QED
  BY <1>1, <1>4, <1>5, Quiet12 DEF Inv12

LEMMA EndBatch12 == ASSUME Inv12, V12!EndBatch PROVE Inv12' /\ Clients12
<1>1. /\ UNCHANGED <<N12!network, history>> /\ pc' = "wait" /\ chan' = chan
      /\ batch' = {} 
  BY DEF V12!EndBatch, V12!network, N12!network
<1>2. QED
  BY <1>1, Quiet12 DEF Inv12

LEMMA Die12 == ASSUME Inv12, batch' \subseteq batch, V12!Die PROVE Inv12' /\ Clients12
<1>1. UNCHANGED <<N12!network, history>> /\ pc' = "dead" /\ chan' = chan
  BY DEF V12!Die, V12!network, N12!network
<1>2. QED
  BY <1>1, Quiet12 DEF Inv12

LEMMA Accept12 ==
    ASSUME Inv12, NEW ptr \in batch, ptr = <<0, 0>>, pc = "batch", batch' = batch \ {ptr},
           V12!AcceptConnection
    PROVE  Inv12' /\ Clients12
<1>1. CASE N12!FreeFds = {}
  <2>1. V12!Die
    BY <1>1, Same12 DEF V12!AcceptConnection, V12!AcceptFails
  <2>2. QED
    BY <2>1, Die12
<1>2. CASE N12!FreeFds # {}
  <2>1. /\ sock' = N12!Accepted(N12!LowestFree)
        /\ backlog' = Tail(backlog) /\ sent' = sent /\ pc' = pc /\ history' = history
        /\ chan' = V12!Inserted({N12!LowestFree}, Reads(Head(backlog)))
    BY <1>2, Same12 DEF V12!AcceptConnection, V12!AcceptFails, V12!RegisterFd, Reads
  <2>2. PICK l, b : l = N12!LowestFree /\ b = Head(backlog)
    OBVIOUS
  <2>3. backlog # <<>> /\ 0 \notin N12!UsedFds
    BY UsedFds12 DEF Inv12, Pointer12
  <2>4. /\ N12!NetInv' /\ l \in FdsOf("1.2") /\ l \notin N12!UsedFds
        /\ N12!UsedFds' = N12!UsedFds \cup {l}
        /\ \A g \in N12!UsedFds : N12!Owner(g)' = N12!Owner(g)
        /\ N12!Owner(l)' = b
    BY <1>2, <2>1, <2>2, <2>3, Numbered12, N12!AcceptIs DEF Inv12
  <2>5. /\ \A f : N12!HasEvent(f) => N12!HasEvent(f)'
        /\ \A h \in [PeersOf("1.2") -> N12!Bytes] : N12!Answers(h) => N12!Answers(h)'
        /\ \A h : N12!OneClientMoves(h, h)
    BY <1>2, <2>1, <2>3, Numbered12, N12!AcceptOn, N12!AcceptClients DEF Inv12
  <2>6. l # 0
    BY <2>4, Numbered12 DEF N12!Numbered
  <2>7. /\ DOMAIN chan' = DOMAIN chan \cup {l} /\ chan'[l] = Reads(b)
        /\ \A f \in DOMAIN chan : chan'[f] = chan[f]
    BY <2>1, <2>2, <2>4, <2>6 DEF V12!Inserted, Inv12, Map12
  <2>8. Map12'
    BY <2>4, <2>7 DEF Inv12, Map12
  <2>9. ASSUME NEW x \in batch' PROVE Pointer12(x)'
    <3>1. x # <<0, 0>> /\ Pointer12(x)
      BY DEF Inv12
    <3>2. QED
      BY <2>4, <2>5, <3>1 DEF Pointer12
  <2>10. N12!Whole => N12!Answers(history)'
    BY <2>1, <2>5 DEF Inv12
  <2>11. Clients12
    BY <2>1, <2>5 DEF Clients12
  <2>12. QED
    BY <2>1, <2>4, <2>8, <2>9, <2>10, <2>11 DEF Inv12
<1>3. QED
  BY <1>1, <1>2

LEMMA OnMessage12 ==
    ASSUME Inv12, NEW f \in N12!UsedFds, NEW ptr, ptr = <<f, N12!Owner(f)>>, N12!HasEvent(f),
           pc = "batch", batch' = batch \ {ptr}, V12!OnMessage(f)
    PROVE  Inv12' /\ Clients12
<1>1. PICK p, size : p = N12!Owner(f) /\ size = Size["1.2"].read
  OBVIOUS
<1>2. N12!NetInv /\ N12!Numbered /\ size \in Nat \ {0}
      /\ history \in [PeersOf("1.2") -> N12!Bytes]
  BY <1>1, Numbered12 DEF Inv12
<1>3. ASSUME NEW x \in batch'
      PROVE  \/ x = <<0, 0>> /\ backlog # <<>>
             \/ \E g \in N12!UsedFds : x = <<g, N12!Owner(g)>> /\ N12!HasEvent(g) /\ g # f
  BY DEF Inv12, Pointer12
<1>4. \/ /\ N12!RecvResult(sock[p], size) <= 0
         /\ chan' = V12!Erase(f) /\ sock' = N12!Closing(f, sock)
         /\ backlog' = backlog /\ sent' = sent /\ pc' = pc /\ history' = history
      \/ V12!Die
      \/ /\ ~(N12!RecvResult(sock[p], size) <= 0)
         /\ sock' = [sock EXCEPT ![p] = N12!AfterReply(sock[p], size)]
         /\ history' = [history EXCEPT ![p] = @ \o N12!Reply(sock[p], size)]
         /\ backlog' = backlog /\ sent' = sent /\ pc' = pc /\ chan' = chan
  BY <1>1, Same12
     DEF V12!OnMessage, V12!Buffer, N12!Received, N12!AfterReply, N12!Reply, N12!Got,
         N12!AfterGot
<1>5. CASE V12!Die
  BY <1>5, Die12
<1>6. CASE /\ N12!RecvResult(sock[p], size) <= 0
           /\ chan' = V12!Erase(f) /\ sock' = N12!Closing(f, sock)
           /\ backlog' = backlog /\ sent' = sent /\ pc' = pc /\ history' = history
  <2>1. /\ N12!NetInv'
        /\ N12!UsedFds' = N12!UsedFds \ {f}
        /\ \A g \in N12!UsedFds' : N12!Owner(g)' = N12!Owner(g)
        /\ \A g : g # f /\ N12!HasEvent(g) => N12!HasEvent(g)'
        /\ \A h \in [PeersOf("1.2") -> N12!Bytes] : N12!Answers(h) => N12!Answers(h)'
    BY <1>2, <1>6, N12!CloseOn
  <2>2. \A h \in [PeersOf("1.2") -> N12!Bytes] : N12!Answers(h) => N12!OneClientMoves(h, h)
    BY <1>1, <1>2, <1>6, N12!CloseClients
  <2>3. Map12'
    <3>1. f # 0
      BY UsedFds12
    <3>2. DOMAIN chan' = DOMAIN chan \ {f} /\ \A g \in DOMAIN chan \ {f} : chan'[g] = chan[g]
      BY <1>6 DEF V12!Erase
    <3>3. QED
      BY <2>1, <3>1, <3>2 DEF Inv12, Map12
  <2>4. ASSUME NEW x \in batch' PROVE Pointer12(x)'
    BY <1>3, <1>6, <2>1 DEF Pointer12
  <2>5. N12!Whole => N12!Answers(history)'
    BY <1>2, <1>6, <2>1 DEF Inv12
  <2>6. Clients12
    BY <1>2, <1>6, <2>2 DEF Inv12, Clients12
  <2>7. QED
    BY <1>2, <1>6, <2>1, <2>3, <2>4, <2>5, <2>6 DEF Inv12
<1>7. CASE /\ ~(N12!RecvResult(sock[p], size) <= 0)
           /\ sock' = [sock EXCEPT ![p] = N12!AfterReply(sock[p], size)]
           /\ history' = [history EXCEPT ![p] = @ \o N12!Reply(sock[p], size)]
           /\ backlog' = backlog /\ sent' = sent /\ pc' = pc /\ chan' = chan
  <2>1. N12!RecvResult(sock[p], size) > 0
    <3>1. p \in PeersOf("1.2") /\ sock[p] \in N12!SocketType
      BY <1>1, <1>2, N12!OwnerIs DEF N12!NetInv, N12!OwnersKnown, N12!NetworkTypeOK
    <3>2. N12!RecvResult(sock[p], size) \in Int
      BY <1>2, <3>1, N12!RecvIs
    <3>3. QED
      BY <1>7, <3>2
  <2>2. /\ N12!NetInv'
        /\ N12!UsedFds' = N12!UsedFds
        /\ \A g \in N12!UsedFds : N12!Owner(g)' = N12!Owner(g)
        /\ \A g : g # f /\ N12!HasEvent(g) => N12!HasEvent(g)'
        /\ \A h \in [PeersOf("1.2") -> N12!Bytes] : \A k :
              k = [h EXCEPT ![p] = @ \o N12!Reply(sock[p], size)] =>
                /\ k \in [PeersOf("1.2") -> N12!Bytes]
                /\ N12!Whole /\ N12!Answers(h) => N12!Answers(k)'
    BY <1>1, <1>2, <1>7, <2>1, N12!ReplyOn
  <2>3. N12!Whole =>
          \A h \in [PeersOf("1.2") -> N12!Bytes] : \A k :
              N12!Answers(h) /\ k = [h EXCEPT ![p] = @ \o N12!Reply(sock[p], size)] =>
                  N12!OneClientMoves(h, k)
    BY <1>1, <1>2, <1>7, <2>1, N12!ReplyClients
  <2>4. PICK k : k = history'
    OBVIOUS
  <2>5. /\ k \in [PeersOf("1.2") -> N12!Bytes]
        /\ N12!Whole /\ N12!Answers(history) => N12!Answers(k)'
    BY <1>2, <1>7, <2>2, <2>4
  <2>6. N12!Whole => N12!Answers(history)'
    BY <2>4, <2>5 DEF Inv12
  <2>7. Map12'
    BY <1>7, <2>2 DEF Inv12, Map12
  <2>8. ASSUME NEW x \in batch' PROVE Pointer12(x)'
    BY <1>3, <1>7, <2>2 DEF Pointer12
  <2>9. N12!Whole => N12!OneClientMoves(history, k)
    BY <1>2, <1>7, <2>3, <2>4 DEF Inv12
  <2>10. Clients12
    BY <2>4, <2>9 DEF Clients12
  <2>11. QED
    BY <1>7, <2>2, <2>4, <2>5, <2>6, <2>7, <2>8, <2>10 DEF Inv12
<1>8. QED
  BY <1>4, <1>5, <1>6, <1>7

LEMMA HandleEvents12 ==
    ASSUME Inv12, NEW ptr \in batch, V12!HandleEvents(ptr)
    PROVE  Inv12' /\ Clients12
<1>1. pc = "batch" /\ batch' = batch \ {ptr} /\ Pointer12(ptr)
  BY DEF V12!HandleEvents, Inv12
<1>2. CASE ptr = <<0, 0>>
  <2>1. chan[ptr[1]].readCallback = "acceptConnection"
    BY <1>2 DEF Inv12, Map12, Listens
  <2>2. V12!AcceptConnection
    BY <2>1 DEF V12!HandleEvents
  <2>3. QED
    BY <1>1, <1>2, <2>2, Accept12
<1>3. ASSUME NEW f \in N12!UsedFds, ptr = <<f, N12!Owner(f)>>, N12!HasEvent(f)
      PROVE  Inv12' /\ Clients12
  <2>1. chan[ptr[1]].readCallback = "onMessage" /\ ptr[1] = f
    BY <1>3 DEF Inv12, Map12, Reads
  <2>2. V12!OnMessage(f)
    BY <2>1 DEF V12!HandleEvents
  <2>3. QED
    BY <1>1, <1>3, <2>2, OnMessage12
<1>4. QED
  BY <1>1, <1>2, <1>3 DEF Pointer12

LEMMA PeersMove12 == ASSUME Inv12, V12!PeersMove PROVE Inv12' /\ Clients12
<1>1. N12!PeerStep /\ pc' = pc /\ batch' = batch /\ history' = history /\ chan' = chan
  BY Same12 DEF V12!PeersMove
<1>2. /\ N12!NetInv'
      /\ N12!UsedFds' = N12!UsedFds
      /\ \A f \in N12!UsedFds : N12!Owner(f)' = N12!Owner(f)
      /\ \A f : N12!HasEvent(f) => N12!HasEvent(f)'
      /\ backlog # <<>> => backlog' # <<>>
      /\ \A h \in [PeersOf("1.2") -> N12!Bytes] : N12!Answers(h) => N12!Answers(h)'
      /\ \A h : N12!Answers(h) => N12!OneClientMoves(h, h)
  BY <1>1, Numbered12, N12!PeersMoveNet, N12!PeersMoveOn, N12!PeersMoveClients DEF Inv12
<1>3. N12!Whole => N12!Answers(history)'
  BY <1>1, <1>2 DEF Inv12
<1>4. Clients12
  BY <1>1, <1>2 DEF Inv12, Clients12
<1>5. Map12'
  BY <1>1, <1>2 DEF Inv12, Map12
<1>6. ASSUME NEW x \in batch' PROVE Pointer12(x)'
  BY <1>1, <1>2 DEF Inv12, Pointer12
<1>7. QED
  BY <1>1, <1>2, <1>3, <1>4, <1>5, <1>6 DEF Inv12

LEMMA Step12 == ASSUME Inv12, V12!Next PROVE Inv12' /\ Clients12
BY Poll12, HandleEvents12, EndBatch12, PeersMove12 DEF V12!Next, V12!LoopStep

-----------------------------------------------------------------------------
(* v1.1 and v1.2 are echo services. *)

View(p) == <<status[p], said[p], answer[p], ended[p]>>

LEMMA Unseen ==
    ASSUME NEW p \in EchoClients, ~(Answered /\ p \in PeersOf(version))
    PROVE  View(p) = <<"away", <<>>, <<>>, "no">>
BY DEF View, status, said, answer, ended, At

LEMMA UnseenThen ==
    ASSUME NEW p \in EchoClients, ~(Answered' /\ p \in PeersOf(version)')
    PROVE  View(p)' = <<"away", <<>>, <<>>, "no">>
BY DEF View, status, said, answer, ended, At

LEMMA Seen ==
    ASSUME Answered, NEW p \in PeersOf(version)
    PROVE  /\ p \in EchoClients
           /\ sock[p].at = "away" => View(p) = <<"away", <<>>, <<>>, "no">>
           /\ sock[p].at = "queued" =>
                 View(p) = <<"waiting", N11!UpTo(sent[p]), history[p], N11!Mood(sock[p])>>
           /\ sock[p].at = "open" =>
                 View(p) = <<"served", N11!UpTo(sent[p]), history[p], N11!Mood(sock[p])>>
           /\ sock[p].at = "closed" =>
                 View(p) = <<"closed", N11!UpTo(sent[p]), history[p], N11!Mood(sock[p])>>
<1>1. p \in EchoClients /\ At(p) = sock[p].at
  BY DEF Answered, EchoClients, At, Versions
<1>2. status[p] = CASE sock[p].at = "queued" -> "waiting"
                    [] sock[p].at = "open" -> "served"
                    [] OTHER -> sock[p].at
  BY <1>1 DEF status
<1>3. said[p] = IF sock[p].at # "away" THEN N11!UpTo(sent[p]) ELSE <<>>
  BY <1>1 DEF said, N11!UpTo
<1>4. answer[p] = IF sock[p].at # "away" THEN history[p] ELSE <<>>
  BY <1>1 DEF answer
<1>5. ended[p] = IF sock[p].at = "away" THEN "no" ELSE N11!Mood(sock[p])
  BY <1>1 DEF ended, N11!Mood
<1>6. QED
  BY <1>1, <1>2, <1>3, <1>4, <1>5 DEF View

(* The same of the next state. *)
LEMMA SeenThen ==
    ASSUME Answered', NEW p \in PeersOf(version)'
    PROVE  /\ p \in EchoClients
           /\ sock'[p].at = "away" => View(p)' = <<"away", <<>>, <<>>, "no">>
           /\ sock'[p].at = "queued" =>
                 View(p)' = <<"waiting", N11!UpTo(sent'[p]), history'[p], N11!Mood(sock'[p])>>
           /\ sock'[p].at = "open" =>
                 View(p)' = <<"served", N11!UpTo(sent'[p]), history'[p], N11!Mood(sock'[p])>>
           /\ sock'[p].at = "closed" =>
                 View(p)' = <<"closed", N11!UpTo(sent'[p]), history'[p], N11!Mood(sock'[p])>>
<1>1. p \in EchoClients /\ At(p)' = sock'[p].at
  BY DEF Answered, EchoClients, At, Versions
<1>2. status'[p] = CASE sock'[p].at = "queued" -> "waiting"
                     [] sock'[p].at = "open" -> "served"
                     [] OTHER -> sock'[p].at
  BY <1>1 DEF status
<1>3. said'[p] = IF sock'[p].at # "away" THEN N11!UpTo(sent'[p]) ELSE <<>>
  BY <1>1 DEF said, N11!UpTo
<1>4. answer'[p] = IF sock'[p].at # "away" THEN history'[p] ELSE <<>>
  BY <1>1 DEF answer
<1>5. ended'[p] = IF sock'[p].at = "away" THEN "no" ELSE N11!Mood(sock'[p])
  BY <1>1 DEF ended, N11!Mood
<1>6. QED
  BY <1>1, <1>2, <1>3, <1>4, <1>5 DEF View

(* A step that changes what is seen of one client. *)
LEMMA ViewChange ==
    ASSUME NEW p \in EchoClients, \A q \in EchoClients \ {p} : View(q)' = View(q)
    PROVE  /\ status' = [status EXCEPT ![p] = status'[p]]
           /\ said' = [said EXCEPT ![p] = said'[p]]
           /\ answer' = [answer EXCEPT ![p] = answer'[p]]
           /\ ended' = [ended EXCEPT ![p] = ended'[p]]
           /\ status'[p] = status[p] => status' = status
           /\ said'[p] = said[p] => said' = said
           /\ answer'[p] = answer[p] => answer' = answer
           /\ ended'[p] = ended[p] => ended' = ended
<1>1. \A q \in EchoClients \ {p} :
         /\ status'[q] = status[q] /\ said'[q] = said[q]
         /\ answer'[q] = answer[q] /\ ended'[q] = ended[q]
  BY DEF View
<1>2. /\ status = [q \in EchoClients |-> status[q]] /\ status' = [q \in EchoClients |-> status'[q]]
      /\ said = [q \in EchoClients |-> said[q]] /\ said' = [q \in EchoClients |-> said'[q]]
      /\ answer = [q \in EchoClients |-> answer[q]] /\ answer' = [q \in EchoClients |-> answer'[q]]
      /\ ended = [q \in EchoClients |-> ended[q]] /\ ended' = [q \in EchoClients |-> ended'[q]]
  BY DEF status, said, answer, ended
<1> HIDE DEF status, said, answer, ended
<1>3. /\ status' = [status EXCEPT ![p] = status'[p]]
      /\ status'[p] = status[p] => status' = status
  BY <1>1, <1>2
<1>4. said' = [said EXCEPT ![p] = said'[p]] /\ (said'[p] = said[p] => said' = said)
  BY <1>1, <1>2
<1>5. /\ answer' = [answer EXCEPT ![p] = answer'[p]]
      /\ answer'[p] = answer[p] => answer' = answer
  BY <1>1, <1>2
<1>6. ended' = [ended EXCEPT ![p] = ended'[p]] /\ (ended'[p] = ended[p] => ended' = ended)
  BY <1>1, <1>2
<1>7. QED
  BY <1>3, <1>4, <1>5, <1>6

ServiceChange == Service!Next \/ UNCHANGED Service!serviceVars

LEMMA OthersSeen ==
    ASSUME version \in {"1.1", "1.2"}, version' = version,
           NEW p \in PeersOf(version),
           \A q \in PeersOf(version) : sock[q].at \in {"away", "queued", "open", "closed"},
           \A q \in PeersOf(version) \ {p} : N11!ClientStays(q, history[q], history'[q])
    PROVE  \A q \in EchoClients \ {p} : View(q)' = View(q)
<1>1. Answered /\ Answered'
  BY DEF Answered
<1>2. ASSUME NEW q \in EchoClients \ {p}, q \notin PeersOf(version) PROVE View(q)' = View(q)
  BY <1>2, Unseen, UnseenThen
<1>3. ASSUME NEW q \in PeersOf(version) \ {p} PROVE View(q)' = View(q)
  <2>1. /\ sock'[q].at = sock[q].at /\ N11!Mood(sock'[q]) = N11!Mood(sock[q])
        /\ sent'[q] = sent[q] /\ history'[q] = history[q]
    BY DEF N11!ClientStays
  <2>2. sock[q].at \in {"away", "queued", "open", "closed"}
    OBVIOUS
  <2>3. QED
    BY <1>1, <2>1, <2>2, Seen, SeenThen
<1>4. QED
  BY <1>2, <1>3

LEMMA FirstOfUpTo ==
    ASSUME NEW n \in Nat, NEW k \in 0..n
    PROVE  SubSeq(N11!UpTo(n), 1, k) = N11!UpTo(k)
<1>1. N11!UpTo(n) \in Seq(Nat \ {0}) /\ Len(N11!UpTo(n)) = n
  BY N11!UpToIs DEF N11!Bytes
<1>2. N11!UpTo(k) \in Seq(Nat \ {0}) /\ Len(N11!UpTo(k)) = k
  BY N11!UpToIs DEF N11!Bytes
<1> DEFINE s == SubSeq(N11!UpTo(n), 1, k)
<1>3. /\ s \in Seq(Nat \ {0}) /\ Len(s) = k
      /\ \A i \in 1..k : s[i] = N11!UpTo(n)[i]
  BY <1>1, SubSeqProperties
<1>4. \A i \in 1..k : s[i] = N11!UpTo(k)[i]
  BY <1>3 DEF N11!UpTo
<1> HIDE DEF s
<1>5. s = N11!UpTo(k)
  BY <1>2, <1>3, <1>4, SeqEqual
<1>6. QED
  BY <1>5 DEF s

LEMMA ServiceStep ==
    ASSUME version \in {"1.1", "1.2"}, version' = version,
           NEW p \in PeersOf(version), sent[p] \in Nat, Len(history[p]) \in Nat,
           \A q \in PeersOf(version) : sock[q].at \in {"away", "queued", "open", "closed"},
           \/ N11!ClientStays(p, history[p], history'[p])
           \/ N11!ClientPeers(p, history[p], history'[p])
           \/ N11!ClientServed(p, history[p], history'[p]),
           \A q \in PeersOf(version) \ {p} : N11!ClientStays(q, history[q], history'[q])
    PROVE  ServiceChange
<1> DEFINE a == sock[p].at
           a2 == sock'[p].at
           m == N11!Mood(sock[p])
           m2 == N11!Mood(sock'[p])
           n == sent[p]
           h == history[p]
           h2 == history'[p]
<1>1. Answered /\ Answered' /\ PeersOf(version)' = PeersOf(version) /\ p \in EchoClients
  BY Seen DEF Answered
<1>2. \A q \in EchoClients \ {p} : View(q)' = View(q)
  BY OthersSeen
<1>3. /\ status' = [status EXCEPT ![p] = status'[p]]
      /\ said' = [said EXCEPT ![p] = said'[p]]
      /\ answer' = [answer EXCEPT ![p] = answer'[p]]
      /\ ended' = [ended EXCEPT ![p] = ended'[p]]
      /\ status'[p] = status[p] => status' = status
      /\ said'[p] = said[p] => said' = said
      /\ answer'[p] = answer[p] => answer' = answer
      /\ ended'[p] = ended[p] => ended' = ended
  BY <1>1, <1>2, ViewChange
<1>4. /\ a = "away" => View(p) = <<"away", <<>>, <<>>, "no">>
      /\ a = "queued" => View(p) = <<"waiting", N11!UpTo(n), h, m>>
      /\ a = "open" => View(p) = <<"served", N11!UpTo(n), h, m>>
      /\ a = "closed" => View(p) = <<"closed", N11!UpTo(n), h, m>>
  BY <1>1, Seen
<1>5. /\ a2 = "away" => View(p)' = <<"away", <<>>, <<>>, "no">>
      /\ a2 = "queued" => View(p)' = <<"waiting", N11!UpTo(sent'[p]), h2, m2>>
      /\ a2 = "open" => View(p)' = <<"served", N11!UpTo(sent'[p]), h2, m2>>
      /\ a2 = "closed" => View(p)' = <<"closed", N11!UpTo(sent'[p]), h2, m2>>
  BY <1>1, SeenThen
<1>6. a \in {"away", "queued", "open", "closed"}
  OBVIOUS
<1>7. /\ \A w, x, y, z : View(p) = <<w, x, y, z>> =>
            status[p] = w /\ said[p] = x /\ answer[p] = y /\ ended[p] = z
      /\ \A w, x, y, z : View(p)' = <<w, x, y, z>> =>
            status'[p] = w /\ said'[p] = x /\ answer'[p] = y /\ ended'[p] = z
  BY DEF View
<1> HIDE DEF a, a2, m, m2, n, h, h2
<1>8. CASE N11!ClientStays(p, history[p], history'[p])
  <2>1. a2 = a /\ m2 = m /\ sent'[p] = n /\ h2 = h
    BY <1>8 DEF N11!ClientStays, a, a2, m, m2, n, h, h2
  <2>2. View(p)' = View(p)
    BY <1>4, <1>5, <1>6, <2>1
  <2>3. UNCHANGED Service!serviceVars
    BY <1>3, <2>2 DEF View, Service!serviceVars
  <2>4. QED
    BY <2>3 DEF ServiceChange
<1>9. CASE /\ h2 = h /\ a = "away" /\ a2 = "queued" /\ h = <<>>
           /\ n = 0 /\ sent'[p] = 0 /\ m2 = "no"
  <2>1. status[p] = "away" /\ said[p] = <<>> /\ answer[p] = <<>> /\ ended[p] = "no"
    BY <1>4, <1>7, <1>9
  <2>2. View(p)' = <<"waiting", <<>>, <<>>, "no">>
    BY <1>5, <1>9, N11!NothingSent
  <2>3. status'[p] = "waiting" /\ said'[p] = <<>> /\ answer'[p] = <<>> /\ ended'[p] = "no"
    BY <1>7, <2>2
  <2>4. Service!Arrive(p)
    BY <1>3, <2>1, <2>3 DEF Service!Arrive
  <2>5. QED
    BY <1>1, <2>4 DEF ServiceChange, Service!Next
<1>10. CASE /\ h2 = h /\ a \in {"queued", "open"} /\ a2 = a
            /\ m = "no" /\ m2 = "no" /\ sent'[p] = n + 1
  <2>1. PICK w \in {"waiting", "served"} :
           /\ View(p) = <<w, N11!UpTo(n), h, "no">>
           /\ View(p)' = <<w, N11!UpTo(n + 1), h, "no">>
    BY <1>4, <1>5, <1>10
  <2>2. /\ status[p] = w /\ said[p] = N11!UpTo(n) /\ ended[p] = "no"
        /\ status'[p] = w /\ said'[p] = N11!UpTo(n + 1) /\ answer'[p] = answer[p]
        /\ ended'[p] = "no"
    BY <1>7, <2>1
  <2>3. N11!UpTo(n + 1) = Append(N11!UpTo(n), n + 1) /\ Len(N11!UpTo(n)) = n
    BY N11!UpToNext, N11!UpToIs DEF n
  <2>4. said'[p] = Append(said[p], Len(said[p]) + 1)
    BY <2>2, <2>3
  <2>5. Service!Say(p)
    BY <1>3, <2>2, <2>4 DEF Service!Say, Service!Here
  <2>6. QED
    BY <1>1, <2>5 DEF ServiceChange, Service!Next
<1>11. CASE /\ h2 = h /\ a \in {"queued", "open"} /\ a2 = a
            /\ m \in {"no", "bye"} /\ m2 \in {"bye", "cut"} /\ m2 # m /\ sent'[p] = n
  <2>1. PICK w \in {"waiting", "served"} :
           View(p) = <<w, N11!UpTo(n), h, m>> /\ View(p)' = <<w, N11!UpTo(n), h, m2>>
    BY <1>4, <1>5, <1>11
  <2>2. /\ status[p] = w /\ ended[p] = m
        /\ status'[p] = status[p] /\ said'[p] = said[p] /\ answer'[p] = answer[p]
        /\ ended'[p] = m2
    BY <1>7, <2>1
  <2>3. Service!End(p, m2)
    BY <1>3, <1>11, <2>2 DEF Service!End, Service!Here
  <2>4. QED
    BY <1>1, <1>11, <2>3 DEF ServiceChange, Service!Next
<1>12. CASE /\ sent'[p] = n /\ m2 = m /\ a = "queued" /\ a2 = "open" /\ h2 = h
  <2>1. View(p) = <<"waiting", N11!UpTo(n), h, m>> /\ View(p)' = <<"served", N11!UpTo(n), h, m>>
    BY <1>4, <1>5, <1>12
  <2>2. /\ status[p] = "waiting" /\ status'[p] = "served"
        /\ said'[p] = said[p] /\ answer'[p] = answer[p] /\ ended'[p] = ended[p]
    BY <1>7, <2>1
  <2>3. Service!Serve(p)
    BY <1>3, <2>2 DEF Service!Serve
  <2>4. QED
    BY <1>1, <2>3 DEF ServiceChange, Service!Next
<1>13. CASE /\ sent'[p] = n /\ m2 = m /\ a = "open" /\ a2 = "open" /\ m # "cut"
            /\ \E k \in Len(h) + 1 .. n : h2 = N11!UpTo(k)
  <2>1. /\ View(p) = <<"served", N11!UpTo(n), h, m>>
        /\ View(p)' = <<"served", N11!UpTo(n), h2, m>>
    BY <1>4, <1>5, <1>13
  <2>2. /\ status[p] = "served" /\ ended[p] # "cut" /\ said[p] = N11!UpTo(n) /\ answer[p] = h
        /\ status'[p] = status[p] /\ said'[p] = said[p] /\ answer'[p] = h2
        /\ ended'[p] = ended[p]
    BY <1>7, <1>13, <2>1
  <2>3. PICK k \in Len(h) + 1 .. n : h2 = N11!UpTo(k)
    BY <1>13
  <2>4. n \in Nat /\ k \in 0..n
    BY <2>3 DEF n, h
  <2>5. Len(said[p]) = n
    BY <2>2, <2>4, N11!UpToIs
  <2>6. h2 = SubSeq(said[p], 1, k)
    BY <2>2, <2>3, <2>4, FirstOfUpTo
  <2>7. Service!Answer(p)
    BY <1>3, <2>2, <2>3, <2>5, <2>6 DEF Service!Answer
  <2>8. QED
    BY <1>1, <2>7 DEF ServiceChange, Service!Next
<1>14. CASE /\ sent'[p] = n /\ m2 = m /\ a = "open" /\ a2 = "closed" /\ h2 = h
            /\ m = "cut" \/ (m = "bye" /\ h = N11!UpTo(n))
  <2>1. View(p) = <<"served", N11!UpTo(n), h, m>> /\ View(p)' = <<"closed", N11!UpTo(n), h, m>>
    BY <1>4, <1>5, <1>14
  <2>2. /\ status[p] = "served" /\ status'[p] = "closed" /\ ended[p] = m
        /\ said[p] = N11!UpTo(n) /\ answer[p] = h
        /\ said'[p] = said[p] /\ answer'[p] = answer[p] /\ ended'[p] = ended[p]
    BY <1>7, <2>1
  <2>3. Service!LetGo(p)
    BY <1>3, <1>14, <2>2 DEF Service!LetGo
  <2>4. QED
    BY <1>1, <2>3 DEF ServiceChange, Service!Next
<1>15. CASE N11!ClientPeers(p, history[p], history'[p])
  BY <1>9, <1>10, <1>11, <1>15 DEF N11!ClientPeers, a, a2, m, m2, n, h, h2
<1>16. CASE N11!ClientServed(p, history[p], history'[p])
  BY <1>12, <1>13, <1>14, <1>16 DEF N11!ClientServed, a, a2, m, m2, n, h, h2
<1>17. QED
  BY <1>8, <1>15, <1>16

(* The clients of v1.2 move as those of v1.1 do. *)
LEMMA SameClients12 ==
    \A p, h, k :
       /\ N12!ClientStays(p, h, k) <=> N11!ClientStays(p, h, k)
       /\ N12!ClientPeers(p, h, k) <=> N11!ClientPeers(p, h, k)
       /\ N12!ClientServed(p, h, k) <=> N11!ClientServed(p, h, k)
<1>1. (\A s : N12!Mood(s) = N11!Mood(s)) /\ (\A n : N12!UpTo(n) = N11!UpTo(n))
  BY DEF N12!Mood, N11!Mood, N12!UpTo, N11!UpTo
<1>2. QED
  BY <1>1 DEF N12!ClientStays, N11!ClientStays, N12!ClientPeers, N11!ClientPeers,
              N12!ClientServed, N11!ClientServed

(* Whoever runs v1.1 or v1.2 serves. *)
LEMMA ServiceOf11 ==
    ASSUME version = "1.1", version' = version, Inv11, Clients11, N11!Whole
    PROVE  ServiceChange
<1>1. CASE UNCHANGED <<sock, sent, history>>
  BY <1>1 DEF ServiceChange, Service!serviceVars, status, said, answer, ended, At,
              Answered
<1>2. CASE N11!OneClientMoves(history, history')
  <2>1. PICK p \in PeersOf("1.1") :
           /\ \/ N11!ClientStays(p, history[p], history'[p])
              \/ N11!ClientPeers(p, history[p], history'[p])
              \/ N11!ClientServed(p, history[p], history'[p])
           /\ \A q \in PeersOf("1.1") \ {p} : N11!ClientStays(q, history[q], history'[q])
    BY <1>2 DEF N11!OneClientMoves
  <2>2. /\ \A q \in PeersOf("1.1") : sock[q].at \in {"away", "queued", "open", "closed"}
        /\ sent[p] \in Nat
    BY DEF Inv11, N11!NetInv, N11!NetworkTypeOK, N11!SocketType
  <2>3. Len(history[p]) \in Nat
    BY LenProperties DEF Inv11, N11!Bytes
  <2>4. QED
    BY <2>1, <2>2, <2>3, ServiceStep
<1>3. QED
  BY <1>1, <1>2 DEF Clients11

LEMMA ServiceOf12 ==
    ASSUME version = "1.2", version' = version, Inv12, Clients12, N12!Whole
    PROVE  ServiceChange
<1>1. CASE UNCHANGED <<sock, sent, history>>
  BY <1>1 DEF ServiceChange, Service!serviceVars, status, said, answer, ended, At,
              Answered
<1>2. CASE N12!OneClientMoves(history, history')
  <2>1. PICK p \in PeersOf("1.2") :
           /\ \/ N11!ClientStays(p, history[p], history'[p])
              \/ N11!ClientPeers(p, history[p], history'[p])
              \/ N11!ClientServed(p, history[p], history'[p])
           /\ \A q \in PeersOf("1.2") \ {p} : N11!ClientStays(q, history[q], history'[q])
    BY <1>2, SameClients12 DEF N12!OneClientMoves
  <2>2. /\ \A q \in PeersOf("1.2") : sock[q].at \in {"away", "queued", "open", "closed"}
        /\ sent[p] \in Nat
    BY DEF Inv12, N12!NetInv, N12!NetworkTypeOK, N12!SocketType
  <2>3. Len(history[p]) \in Nat
    BY LenProperties DEF Inv12, N12!Bytes
  <2>4. QED
    BY <2>1, <2>2, <2>3, ServiceStep
<1>3. QED
  BY <1>1, <1>2 DEF Clients12

(* The other versions serve nobody. *)
LEMMA NoService ==
    ASSUME version \notin {"1.1", "1.2"}, version' = version
    PROVE  UNCHANGED Service!serviceVars
BY DEF Service!serviceVars, status, said, answer, ended, Answered

LEMMA ServiceBegins ==
    ASSUME Init PROVE Service!Init
<1>1. ASSUME version = "1.1" PROVE \A p \in PeersOf("1.1") : sock[p].at = "away"
  BY <1>1 DEF Init, V11!Init, V11!NetworkInit
<1>2. ASSUME version = "1.2" PROVE \A p \in PeersOf("1.2") : sock[p].at = "away"
  BY <1>2 DEF Init, V12!Init, V12!NetworkInit
<1>3. \A p \in EchoClients : ~Answered \/ At(p) = "away"
  BY <1>1, <1>2 DEF Answered, At
<1>4. QED
  BY <1>3 DEF Service!Init, status, said, answer, ended

LEMMA Always10 == Spec => [](version = "1.0" => Inv10)
<1>1. Init => (version = "1.0" => Inv10)
  BY Init10 DEF Init
<1>2. (version = "1.0" => Inv10) /\ [Next]_vars => (version = "1.0" => Inv10)'
  <2>1. ASSUME version = "1.0", Inv10, Next PROVE Inv10'
    <3>1. V10!Next
      BY <2>1 DEF Next, Of10, Of11, Of12, Of13, Of14, Of15, OfLoop
    <3>2. QED
      BY <2>1, <3>1, Step10
  <2>2. ASSUME Inv10, UNCHANGED vars PROVE Inv10'
    <3>1. UNCHANGED <<N10!network, pc, batch, cur, history>> /\ backlog' = backlog
      BY <2>2 DEF vars, N10!network
    <3>2. QED
      BY <2>2, <3>1, N10!NetworkStays DEF Inv10
  <2>3. ASSUME Next PROVE version' = version
    BY <2>3 DEF Next, Of10, Of11, Of12, Of13, Of14, Of15, OfLoop
  <2>4. QED
    BY <2>1, <2>2, <2>3 DEF vars
<1>3. QED
  BY <1>1, <1>2, PTL DEF Spec

LEMMA Always11 == Spec => [](version = "1.1" => Inv11)
<1>1. Init => (version = "1.1" => Inv11)
  BY Init11 DEF Init
<1>2. (version = "1.1" => Inv11) /\ [Next]_vars => (version = "1.1" => Inv11)'
  <2>1. ASSUME version = "1.1", Inv11, Next PROVE Inv11'
    <3>1. V11!Next
      BY <2>1 DEF Next, Of10, Of11, Of12, Of13, Of14, Of15, OfLoop
    <3>2. QED
      BY <2>1, <3>1, Step11
  <2>2. ASSUME Inv11, UNCHANGED vars PROVE Inv11'
    <3>1. UNCHANGED <<N11!network, pc, batch, history>> /\ backlog' = backlog
      BY <2>2 DEF vars, N11!network
    <3>2. QED
      BY <2>2, <3>1, N11!NetworkStays DEF Inv11
  <2>3. ASSUME Next PROVE version' = version
    BY <2>3 DEF Next, Of10, Of11, Of12, Of13, Of14, Of15, OfLoop
  <2>4. QED
    BY <2>1, <2>2, <2>3 DEF vars
<1>3. QED
  BY <1>1, <1>2, PTL DEF Spec

LEMMA Always12 == Spec => [](version = "1.2" => Inv12)
<1>1. Init => (version = "1.2" => Inv12)
  BY Init12 DEF Init
<1>2. (version = "1.2" => Inv12) /\ [Next]_vars => (version = "1.2" => Inv12)'
  <2>1. ASSUME version = "1.2", Inv12, Next PROVE Inv12'
    <3>1. V12!Next
      BY <2>1 DEF Next, Of10, Of11, Of12, Of13, Of14, Of15, OfLoop
    <3>2. QED
      BY <2>1, <3>1, Step12
  <2>2. ASSUME Inv12, UNCHANGED vars PROVE Inv12'
    <3>1. UNCHANGED <<N12!network, history>> /\ pc' = pc /\ batch' = batch /\ chan' = chan
      BY <2>2 DEF vars, N12!network
    <3>2. QED
      BY <2>2, <3>1, Quiet12 DEF Inv12
  <2>3. ASSUME Next PROVE version' = version
    BY <2>3 DEF Next, Of10, Of11, Of12, Of13, Of14, Of15, OfLoop
  <2>4. QED
    BY <2>1, <2>2, <2>3 DEF vars
<1>3. QED
  BY <1>1, <1>2, PTL DEF Spec

(* v1.1 and v1.2 implement the echo service, as long as the kernel takes      *)
(* whole buffers: every step is one of the service's, or none of its business.*)
(* (v1.1/src/Epoller.cpp:22-67, v1.2/src/Epoller.cpp:59-92)                   *)
THEOREM ServesClients ==
    ASSUME \A v \in {"1.1", "1.2"} : Size[v].maxIn <= Size[v].sndBuf
    PROVE  Spec => ServiceSpec
<1>1. N11!Whole /\ N12!Whole
  BY DEF N11!Whole, N12!Whole
<1>2. ASSUME version = "1.1" => Inv11, version = "1.2" => Inv12, [Next]_vars
      PROVE  [Service!Next]_Service!serviceVars
  <2>1. CASE UNCHANGED vars
    BY <2>1 DEF vars, Service!serviceVars, status, said, answer, ended, At, Answered
  <2>2. CASE Next
    <3>1. version' = version
      BY <2>2 DEF Next, Of10, Of11, Of12, Of13, Of14, Of15, OfLoop
    <3>2. CASE version = "1.1"
      <4>1. V11!Next
        BY <2>2, <3>2 DEF Next, Of10, Of11, Of12, Of13, Of14, Of15, OfLoop
      <4>2. QED
        BY <1>1, <1>2, <3>1, <3>2, <4>1, Step11, ServiceOf11 DEF ServiceChange
    <3>3. CASE version = "1.2"
      <4>1. V12!Next
        BY <2>2, <3>3 DEF Next, Of10, Of11, Of12, Of13, Of14, Of15, OfLoop
      <4>2. QED
        BY <1>1, <1>2, <3>1, <3>3, <4>1, Step12, ServiceOf12 DEF ServiceChange
    <3>4. CASE version \notin {"1.1", "1.2"}
      BY <3>1, <3>4, NoService
    <3>5. QED
      BY <3>2, <3>3, <3>4
  <2>3. QED
    BY <1>2, <2>1, <2>2
<1>3. QED
  BY <1>2, Always11, Always12, ServiceBegins, PTL DEF Spec, ServiceSpec, Service!Spec

(* A connection of v1.0 whose peer neither closed nor reset it, with unread   *)
(* bytes or without, is closed only after a reset of another one, and then it *)
(* is the one accepted last: whatever the numbers of peers and descriptors,   *)
(* no older one is hit.  (v1.0/EchoServer.cpp:108-121)                        *)
THEOREM NewestIsWronged == Spec => OnlyNewestIsWronged
<1> DEFINE Wronged ==
         version = "1.0" =>
           \A p \in PeersOf("1.0") :
              At(p) = "open" /\ At(p)' = "closed" /\ ~sock[p].fin /\ ~sock[p].rst =>
                  /\ sock[p].fd = cur
                  /\ \E q \in PeersOf("1.0") \ {p} : sock[q].rst
<1>1. ASSUME version = "1.0" => Inv10, [Next]_vars PROVE Wronged \/ UNCHANGED vars
  <2>1. SUFFICES ASSUME Next, version = "1.0", NEW p \in PeersOf("1.0"),
                        At(p) = "open", At(p)' = "closed", ~sock[p].fin, ~sock[p].rst
                 PROVE  /\ sock[p].fd = cur
                        /\ \E q \in PeersOf("1.0") \ {p} : sock[q].rst
    BY <1>1 DEF Versions
  <2>2. V10!Next /\ version' = version
    BY <2>1 DEF Next, Of10, Of11, Of12, Of13, Of14, Of15, OfLoop
  <2>3. sock[p].at = "open" /\ sock'[p].at = "closed"
    BY <2>1, <2>2 DEF At, Versions
  <2>4. sock[p].fd = cur /\ N10!SomeoneReset
    BY <1>1, <2>1, <2>2, <2>3, Step10 DEF Wronged10
  <2>5. QED
    BY <2>1, <2>4 DEF N10!SomeoneReset
<1>2. QED
  BY <1>1, Always10, PTL DEF Spec, OnlyNewestIsWronged

-----------------------------------------------------------------------------
(* Channels of v1.3 to v1.5 *)

E == INSTANCE EarlyChannel

(* updateChannel() registers what events_ says, or nothing. *)
LEMMA SetEventsIs ==
    ASSUME NEW ch \in E!ChannelType, NEW X \in SUBSET E!Interest
    PROVE  /\ E!SetEvents(ch, X) \in E!ChannelType
           /\ E!SetEvents(ch, X).events = X
           /\ E!SetEvents(ch, X).revents = ch.revents
           /\ E!Mirrors(ch) =>
                 /\ E!Mirrors(E!SetEvents(ch, X))
                 /\ E!SetEvents(ch, X).added <=> (~ch.added \/ X # {})
<1> DEFINE c == [ch EXCEPT !.events = X]
           up == [c EXCEPT !.polling = TRUE]
           down == [c EXCEPT !.polling = FALSE]
<1>1. /\ c \in E!ChannelType /\ up \in E!ChannelType /\ down \in E!ChannelType
      /\ c.events = X /\ c.polling = ch.polling /\ c.added = ch.added
      /\ c.mask = ch.mask /\ c.aborted = ch.aborted /\ c.revents = ch.revents
      /\ up.events = X /\ up.polling = TRUE /\ up.added = ch.added
      /\ up.mask = ch.mask /\ up.aborted = ch.aborted /\ up.revents = ch.revents
      /\ down.events = X /\ down.polling = FALSE /\ down.added = ch.added
      /\ down.mask = ch.mask /\ down.aborted = ch.aborted /\ down.revents = ch.revents
  BY DEF E!ChannelType
<1>2. E!SetEvents(ch, X) = IF ~ch.polling THEN E!EpollCtl(up, "ADD")
                           ELSE IF X # {} THEN E!EpollCtl(c, "MOD")
                           ELSE E!EpollCtl(down, "DEL")
  BY <1>1 DEF E!SetEvents, E!UpdateChannel, E!IsNoneEvent
<1> HIDE DEF c, up, down
<1>3. ASSUME NEW d \in E!ChannelType
      PROVE  \A op \in {"ADD", "MOD", "DEL"} :
               LET e == E!EpollCtl(d, op) IN
                 /\ e \in E!ChannelType /\ e.events = d.events /\ e.revents = d.revents
                 /\ e.polling = d.polling
                 /\ ~(d.added <=> op = "ADD") =>
                       /\ e.added <=> op # "DEL"
                       /\ op # "DEL" => e.mask = d.events
                       /\ e.aborted = d.aborted
  BY DEF E!EpollCtl, E!ChannelType, E!Interest
<1>4. CASE ~ch.polling
  BY <1>1, <1>2, <1>3, <1>4 DEF E!Mirrors
<1>5. CASE ch.polling /\ X # {}
  <2>1. PICK e : e = E!EpollCtl(c, "MOD")
    OBVIOUS
  <2>2. /\ e \in E!ChannelType /\ e.events = X /\ e.revents = ch.revents
        /\ e.polling = ch.polling
        /\ ch.added => e.added /\ e.mask = X /\ e.aborted = ch.aborted
    BY <1>1, <1>3, <2>1
  <2>3. E!Mirrors(ch) => E!Mirrors(e) /\ e.added
    BY <1>5, <2>2 DEF E!Mirrors
  <2>4. E!SetEvents(ch, X) = e
    BY <1>2, <1>5, <2>1
  <2>5. QED
    BY <1>5, <2>2, <2>3, <2>4
<1>6. CASE ch.polling /\ X = {}
  BY <1>1, <1>2, <1>3, <1>6 DEF E!Mirrors
<1>7. QED
  BY <1>4, <1>5, <1>6

LEMMA NewChannelIs ==
    /\ E!NewChannel \in E!ChannelType /\ E!Mirrors(E!NewChannel)
    /\ ~E!NewChannel.added /\ E!NewChannel.events = {}
BY DEF E!NewChannel, E!ChannelType, E!Mirrors

(* What a callback may call. *)
LEMMA OperationsAre ==
    ASSUME NEW ch \in E!ChannelType
    PROVE  /\ E!EnabledReadable(ch) = E!SetEvents(ch, ch.events \cup {"IN"})
           /\ E!EnabledWritable(ch) = E!SetEvents(ch, ch.events \cup {"OUT"})
           /\ E!DiabledAllEvents(ch) = E!SetEvents(ch, {})
           /\ ch.events \cup {"IN"} \in SUBSET E!Interest
           /\ ch.events \cup {"OUT"} \in SUBSET E!Interest
           /\ {} \in SUBSET E!Interest
           /\ \A o \in E!Operations(ch) : \E X \in SUBSET E!Interest : o = E!SetEvents(ch, X)
<1>1. ch.events \in SUBSET E!Interest
  BY DEF E!ChannelType
<1>2. /\ ch.events \cup {"IN"} \in SUBSET E!Interest
      /\ ch.events \cup {"OUT"} \in SUBSET E!Interest
      /\ ch.events \ {"IN"} \in SUBSET E!Interest
      /\ ch.events \ {"OUT"} \in SUBSET E!Interest
      /\ {} \in SUBSET E!Interest
  BY <1>1 DEF E!Interest
<1>3. QED
  BY <1>2 DEF E!EnabledReadable, E!EnabledWritable, E!DiabledAllEvents, E!Operations,
              E!DisabledReadable, E!DisabledWritable

LEMMA ChannelChanges ==
    ASSUME NEW ch \in E!ChannelType
    PROVE  /\ E!EnabledReadable(ch) \in E!ChannelType
           /\ E!EnabledReadable(ch).events = ch.events \cup {"IN"}
           /\ E!EnabledReadable(ch).revents = ch.revents
           /\ E!Mirrors(ch) => /\ E!Mirrors(E!EnabledReadable(ch))
                               /\ E!EnabledReadable(ch).added
           /\ E!EnabledWritable(ch) \in E!ChannelType
           /\ E!EnabledWritable(ch).events = ch.events \cup {"OUT"}
           /\ E!EnabledWritable(ch).revents = ch.revents
           /\ E!Mirrors(ch) => /\ E!Mirrors(E!EnabledWritable(ch))
                               /\ E!EnabledWritable(ch).added
           /\ E!DiabledAllEvents(ch) \in E!ChannelType
           /\ E!DiabledAllEvents(ch).events = {}
           /\ E!DiabledAllEvents(ch).revents = ch.revents
           /\ E!Mirrors(ch) => /\ E!Mirrors(E!DiabledAllEvents(ch))
                               /\ E!DiabledAllEvents(ch).added <=> ~ch.added
<1>1. PICK X \in SUBSET E!Interest :
         X = ch.events \cup {"IN"} /\ E!EnabledReadable(ch) = E!SetEvents(ch, X)
  BY OperationsAre
<1>2. PICK Y \in SUBSET E!Interest :
         Y = ch.events \cup {"OUT"} /\ E!EnabledWritable(ch) = E!SetEvents(ch, Y)
  BY OperationsAre
<1>3. PICK Z \in SUBSET E!Interest : Z = {} /\ E!DiabledAllEvents(ch) = E!SetEvents(ch, Z)
  BY OperationsAre
<1>4. X # {} /\ Y # {} /\ Z = {}
  BY <1>1, <1>2, <1>3
<1>5. QED
  BY <1>1, <1>2, <1>3, <1>4, SetEventsIs

(* What epoll_wait() sets. *)
LEMMA ReportedIs ==
    ASSUME NEW ch \in E!ChannelType, NEW R \in SUBSET E!Events
    PROVE  LET d == [ch EXCEPT !.revents = E!Reported(ch, R)] IN
             /\ d \in E!ChannelType /\ d.events = ch.events /\ d.added = ch.added
             /\ d.revents \subseteq R /\ (d.revents # {} => ch.added)
             /\ E!Mirrors(ch) => E!Mirrors(d)
<1>1. E!Reported(ch, R) \in SUBSET E!Events /\ E!Reported(ch, R) \subseteq R
      /\ (E!Reported(ch, R) # {} => ch.added)
  BY DEF E!Reported
<1>2. PICK r \in SUBSET E!Events : r = E!Reported(ch, R)
  BY <1>1
<1>3. QED
  BY <1>1, <1>2 DEF E!ChannelType, E!Mirrors

-----------------------------------------------------------------------------
(* v1.3 *)

(* Between two events every descriptor is free, and an event of the batch has *)
(* its connection; whoever was told the time came before those who wait for   *)
(* the same acceptor.                                                         *)
AheadOf(p) ==
    \A j \in 1..Len(backlog) : Port[backlog[j]] = Port[p] => p < backlog[j]
Inv13 ==
    /\ N13!NetInv
    /\ chan \in [{1, 2} -> E!ChannelType]
    /\ map \subseteq {1, 2} /\ batch \subseteq {1, 2}
    /\ pc \in {"setup", "poll", "batch", "callback", "dead"}
    /\ cur \in PeersOf("1.3")
    /\ history \in Seq(PeersOf("1.3"))
    /\ \A p \in PeersOf("1.3") :
          sock[p].at = "open" => p = cur /\ pc \in {"callback", "dead"}
    /\ pc = "callback" =>
          /\ sock[cur].at = "open"
          /\ AheadOf(cur)
          /\ \A i \in 1..Len(history) : Port[history[i]] = Port[cur] => history[i] < cur
    /\ \A a \in batch : V13!Waiting(a) # {}
    /\ \A i \in 1..Len(history) : sock[history[i]].at = "closed" /\ AheadOf(history[i])
    /\ V13!ToldInOrder

LEMMA Numbered13 == N13!Numbered
BY SizesOf DEF N13!Numbered, Versions

(* The kernel's operators are the same ones. *)
LEMMA Same13 ==
    /\ V13!NetworkInit <=> N13!NetworkInit
    /\ V13!PeerStep <=> N13!PeerStep
    /\ V13!FreeFds = N13!FreeFds
    /\ V13!LowestFree = N13!LowestFree
    /\ \A s, b : V13!AfterSend(s, b) = N13!AfterSend(s, b)
    /\ \A s : V13!AfterClose(s) = N13!AfterClose(s)
    /\ V13!ChannelType = E!ChannelType
    /\ V13!NewChannel = E!NewChannel
    /\ \A ch : V13!EnabledReadable(ch) = E!EnabledReadable(ch)
    /\ \A ch, R : V13!Reported(ch, R) = E!Reported(ch, R)
<1>1. V13!NetworkInit <=> N13!NetworkInit
  BY DEF V13!NetworkInit, N13!NetworkInit
<1>2. V13!PeerStep <=> N13!PeerStep
  BY DEF V13!PeerStep, V13!Connect, V13!PeerSend, V13!PeerRecv, V13!PeerClose, V13!PeerReset,
         V13!Alive, N13!PeerStep, N13!Connect, N13!PeerSend, N13!PeerRecv, N13!PeerClose,
         N13!PeerReset, N13!Alive
<1>3. V13!UsedFds = N13!UsedFds /\ V13!FreeFds = N13!FreeFds
      /\ V13!LowestFree = N13!LowestFree
  BY DEF V13!UsedFds, N13!UsedFds, V13!FreeFds, N13!FreeFds, V13!LowestFree, N13!LowestFree
<1>4. \A s, b : V13!AfterSend(s, b) = N13!AfterSend(s, b)
  BY DEF V13!Taken, N13!Taken, V13!AfterSend, N13!AfterSend
<1>5. \A s : V13!AfterClose(s) = N13!AfterClose(s)
  BY DEF V13!AfterClose, N13!AfterClose
<1>6. V13!ChannelType = E!ChannelType /\ V13!NewChannel = E!NewChannel
  BY DEF V13!ChannelType, E!ChannelType, V13!Interest, E!Interest, V13!Events, E!Events,
         V13!NewChannel, E!NewChannel
<1>7. \A ch, op : V13!EpollCtl(ch, op) = E!EpollCtl(ch, op)
  BY DEF V13!EpollCtl, E!EpollCtl
<1>8. \A ch : V13!EnabledReadable(ch) = E!EnabledReadable(ch)
  BY <1>7 DEF V13!EnabledReadable, E!EnabledReadable, V13!SetEvents, E!SetEvents,
              V13!UpdateChannel, E!UpdateChannel, V13!IsNoneEvent, E!IsNoneEvent
<1>9. \A ch, R : V13!Reported(ch, R) = E!Reported(ch, R)
  BY DEF V13!Reported, E!Reported
<1>10. QED
  BY <1>1, <1>2, <1>3, <1>4, <1>5, <1>6, <1>8, <1>9

LEMMA RemoveAtIs ==
    ASSUME NEW S, NEW s \in Seq(S), NEW i \in 1..Len(s)
    PROVE  /\ V13!RemoveAt(s, i) \in Seq(S)
           /\ Len(V13!RemoveAt(s, i)) = Len(s) - 1
           /\ \A j \in 1..Len(s) - 1 :
                 V13!RemoveAt(s, i)[j] = IF j < i THEN s[j] ELSE s[j + 1]
<1> DEFINE x == SubSeq(s, 1, i - 1)
           y == SubSeq(s, i + 1, Len(s))
           r == x \o y
<1>1. Len(s) \in Nat /\ \A k \in 1..Len(s) : s[k] \in S
  BY LenProperties
<1>2. /\ x \in Seq(S) /\ Len(x) = i - 1
      /\ \A j \in 1..i - 1 : x[j] = s[j]
  BY <1>1, SubSeqProperties
<1>3. /\ y \in Seq(S) /\ Len(y) = Len(s) - i
      /\ \A j \in 1..Len(s) - i : y[j] = s[i + j]
  <2>1. /\ y \in Seq(S)
        /\ Len(y) = IF i + 1 <= Len(s) THEN Len(s) - (i + 1) + 1 ELSE 0
        /\ \A j \in 1..Len(s) - (i + 1) + 1 : y[j] = s[(i + 1) + j - 1]
    BY <1>1, SubSeqProperties
  <2> HIDE DEF y
  <2>2. Len(y) = Len(s) - i
    BY <1>1, <2>1
  <2>3. \A j \in 1..Len(s) - i : y[j] = s[i + j]
    <3>1. \A j \in 1..Len(s) - i : (i + 1) + j - 1 = i + j /\ j \in 1..Len(s) - (i + 1) + 1
      BY <1>1
    <3>2. QED
      BY <2>1, <3>1
  <2>4. QED
    BY <2>1, <2>2, <2>3
<1> HIDE DEF x, y
<1>4. /\ r \in Seq(S) /\ Len(r) = Len(x) + Len(y)
      /\ \A j \in 1..Len(x) + Len(y) : r[j] = IF j <= Len(x) THEN x[j] ELSE y[j - Len(x)]
  BY <1>2, <1>3, ConcatProperties
<1> HIDE DEF r
<1>5. Len(r) = Len(s) - 1
  BY <1>1, <1>2, <1>3, <1>4
<1>6. ASSUME NEW j \in 1..Len(s) - 1
      PROVE  r[j] = IF j < i THEN s[j] ELSE s[j + 1]
  <2>1. CASE j < i
    BY <1>1, <1>2, <1>3, <1>4, <2>1
  <2>2. CASE ~(j < i)
    <3>1. r[j] = y[j - (i - 1)] /\ j - (i - 1) \in 1..Len(s) - i
      <4>1. j \in 1..Len(x) + Len(y) /\ ~(j <= Len(x)) /\ Len(x) = i - 1
        BY <1>1, <1>2, <1>3, <2>2
      <4>2. r[j] = y[j - Len(x)]
        BY <1>4, <4>1
      <4>3. QED
        BY <1>1, <2>2, <4>1, <4>2
    <3>2. y[j - (i - 1)] = s[i + (j - (i - 1))] /\ i + (j - (i - 1)) = j + 1
      BY <1>1, <1>3, <3>1
    <3>3. QED
      BY <2>2, <3>1, <3>2
  <2>3. QED
    BY <2>1, <2>2
<1>7. V13!RemoveAt(s, i) = r
  BY DEF V13!RemoveAt, r, x, y
<1>8. QED
  BY <1>4, <1>5, <1>6, <1>7

LEMMA Init13 == ASSUME V13!Init PROVE Inv13
<1>1. N13!NetworkInit
  BY Same13 DEF V13!Init
<1>2. N13!NetInv
  BY <1>1, Numbered13, N13!InitNet
<1>3. <<>> \in Seq(PeersOf("1.3")) /\ Len(<<>>) = 0
  BY EmptySeq
<1>4. /\ pc = "setup" /\ batch = {} /\ map = {} /\ history = <<>> /\ cur \in PeersOf("1.3")
      /\ chan = [a \in {1, 2} |-> E!NewChannel]
  BY Same13 DEF V13!Init
<1>5. \A p \in PeersOf("1.3") : sock[p].at = "away"
  BY <1>1 DEF N13!NetworkInit
<1>6. chan \in [{1, 2} -> E!ChannelType]
  BY <1>4, NewChannelIs
<1>7. QED
  BY <1>2, <1>3, <1>4, <1>5, <1>6 DEF Inv13, V13!ToldInOrder

(* Nothing happens to the sockets, nor in a callback. *)
LEMMA Quiet13 ==
    ASSUME Inv13, UNCHANGED <<N13!network, history, cur>>,
           chan' \in [{1, 2} -> E!ChannelType], map' \subseteq {1, 2},
           batch' \subseteq {1, 2}, \A a \in batch' : V13!Waiting(a) # {},
           pc' \in {"setup", "poll", "batch", "callback", "dead"},
           pc = "callback" => pc' \in {"callback", "dead"},
           pc = "dead" => pc' = "dead",
           pc' = "callback" => pc = "callback"
    PROVE  Inv13'
<1>1. sock' = sock /\ backlog' = backlog /\ sent' = sent /\ history' = history /\ cur' = cur
  BY DEF N13!network
<1>2. N13!NetInv'
  BY N13!NetworkStays DEF Inv13
<1>3. \A a : V13!Waiting(a)' = V13!Waiting(a)
  BY <1>1 DEF V13!Waiting
<1>4. \A p : AheadOf(p) => AheadOf(p)'
  BY <1>1 DEF AheadOf
<1>5. V13!ToldInOrder'
  BY <1>1 DEF Inv13, V13!ToldInOrder
<1>6. QED
  BY <1>1, <1>2, <1>3, <1>4, <1>5 DEF Inv13

LEMMA Listen13 == ASSUME Inv13, NEW a \in {1, 2}, V13!Listen(a) PROVE Inv13'
<1>1. /\ UNCHANGED <<N13!network, history, cur>> /\ pc' = pc /\ batch' = batch
      /\ map' = map \cup {a}
      /\ chan' = [chan EXCEPT ![a] = E!EnabledReadable(chan[a])]
  BY Same13 DEF V13!Listen, V13!network, N13!network
<1>2. PICK ch \in E!ChannelType : ch = chan[a]
  BY DEF Inv13
<1>3. E!EnabledReadable(ch) \in E!ChannelType
  BY ChannelChanges
<1>4. chan' \in [{1, 2} -> E!ChannelType]
  BY <1>1, <1>2, <1>3 DEF Inv13
<1>5. QED
  BY <1>1, <1>4, Quiet13 DEF Inv13

LEMMA Poll13 == ASSUME Inv13, V13!Poll PROVE Inv13'
<1>1. /\ UNCHANGED <<N13!network, history, cur>> /\ pc = "poll" /\ pc' = "batch" /\ map' = map
      /\ batch' = {a \in {1, 2} : V13!Ready(a) # {}}
      /\ chan' = [a \in {1, 2} |-> IF a \in batch'
                                   THEN [chan[a] EXCEPT !.revents = V13!Ready(a)] ELSE chan[a]]
  BY DEF V13!Poll, V13!network, N13!network
<1>2. ASSUME NEW a \in {1, 2}
      PROVE  /\ V13!Ready(a) # {} => V13!Waiting(a) # {}
             /\ [chan[a] EXCEPT !.revents = V13!Ready(a)] \in E!ChannelType
  <2>1. PICK R \in SUBSET E!Events : R = IF V13!Waiting(a) # {} THEN {"IN"} ELSE {}
    BY DEF E!Events, E!Interest
  <2>2. V13!Ready(a) = E!Reported(chan[a], R)
    BY <2>1, Same13 DEF V13!Ready
  <2>3. chan[a] \in E!ChannelType
    BY DEF Inv13
  <2>4. [chan[a] EXCEPT !.revents = V13!Ready(a)] \in E!ChannelType
    BY <2>2, <2>3, ReportedIs
  <2>5. V13!Ready(a) \subseteq R
    BY <2>2 DEF E!Reported
  <2>6. QED
    BY <2>1, <2>4, <2>5
<1>3. chan' \in [{1, 2} -> E!ChannelType]
  BY <1>1, <1>2 DEF Inv13
<1>4. QED
  BY <1>1, <1>2, <1>3, Quiet13 DEF Inv13

LEMMA Accept13 == ASSUME Inv13, NEW a \in {1, 2}, V13!Accept(a) PROVE Inv13'
<1>1. /\ pc = "batch" /\ a \in batch /\ batch' = batch \ {a}
      /\ chan' = chan /\ map' = map /\ history' = history
  BY DEF V13!Accept
<1>2. CASE V13!AcceptFails(a)
  <2>1. UNCHANGED <<N13!network, history, cur>> /\ pc' = "dead"
    BY <1>2 DEF V13!Accept, V13!network, N13!network
  <2>2. QED
    BY <1>1, <2>1, Quiet13 DEF Inv13
<1>3. CASE ~V13!AcceptFails(a)
  <2>1. PICK i, p : i = V13!FirstOf(a) /\ p = backlog[i]
    OBVIOUS
  <2>2. /\ sock' = [sock EXCEPT ![p].at = "open", ![p].fd = N13!LowestFree]
        /\ backlog' = V13!RemoveAt(backlog, i) /\ cur' = p /\ pc' = "callback"
        /\ sent' = sent /\ N13!FreeFds # {}
    BY <1>3, <2>1, Same13 DEF V13!Accept, V13!AcceptFails
  <2>3. backlog \in Seq(PeersOf("1.3")) /\ Len(backlog) \in Nat
    BY LenProperties DEF Inv13, N13!NetInv, N13!NetworkTypeOK
  <2>4. /\ i \in 1..Len(backlog) /\ Port[p] = a
        /\ \A j \in 1..Len(backlog) : Port[backlog[j]] = a => i <= j
    <3>1. V13!Waiting(a) \in SUBSET Nat /\ V13!Waiting(a) # {}
      BY <1>1 DEF V13!Waiting, Inv13
    <3>2. \E x \in V13!Waiting(a) : \A y \in V13!Waiting(a) : x <= y
      BY <3>1, LeastNumber
    <3>3. i \in V13!Waiting(a) /\ \A y \in V13!Waiting(a) : i <= y
      BY <2>1, <3>2 DEF V13!FirstOf
    <3>4. QED
      BY <2>1, <3>3 DEF V13!Waiting
  <2>5. N13!QueueWithout(i)
    BY <2>2, <2>3, <2>4, RemoveAtIs DEF N13!QueueWithout
  <2>6. N13!AcceptsAt(p, i)
    BY <2>1, <2>2 DEF N13!AcceptsAt
  <2>7. /\ N13!NetInv' /\ p \in PeersOf("1.3") /\ sock[p].at = "queued"
        /\ sock'[p].at = "open"
        /\ \A q \in PeersOf("1.3") : q # p => sock'[q] = sock[q]
    <3>1. N13!NetInv /\ i \in 1..Len(backlog) /\ N13!FreeFds # {}
      BY <2>2, <2>4 DEF Inv13
    <3>2. QED
      BY <2>5, <2>6, <3>1, Numbered13, N13!AcceptAtIs
  <2>8. ASSUME NEW j \in 1..Len(backlog')
        PROVE  \E k \in 1..Len(backlog) : backlog'[j] = backlog[k] /\ k # i
    <3>1. PICK k : k = IF j < i THEN j ELSE j + 1
      OBVIOUS
    <3>2. k \in 1..Len(backlog) /\ k # i
      BY <2>3, <2>5, <3>1 DEF N13!QueueWithout
    <3>3. backlog'[j] = backlog[k]
      BY <2>5, <3>1 DEF N13!QueueWithout
    <3>4. QED
      BY <3>2, <3>3
  <2>9. ASSUME NEW k \in 1..Len(backlog), k # i
        PROVE  \E j \in 1..Len(backlog') : backlog'[j] = backlog[k]
    <3>1. PICK j : j = IF k < i THEN k ELSE k - 1
      OBVIOUS
    <3>2. j \in 1..Len(backlog') /\ k = IF j < i THEN j ELSE j + 1
      BY <2>3, <2>4, <2>5, <2>9, <3>1 DEF N13!QueueWithout
    <3>3. backlog'[j] = backlog[k]
      BY <2>5, <3>2 DEF N13!QueueWithout
    <3>4. QED
      BY <3>2, <3>3
  <2>10. \A q : AheadOf(q) => AheadOf(q)'
    BY <2>8 DEF AheadOf
  <2>11. AheadOf(p)'
    <3>1. ASSUME NEW j \in 1..Len(backlog'), Port[backlog'[j]] = Port[p]
          PROVE  p < backlog'[j]
      <4>1. PICK k \in 1..Len(backlog) : backlog'[j] = backlog[k] /\ k # i
        BY <2>8
      <4>2. i < k
        BY <2>3, <2>4, <3>1, <4>1
      <4>3. backlog[i] < backlog[k]
        BY <2>4, <4>2 DEF Inv13, N13!NetInv, N13!QueueInOrder
      <4>4. QED
        BY <2>1, <4>1, <4>3
    <3>2. QED
      BY <3>1 DEF AheadOf
  <2>12. \A k \in 1..Len(history) : history[k] # p /\ history[k] \in PeersOf("1.3")
    BY <2>7, ElementOfSeq DEF Inv13
  <2>13. \A k \in 1..Len(history) : /\ sock'[history[k]].at = "closed"
                                    /\ AheadOf(history[k])'
    BY <1>1, <2>7, <2>10, <2>12 DEF Inv13
  <2>14. \A k \in 1..Len(history) : Port[history[k]] = Port[p] => history[k] < p
    BY <2>1, <2>4 DEF Inv13, AheadOf
  <2>15. ASSUME NEW b \in batch' PROVE V13!Waiting(b)' # {}
    <3>1. b \in batch /\ b # a
      BY <1>1
    <3>2. PICK k \in 1..Len(backlog) : Port[backlog[k]] = b
      BY <3>1 DEF Inv13, V13!Waiting
    <3>3. k # i
      BY <2>1, <2>4, <3>1, <3>2
    <3>4. PICK j \in 1..Len(backlog') : backlog'[j] = backlog[k]
      BY <2>9, <3>3
    <3>5. QED
      BY <3>2, <3>4 DEF V13!Waiting
  <2>16. \A q \in PeersOf("1.3") : sock'[q].at = "open" => q = p
    BY <1>1, <2>7 DEF Inv13
  <2>17. V13!ToldInOrder'
    BY <1>1 DEF Inv13, V13!ToldInOrder
  <2>18. QED
    BY <1>1, <2>2, <2>7, <2>11, <2>13, <2>14, <2>15, <2>16, <2>17 DEF Inv13
<1>4. QED
  BY <1>2, <1>3

LEMMA NewConnection13 == ASSUME Inv13, V13!NewConnection PROVE Inv13'
<1>1. /\ pc = "callback" /\ chan' = chan /\ map' = map /\ batch' = batch /\ cur' = cur
      /\ backlog' = backlog /\ sent' = sent
  BY DEF V13!NewConnection
<1>2. CASE V13!RaisesSigpipe(sock[cur])
  <2>1. UNCHANGED <<N13!network, history, cur>> /\ pc' = "dead"
    BY <1>1, <1>2 DEF V13!NewConnection, N13!network
  <2>2. QED
    BY <1>1, <2>1, Quiet13 DEF Inv13
<1>3. CASE ~V13!RaisesSigpipe(sock[cur])
  <2>1. PICK p, t, s : /\ p = cur /\ s = N13!AfterSend(sock[p], Time)
                       /\ t = N13!AfterClose(s)
    OBVIOUS
  <2>2. /\ history' = Append(history, p) /\ pc' = "batch"
        /\ sock' = [sock EXCEPT ![p] = t]
    BY <1>3, <2>1, Same13 DEF V13!NewConnection
  <2>3. /\ sock \in [PeersOf("1.3") -> N13!SocketType] /\ p \in PeersOf("1.3")
        /\ sock[p] \in N13!SocketType /\ sock[p].at = "open"
        /\ Len(sock[p].snd) <= Size["1.3"].sndBuf
        /\ sock[p].rst => sock[p].snd = <<>>
    BY <1>1, <2>1 DEF Inv13, N13!NetInv, N13!NetworkTypeOK, N13!Fresh
  <2>4. Time \in N13!Bytes
    BY BytesAssumption DEF N13!Bytes, Positive
  <2>5. s \in N13!SocketType /\ s.rst = sock[p].rst
    BY <2>1, <2>3, <2>4, Numbered13, N13!AfterSendIs
  <2>6. /\ t \in N13!SocketType /\ t.at = "closed" /\ t.rst = sock[p].rst /\ t.snd = <<>>
        /\ t.err = "none"
    BY <2>1, <2>5, N13!AfterCloseIs
  <2>7. /\ sock' \in [PeersOf("1.3") -> N13!SocketType] /\ sock'[p] = t
        /\ \A q \in PeersOf("1.3") : q # p => sock'[q] = sock[q]
    BY <2>2, <2>3, <2>6
  <2>8. \A q \in PeersOf("1.3") : N13!Used(q)
    <3>1. Len(t.snd) = 0 /\ 0 <= Size["1.3"].sndBuf
      BY <2>6, EmptySeq, Numbered13 DEF N13!Numbered
    <3>2. N13!Used(p)
      BY <2>3, <2>6, <2>7, <3>1 DEF N13!Used
    <3>3. QED
      BY <2>7, <3>2 DEF N13!Used
  <2>9. N13!NetInv'
    BY <1>1, <2>7, <2>8, N13!OpenChange DEF Inv13
  <2>10. /\ history \in Seq(PeersOf("1.3")) /\ Len(history) \in Nat
         /\ history' \in Seq(PeersOf("1.3")) /\ Len(history') = Len(history) + 1
         /\ \A i \in 1..Len(history) : history'[i] = history[i]
         /\ history'[Len(history) + 1] = p
    BY <2>2, <2>3, AppendProperties, LenProperties DEF Inv13
  <2>11. /\ \A i \in 1..Len(history) : history[i] \in PeersOf("1.3") /\ history[i] # p
    <3>1. \A i \in 1..Len(history) : sock[history[i]].at = "closed"
      BY DEF Inv13
    <3>2. QED
      BY <2>3, <2>10, <3>1, ElementOfSeq
  <2>12. \A q : AheadOf(q) => AheadOf(q)'
    BY <1>1 DEF AheadOf
  <2>13. ASSUME NEW i \in 1..Len(history')
         PROVE  \E q \in PeersOf("1.3") : /\ q = history'[i] /\ sock'[q].at = "closed"
                                          /\ AheadOf(q)'
    <3>1. CASE i \in 1..Len(history)
      <4>1. PICK q : q = history[i]
        OBVIOUS
      <4>2. sock[q].at = "closed" /\ AheadOf(q) /\ q # p /\ q \in PeersOf("1.3")
        BY <2>11, <3>1, <4>1 DEF Inv13
      <4>3. QED
        BY <2>7, <2>10, <2>12, <3>1, <4>1, <4>2
    <3>2. CASE i = Len(history) + 1
      <4>1. AheadOf(p)
        BY <1>1, <2>1 DEF Inv13
      <4>2. QED
        BY <2>3, <2>6, <2>7, <2>10, <2>12, <3>2, <4>1
    <3>3. QED
      BY <2>10, <3>1, <3>2
  <2>14. V13!ToldInOrder'
    <3>1. ASSUME NEW i \in 1..Len(history'), NEW j \in 1..Len(history'), i < j,
                 Port[history'[i]] = Port[history'[j]]
          PROVE  history'[i] < history'[j]
      <4>1. CASE j \in 1..Len(history)
        <5>1. i \in 1..Len(history)
          BY <2>10, <3>1, <4>1
        <5>2. QED
          BY <2>10, <3>1, <4>1, <5>1 DEF Inv13, V13!ToldInOrder
      <4>2. CASE j = Len(history) + 1
        <5>1. i \in 1..Len(history)
          BY <2>10, <3>1, <4>2
        <5>2. \A k \in 1..Len(history) : Port[history[k]] = Port[p] => history[k] < p
          BY <1>1, <2>1 DEF Inv13
        <5>3. QED
          BY <2>10, <3>1, <4>2, <5>1, <5>2
      <4>3. QED
        BY <2>10, <4>1, <4>2
    <3>2. QED
      BY <3>1 DEF V13!ToldInOrder
  <2>15. \A i \in 1..Len(history') : sock'[history'[i]].at = "closed" /\ AheadOf(history[i])'
    BY <2>13
  <2>16. \A a : V13!Waiting(a)' = V13!Waiting(a)
    BY <1>1 DEF V13!Waiting
  <2>17. \A q \in PeersOf("1.3") : sock'[q].at # "open"
    BY <1>1, <2>1, <2>6, <2>7 DEF Inv13
  <2>18. QED
    BY <1>1, <2>2, <2>9, <2>10, <2>14, <2>15, <2>16, <2>17 DEF Inv13
<1>4. QED
  BY <1>2, <1>3

LEMMA PeersMove13 == ASSUME Inv13, V13!PeersMove PROVE Inv13'
<1>1. /\ N13!PeerStep /\ chan' = chan /\ map' = map /\ pc' = pc /\ batch' = batch
      /\ cur' = cur /\ history' = history
  BY Same13 DEF V13!PeersMove
<1>2. N13!NetInv' /\ (\A p \in PeersOf("1.3") : N13!PeersKeep(p)) /\ N13!PeersKeepQueue
  BY <1>1, Numbered13, N13!PeersMoveNet DEF Inv13
<1>3. /\ backlog \in Seq(PeersOf("1.3")) /\ Len(backlog) \in Nat
      /\ sock \in [PeersOf("1.3") -> N13!SocketType]
  BY LenProperties DEF Inv13, N13!NetInv, N13!NetworkTypeOK
<1>4. \A p \in PeersOf("1.3") :
         /\ sock'[p].at = "open" <=> sock[p].at = "open"
         /\ sock[p].at = "closed" => sock'[p].at = "closed"
  BY <1>2 DEF N13!PeersKeep
<1>5. \/ backlog' = backlog
      \/ \E n \in PeersOf("1.3") :
            /\ sock[n].at = "away"
            /\ Len(backlog') = Len(backlog) + 1 /\ backlog'[Len(backlog) + 1] = n
            /\ \A i \in 1..Len(backlog) : backlog'[i] = backlog[i]
  BY <1>2, <1>3, AppendProperties DEF N13!PeersKeepQueue
<1>6. ASSUME NEW p \in PeersOf("1.3"), sock[p].at # "away", AheadOf(p) PROVE AheadOf(p)'
  <2>1. CASE backlog' = backlog
    BY <1>6, <2>1 DEF AheadOf
  <2>2. ASSUME NEW n \in PeersOf("1.3"), sock[n].at = "away",
               Len(backlog') = Len(backlog) + 1, backlog'[Len(backlog) + 1] = n,
               \A i \in 1..Len(backlog) : backlog'[i] = backlog[i]
        PROVE  AheadOf(p)'
    <3>1. n # p /\ ~(n < p)
      BY <1>6, <2>2 DEF Inv13, N13!NetInv, N13!QueueInOrder
    <3>2. p < n
      BY <3>1, Numbered13 DEF N13!Numbered
    <3>3. ASSUME NEW j \in 1..Len(backlog'), Port[backlog'[j]] = Port[p]
          PROVE  p < backlog'[j]
      <4>1. j \in 1..Len(backlog) \/ j = Len(backlog) + 1
        BY <1>3, <2>2
      <4>2. QED
        BY <1>6, <2>2, <3>2, <3>3, <4>1 DEF AheadOf
    <3>4. QED
      BY <3>3 DEF AheadOf
  <2>3. QED
    BY <1>5, <2>1, <2>2
<1>7. \A a : V13!Waiting(a) # {} => V13!Waiting(a)' # {}
  <2>1. ASSUME NEW a, V13!Waiting(a) # {} PROVE V13!Waiting(a)' # {}
    <3>1. PICK i \in 1..Len(backlog) : Port[backlog[i]] = a
      BY <2>1 DEF V13!Waiting
    <3>2. i \in 1..Len(backlog') /\ backlog'[i] = backlog[i]
      BY <1>3, <1>5
    <3>3. QED
      BY <3>1, <3>2 DEF V13!Waiting
  <2>2. QED
    BY <2>1
<1>8. ASSUME NEW i \in 1..Len(history)
      PROVE  sock'[history[i]].at = "closed" /\ AheadOf(history[i])'
  <2>1. PICK q : q = history[i]
    OBVIOUS
  <2>2. q \in PeersOf("1.3") /\ sock[q].at = "closed" /\ AheadOf(q)
    BY <2>1, ElementOfSeq DEF Inv13
  <2>3. sock'[q].at = "closed" /\ AheadOf(q)'
    BY <1>4, <1>6, <2>2
  <2>4. history'[i] = q
    BY <1>1, <2>1
  <2>5. QED
    BY <1>1, <2>1, <2>3
<1>9. pc = "callback" => AheadOf(cur)'
  <2>1. PICK q : q = cur
    OBVIOUS
  <2>2. ASSUME pc = "callback" PROVE AheadOf(q)'
    BY <1>6, <2>1, <2>2 DEF Inv13
  <2>3. QED
    BY <1>1, <2>1, <2>2
<1>10. V13!ToldInOrder'
  BY <1>1 DEF Inv13, V13!ToldInOrder
<1>11. QED
  BY <1>1, <1>2, <1>4, <1>7, <1>8, <1>9, <1>10 DEF Inv13

LEMMA Step13 == ASSUME Inv13, V13!Next PROVE Inv13'
<1>1. CASE V13!EnterLoop \/ V13!EndBatch
  <2>1. /\ UNCHANGED <<N13!network, history, cur, chan, map>> /\ batch' = batch
        /\ pc' = "poll" /\ pc # "dead" /\ pc # "callback"
    BY <1>1 DEF V13!EnterLoop, V13!EndBatch, V13!network, N13!network
  <2>2. QED
    BY <2>1, Quiet13 DEF Inv13
<1>2. QED
  BY <1>1, Poll13, NewConnection13, Listen13, Accept13, PeersMove13
     DEF V13!Next, V13!LoopStep

LEMMA Always13 == Spec => [](version = "1.3" => Inv13)
<1>1. Init => (version = "1.3" => Inv13)
  BY Init13 DEF Init
<1>2. (version = "1.3" => Inv13) /\ [Next]_vars => (version = "1.3" => Inv13)'
  <2>1. ASSUME version = "1.3", Inv13, Next PROVE Inv13'
    <3>1. V13!Next
      BY <2>1 DEF Next, Of10, Of11, Of12, Of13, Of14, Of15, OfLoop
    <3>2. QED
      BY <2>1, <3>1, Step13
  <2>2. ASSUME Inv13, UNCHANGED vars PROVE Inv13'
    <3>1. UNCHANGED <<N13!network, history, cur, chan, map, batch, pc>>
      BY <2>2 DEF vars, N13!network
    <3>2. QED
      BY <2>2, <3>1, Quiet13 DEF Inv13
  <2>3. ASSUME Next PROVE version' = version
    BY <2>3 DEF Next, Of10, Of11, Of12, Of13, Of14, Of15, OfLoop
  <2>4. QED
    BY <2>1, <2>2, <2>3 DEF vars
<1>3. QED
  BY <1>1, <1>2, PTL DEF Spec

-----------------------------------------------------------------------------
(* The loop of v1.3 to v1.5 *)

(* The operators of channels are the same ones. *)
LEMMA SameLoop ==
    /\ Loop!ChannelType = E!ChannelType
    /\ Loop!NewChannel = E!NewChannel
    /\ Loop!Interest = E!Interest /\ Loop!Events = E!Events
    /\ \A ch : Loop!Operations(ch) = E!Operations(ch)
    /\ \A ch, R : Loop!Reported(ch, R) = E!Reported(ch, R)
    /\ \A ch : Loop!Mirrors(ch) <=> E!Mirrors(ch)
    /\ \A S : Loop!Cardinality(S) = Cardinality(S)
<1>1. /\ Loop!ChannelType = E!ChannelType /\ Loop!NewChannel = E!NewChannel
      /\ Loop!Interest = E!Interest /\ Loop!Events = E!Events
  BY DEF Loop!ChannelType, E!ChannelType, Loop!Interest, E!Interest, Loop!Events, E!Events,
         Loop!NewChannel, E!NewChannel
<1>2. \A ch, op : Loop!EpollCtl(ch, op) = E!EpollCtl(ch, op)
  BY DEF Loop!EpollCtl, E!EpollCtl
<1>3. \A ch, X : Loop!SetEvents(ch, X) = E!SetEvents(ch, X)
  BY <1>2 DEF Loop!SetEvents, E!SetEvents, Loop!UpdateChannel, E!UpdateChannel,
              Loop!IsNoneEvent, E!IsNoneEvent
<1>4. \A ch : Loop!Operations(ch) = E!Operations(ch)
  BY <1>3 DEF Loop!Operations, E!Operations, Loop!EnabledReadable, E!EnabledReadable,
              Loop!EnabledWritable, E!EnabledWritable, Loop!DisabledReadable,
              E!DisabledReadable, Loop!DisabledWritable, E!DisabledWritable,
              Loop!DiabledAllEvents, E!DiabledAllEvents
<1>5. \A ch, R : Loop!Reported(ch, R) = E!Reported(ch, R)
  BY DEF Loop!Reported, E!Reported
<1>6. \A ch : Loop!Mirrors(ch) <=> E!Mirrors(ch)
  BY DEF Loop!Mirrors, E!Mirrors
<1>7. \A S : Loop!Cardinality(S) = Cardinality(S)
  BY DEF Loop!Cardinality, Cardinality
<1>8. QED
  BY <1>1, <1>4, <1>5, <1>6, <1>7

(* Those served go to the end, and the list is still one. *)
LEMMA ToTheEndIsList ==
    ASSUME NEW S \in SUBSET LoopChannels, Loop!IsList(turn)
    PROVE  Loop!IsList(Loop!ToTheEnd(S))
<1> DEFINE T == Loop!ToTheEnd(S)
<1>1. /\ turn \subseteq LoopChannels \X LoopChannels
      /\ \A c \in LoopChannels : <<c, c>> \notin turn
      /\ \A c, d \in LoopChannels : c # d => (<<c, d>> \in turn <=> <<d, c>> \notin turn)
      /\ \A b, c, d \in LoopChannels :
            <<b, c>> \in turn /\ <<c, d>> \in turn => <<b, d>> \in turn
  BY DEF Loop!IsList
<1>2. T \subseteq LoopChannels \X LoopChannels
  BY <1>1 DEF Loop!ToTheEnd
<1>3. \A b, c \in LoopChannels :
         <<b, c>> \in T <=> \/ <<b, c>> \in turn /\ (b \in S <=> c \in S)
                            \/ b \notin S /\ c \in S
  BY DEF Loop!ToTheEnd
<1> HIDE DEF T
<1>4. \A c \in LoopChannels : <<c, c>> \notin T
  BY <1>1, <1>3
<1>5. \A c, d \in LoopChannels : c # d => (<<c, d>> \in T <=> <<d, c>> \notin T)
  BY <1>1, <1>3
<1>6. ASSUME NEW b \in LoopChannels, NEW c \in LoopChannels, NEW d \in LoopChannels,
             <<b, c>> \in T, <<c, d>> \in T
      PROVE  <<b, d>> \in T
  BY <1>1, <1>3, <1>6
<1>7. Loop!IsList(T)
  BY <1>2, <1>4, <1>5, <1>6 DEF Loop!IsList
<1>8. QED
  BY <1>7 DEF T

(* Whoever is before another has fewer before him, so that no more are served *)
(* than the array holds.                                                      *)
LEMMA ServedFit ==
    ASSUME Loop!IsList(turn)
    PROVE  /\ Loop!Served \in SUBSET LoopChannels
           /\ Cardinality(Loop!Served) <= MaxEventNums
<1> DEFINE W == Loop!Waiting
           A(c) == Loop!Before(c, W)
           N(c) == Cardinality(A(c))
           f == [c \in Loop!Served |-> N(c)]
<1>1. W \subseteq LoopChannels /\ IsFiniteSet(W)
  BY LoopAssumption, FS_Subset DEF Loop!Waiting
<1>2. \A c : A(c) = {d \in W : <<d, c>> \in turn}
  BY DEF Loop!Before
<1> HIDE DEF W, A
<1>3. ASSUME NEW c PROVE IsFiniteSet(A(c)) /\ N(c) \in Nat
  BY <1>1, <1>2, FS_Subset, FS_CardinalityType
<1>4. ASSUME NEW c \in W, NEW d \in W, <<c, d>> \in turn PROVE N(c) < N(d)
  <2>1. A(c) \in SUBSET A(d) /\ c \in A(d) /\ c \notin A(c)
    BY <1>1, <1>2, <1>4 DEF Loop!IsList
  <2>2. N(c) <= N(d) /\ N(c) # N(d)
    BY <1>3, <2>1, FS_Subset
  <2>3. QED
    BY <1>3, <2>2
<1>5. Loop!Served = {c \in W : N(c) < MaxEventNums}
  BY SameLoop DEF Loop!Served, W, A
<1>6. MaxEventNums \in Nat /\ IsFiniteSet(0..MaxEventNums - 1)
      /\ Cardinality(0..MaxEventNums - 1) = MaxEventNums
  <2>1. MaxEventNums \in Nat \ {0}
    BY LoopAssumption DEF Positive
  <2>2. PICK m \in Int : m = MaxEventNums - 1
    BY <2>1
  <2>3. IsFiniteSet(0..m) /\ Cardinality(0..m) = IF 0 > m THEN 0 ELSE m - 0 + 1
    BY FS_Interval
  <2>4. QED
    BY <2>1, <2>2, <2>3
<1>7. f \in Injection(Loop!Served, 0..MaxEventNums - 1)
  <2>1. f \in [Loop!Served -> 0..MaxEventNums - 1]
    BY <1>3, <1>5, <1>6
  <2>2. ASSUME NEW c \in Loop!Served, NEW d \in Loop!Served, f[c] = f[d] PROVE c = d
    <3>1. c \in W /\ d \in W /\ N(c) = N(d)
      BY <1>5, <2>2
    <3>2. <<c, d>> \notin turn /\ <<d, c>> \notin turn
      BY <1>3, <1>4, <3>1
    <3>3. QED
      BY <1>1, <3>1, <3>2 DEF Loop!IsList
  <2> HIDE DEF f
  <2>3. QED
    BY <2>1, <2>2 DEF Injection, IsInjective
<1> HIDE DEF f
<1>8. Cardinality(Loop!Served) <= Cardinality(0..MaxEventNums - 1)
  BY <1>6, <1>7, FS_Injection
<1>9. QED
  BY <1>1, <1>5, <1>6, <1>8

(* A channel's bookkeeping mirrors the kernel's, and the batch fits.          *)
InvLoop ==
    /\ Loop!TypeOK
    /\ Loop!KernelMirror
    /\ IsFiniteSet(batch)

LEMMA InitLoop == ASSUME Loop!Init PROVE InvLoop
<1>1. chan = [c \in LoopChannels |-> E!NewChannel] /\ ready = [c \in LoopChannels |-> {}]
      /\ pc = "setup" /\ stage = "HUP" /\ batch = {} /\ quit = FALSE
      /\ Loop!IsList(turn)
  BY SameLoop DEF Loop!Init
<1>2. IsFiniteSet(batch) /\ Cardinality(batch) = 0 /\ MaxEventNums \in Nat
  BY <1>1, FS_EmptySet, LoopAssumption DEF Positive
<1>3. Loop!TypeOK
  <2>1. /\ chan \in [LoopChannels -> E!ChannelType]
        /\ ready \in [LoopChannels -> SUBSET E!Events]
        /\ batch \subseteq LoopChannels
    BY <1>1, NewChannelIs
  <2>2. Cardinality(batch) <= MaxEventNums
    BY <1>2
  <2>3. QED
    BY <1>1, <2>1, <2>2, SameLoop DEF Loop!TypeOK
<1>4. Loop!KernelMirror
  BY <1>1, SameLoop, NewChannelIs DEF Loop!KernelMirror
<1>5. QED
  BY <1>2, <1>3, <1>4 DEF InvLoop

LEMMA StepLoop == ASSUME InvLoop, Loop!Next PROVE InvLoop'
<1>0. /\ chan \in [LoopChannels -> E!ChannelType]
      /\ ready \in [LoopChannels -> SUBSET E!Events]
      /\ pc \in {"setup", "poll", "handle", "exit", "dead"}
      /\ stage \in {"HUP", "IN", "OUT"}
      /\ batch \subseteq LoopChannels /\ Cardinality(batch) <= MaxEventNums
      /\ Loop!IsList(turn) /\ quit \in BOOLEAN /\ IsFiniteSet(batch)
      /\ \A c \in LoopChannels : E!Mirrors(chan[c])
  BY SameLoop DEF InvLoop, Loop!TypeOK, Loop!KernelMirror
<1>1. ASSUME chan' \in [LoopChannels -> E!ChannelType],
             ready' \in [LoopChannels -> SUBSET E!Events],
             pc' \in {"setup", "poll", "handle", "exit", "dead"},
             stage' \in {"HUP", "IN", "OUT"},
             batch' \subseteq LoopChannels, Cardinality(batch') <= MaxEventNums,
             Loop!IsList(turn'), quit' \in BOOLEAN, IsFiniteSet(batch'),
             \A c \in LoopChannels : E!Mirrors(chan'[c])
      PROVE  InvLoop'
  BY <1>1, SameLoop DEF InvLoop, Loop!TypeOK, Loop!KernelMirror
<1>2. CASE \E c \in LoopChannels : Loop!Call(c)
  <2>1. PICK c \in LoopChannels : Loop!Call(c)
    BY <1>2
  <2>2. PICK o \in E!Operations(chan[c]) :
          /\ chan' = [chan EXCEPT ![c] = o]
          /\ pc' = IF o.aborted THEN "dead" ELSE pc
          /\ UNCHANGED <<ready, stage, batch, turn, quit>>
    BY <2>1, SameLoop DEF Loop!Call
  <2>3. o \in E!ChannelType /\ E!Mirrors(o)
    <3>1. PICK ch \in E!ChannelType : ch = chan[c]
      BY <1>0
    <3>2. PICK X \in SUBSET E!Interest : o = E!SetEvents(ch, X)
      BY <2>2, <3>1, OperationsAre
    <3>3. E!Mirrors(ch)
      BY <1>0, <3>1
    <3>4. QED
      BY <3>2, <3>3, SetEventsIs
  <2>4. /\ chan' \in [LoopChannels -> E!ChannelType]
        /\ \A d \in LoopChannels : E!Mirrors(chan'[d])
    BY <1>0, <2>2, <2>3
  <2>5. pc' \in {"setup", "poll", "handle", "exit", "dead"}
    BY <1>0, <2>2
  <2>6. QED
    BY <1>0, <1>1, <2>2, <2>4, <2>5
<1>3. CASE Loop!Poll
  <2>1. PICK S : S = Loop!Served
    OBVIOUS
  <2>2. S \in SUBSET LoopChannels /\ Cardinality(S) <= MaxEventNums /\ IsFiniteSet(S)
    BY <1>0, <2>1, ServedFit, LoopAssumption, FS_Subset
  <2>3. /\ batch' = S /\ turn' = Loop!ToTheEnd(S) /\ stage' = "HUP" /\ pc' = "handle"
        /\ chan' = [c \in LoopChannels |->
                      IF c \in S
                      THEN [chan[c] EXCEPT !.revents = E!Reported(chan[c], ready[c])]
                      ELSE chan[c]]
        /\ UNCHANGED <<ready, quit>>
    BY <1>3, <2>1, SameLoop DEF Loop!Poll, Loop!Report
  <2>4. ASSUME NEW c \in LoopChannels
        PROVE  chan'[c] \in E!ChannelType /\ E!Mirrors(chan'[c])
    BY <1>0, <2>3, ReportedIs
  <2>5. chan' \in [LoopChannels -> E!ChannelType]
    BY <2>3, <2>4
  <2>6. Loop!IsList(turn')
    BY <1>0, <2>2, <2>3, ToTheEndIsList
  <2>7. QED
    BY <1>0, <1>1, <2>2, <2>3, <2>4, <2>5, <2>6
<1>4. CASE Loop!EndStage
  <2>1. /\ UNCHANGED <<chan, ready, turn, quit>>
        /\ batch' \subseteq batch
        /\ stage' \in {"HUP", "IN", "OUT"}
        /\ pc' \in {"setup", "poll", "handle", "exit", "dead"}
    BY <1>0, <1>4 DEF Loop!EndStage
  <2>2. IsFiniteSet(batch') /\ Cardinality(batch') <= MaxEventNums
    <3>1. PICK b : b = batch'
      OBVIOUS
    <3>2. IsFiniteSet(b) /\ Cardinality(b) <= Cardinality(batch)
      BY <1>0, <2>1, <3>1, FS_Subset
    <3>3. Cardinality(b) \in Nat /\ Cardinality(batch) \in Nat /\ MaxEventNums \in Nat
      BY <1>0, <3>2, FS_CardinalityType, LoopAssumption DEF Positive
    <3>4. QED
      BY <1>0, <3>1, <3>2, <3>3
  <2>3. QED
    BY <1>0, <1>1, <2>1, <2>2
<1>5. CASE \/ Loop!EnterLoop \/ Loop!LeaveLoop \/ Loop!Quit
  <2>1. /\ UNCHANGED <<chan, ready, stage, batch, turn>> /\ quit' \in {quit, TRUE}
        /\ pc' \in {pc, "poll", "exit"}
    BY <1>5 DEF Loop!EnterLoop, Loop!LeaveLoop, Loop!Quit
  <2>2. QED
    BY <1>0, <1>1, <2>1
<1>6. CASE \E c \in LoopChannels, e \in Loop!Interest : Loop!Consume(c, e)
  <2>1. PICK c \in LoopChannels, e \in Loop!Interest :
          /\ ready' = [ready EXCEPT ![c] = @ \ {e}]
          /\ UNCHANGED <<chan, pc, stage, batch, turn, quit>>
    BY <1>6 DEF Loop!Consume
  <2>2. ready' \in [LoopChannels -> SUBSET E!Events]
    BY <1>0, <2>1
  <2>3. QED
    BY <1>0, <1>1, <2>1, <2>2
<1>7. CASE \E c \in LoopChannels, e \in LoopConditions : Loop!Arrive(c, e)
  <2>1. PICK c \in LoopChannels, e \in LoopConditions :
          /\ ready' = [ready EXCEPT ![c] = @ \cup {e}]
          /\ UNCHANGED <<chan, pc, stage, batch, turn, quit>>
    BY <1>7 DEF Loop!Arrive
  <2>2. e \in E!Events
    BY LoopAssumption DEF E!Events, E!Interest
  <2>3. ready' \in [LoopChannels -> SUBSET E!Events]
    BY <1>0, <2>1, <2>2
  <2>4. QED
    BY <1>0, <1>1, <2>1, <2>3
<1>8. QED
  BY <1>2, <1>3, <1>4, <1>5, <1>6, <1>7 DEF Loop!Next, Loop!LoopStep

LEMMA AlwaysLoop == Spec => [](version = "loop" => InvLoop)
<1>1. Init => (version = "loop" => InvLoop)
  BY InitLoop DEF Init
<1>2. (version = "loop" => InvLoop) /\ [Next]_vars => (version = "loop" => InvLoop)'
  <2>1. ASSUME version = "loop", InvLoop, Next PROVE InvLoop'
    <3>1. Loop!Next
      BY <2>1 DEF Next, Of10, Of11, Of12, Of13, Of14, Of15, OfLoop
    <3>2. QED
      BY <2>1, <3>1, StepLoop
  <2>2. ASSUME InvLoop, UNCHANGED vars PROVE InvLoop'
    BY <2>2 DEF vars, InvLoop, Loop!TypeOK, Loop!IsList, Loop!KernelMirror
  <2>3. ASSUME Next PROVE version' = version
    BY <2>3 DEF Next, Of10, Of11, Of12, Of13, Of14, Of15, OfLoop
  <2>4. QED
    BY <2>1, <2>2, <2>3 DEF vars
<1>3. QED
  BY <1>1, <1>2, PTL DEF Spec
=============================================================================
