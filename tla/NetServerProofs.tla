-------------------------- MODULE NetServerProofs ---------------------------
(***************************************************************************)
(* For every set of connections, every size of the kernel's buffers and    *)
(* every application of the kind that each theorem names.  In this order:  *)
(* the server's state is well typed and the poller's bookkeeping mirrors   *)
(* the kernel's; a connected channel watches EPOLLOUT exactly while output *)
(* is pending, and no byte of output is lost, duplicated or moved; who     *)
(* owns a connection object, that epoll never holds a freed Channel and    *)
(* that the map holds the connected connections, or what the map holds     *)
(* when connections are removed in the UP callback; that the application   *)
(* is told UP and DOWN once; that the thread never sleeps on work; what    *)
(* the process dies of; that an echo server returns what it was sent; and  *)
(* that the server implements Connection.                                  *)
(***************************************************************************)
EXTENDS NetServer, TLAPS, SequenceTheorems

USE DEF ReadableEvent, WritableEvent, HangUp, Interest, Events, Faults

-----------------------------------------------------------------------------
(* What the operations of Channel keep: a channel whose bookkeeping mirrors  *)
(* the kernel's goes on mirroring it.                                        *)

(* One call keeps a channel well formed and mirrored, and leaves revents_. *)
Good(ch) == ch \in ChannelType /\ Mirrors(ch)

LEMMA NewChannelGood == Good(NewChannel)
BY DEF Good, Mirrors, NewChannel, ChannelType

(* epoll_ctl accepts an ADD or MOD that fits the kernel's state: the kernel *)
(* then watches events_, and nothing else of the channel changes.            *)
LEMMA Registers ==
    ASSUME NEW ch \in ChannelType, NEW op \in {"ADD", "MOD"},
           ch.added <=> op = "MOD"
    PROVE  LET d == EpollCtl(ch, op) IN
             /\ d \in ChannelType
             /\ d.added
             /\ d.mask = ch.events
             /\ d.events = ch.events
             /\ d.status = ch.status
             /\ d.fault = ch.fault
             /\ d.revents = ch.revents
<1> DEFINE a == [ch EXCEPT !.added = TRUE]
           d == [a EXCEPT !.mask = ch.events]
<1>1. EpollCtl(ch, op) = d
  BY DEF EpollCtl
<1>2. a \in ChannelType /\ a.added /\ a.events = ch.events
      /\ a.status = ch.status /\ a.fault = ch.fault /\ a.revents = ch.revents
  BY DEF ChannelType
<1> HIDE DEF a
<1>3. d \in ChannelType
  BY <1>2 DEF ChannelType
<1>4. d.mask = ch.events /\ d.events = ch.events /\ d.status = ch.status
      /\ d.fault = ch.fault /\ d.revents = ch.revents
  BY <1>2 DEF ChannelType
<1>5. d.added
  BY <1>2 DEF ChannelType
<1>6. QED
  BY <1>1, <1>3, <1>4, <1>5

LEMMA Unregisters ==
    ASSUME NEW ch \in ChannelType, ch.added
    PROVE  LET d == EpollCtl(ch, "DEL") IN
             /\ d \in ChannelType
             /\ ~d.added
             /\ d.events = ch.events
             /\ d.status = ch.status
             /\ d.fault = ch.fault
             /\ d.revents = ch.revents
<1> DEFINE a == [ch EXCEPT !.added = FALSE]
           d == [a EXCEPT !.mask = {}]
<1>1. EpollCtl(ch, "DEL") = d
  BY DEF EpollCtl
<1>2. a \in ChannelType /\ ~a.added /\ a.events = ch.events
      /\ a.status = ch.status /\ a.fault = ch.fault /\ a.revents = ch.revents
  BY DEF ChannelType
<1> HIDE DEF a
<1>3. d \in ChannelType
  BY <1>2 DEF ChannelType
<1>4. d.events = ch.events /\ d.status = ch.status
      /\ d.fault = ch.fault /\ d.revents = ch.revents
  BY <1>2 DEF ChannelType
<1>5. ~d.added
  BY <1>2 DEF ChannelType
<1>6. QED
  BY <1>1, <1>3, <1>4, <1>5

LEMMA SetStatus ==
    ASSUME NEW ch \in ChannelType, NEW st \in {"NEW", "ADDED", "DEL"}
    PROVE  LET d == [ch EXCEPT !.status = st] IN
             /\ d \in ChannelType
             /\ d.added <=> ch.added
             /\ d.mask = ch.mask
             /\ d.events = ch.events
             /\ d.status = st
             /\ d.fault = ch.fault
             /\ d.revents = ch.revents
BY DEF ChannelType

(* Epoller::updateChannel after events_ was set: the status decides the   *)
(* operation, and it is one that the kernel accepts.                       *)
LEMMA SetEventsGood ==
    ASSUME NEW ch, Good(ch), NEW E \in SUBSET Interest
    PROVE  /\ Good(SetEvents(ch, E))
           /\ SetEvents(ch, E).revents = ch.revents
           /\ SetEvents(ch, E).events = E
<1> DEFINE d == [ch EXCEPT !.events = E]
           e == SetEvents(ch, E)
<1>1. d \in ChannelType /\ (d.added <=> d.status = "ADDED") /\ d.fault # "epoll_ctl"
      /\ d.revents = ch.revents /\ d.events = E
  BY DEF Good, Mirrors, ChannelType
<1>2. e = UpdateChannel(d)
  BY DEF SetEvents
<1> HIDE DEF d, e
<1>3. CASE d.status \in {"NEW", "DEL"}
  <2> DEFINE a == [d EXCEPT !.status = "ADDED"]
  <2>1. e = EpollCtl(a, "ADD")
    BY <1>2, <1>3 DEF UpdateChannel
  <2>2. /\ a \in ChannelType /\ (a.added <=> d.added) /\ a.status = "ADDED"
        /\ a.fault = d.fault /\ a.revents = d.revents /\ a.events = d.events
    BY <1>1, SetStatus
  <2> HIDE DEF a
  <2>3. /\ ~a.added /\ a.fault # "epoll_ctl" /\ a.revents = ch.revents
        /\ a.events = E
    BY <1>1, <1>3, <2>2
  <2>4. QED
    BY <2>1, <2>2, <2>3, Registers DEF Good, Mirrors, e
<1>4. CASE d.status = "ADDED" /\ ~IsNoneEvent(d)
  <2>1. e = EpollCtl(d, "MOD")
    BY <1>2, <1>4 DEF UpdateChannel
  <2>2. QED
    BY <1>1, <1>4, <2>1, Registers DEF Good, Mirrors, e
<1>5. CASE d.status = "ADDED" /\ IsNoneEvent(d)
  <2> DEFINE a == [d EXCEPT !.status = "DEL"]
  <2>1. e = EpollCtl(a, "DEL")
    BY <1>2, <1>5 DEF UpdateChannel
  <2>2. /\ a \in ChannelType /\ (a.added <=> d.added) /\ a.status = "DEL"
        /\ a.fault = d.fault /\ a.revents = d.revents /\ a.events = d.events
    BY <1>1, SetStatus
  <2> HIDE DEF a
  <2>3. /\ a.added /\ a.fault # "epoll_ctl" /\ a.revents = ch.revents
        /\ a.events = E
    BY <1>1, <1>5, <2>2
  <2>4. QED
    BY <2>1, <2>2, <2>3, Unregisters DEF Good, Mirrors, e
<1>6. QED
  BY <1>1, <1>3, <1>4, <1>5 DEF ChannelType

LEMMA RemoveGood ==
    ASSUME NEW ch, Good(ch)
    PROVE  /\ Good(Remove(ch))
           /\ Remove(ch).revents = ch.revents
           /\ Remove(ch).events = ch.events
<1>1. ch \in ChannelType /\ (ch.added <=> ch.status = "ADDED") /\ ch.fault # "epoll_ctl"
      /\ (ch.added => ch.mask = ch.events)
  BY DEF Good, Mirrors
<1>2. CASE ~IsNoneEvent(ch)
  <2>1. Remove(ch) = [ch EXCEPT !.fault = "assert"]
    BY <1>2 DEF Remove
  <2>2. QED
    BY <1>1, <2>1 DEF Good, Mirrors, ChannelType
<1>3. CASE IsNoneEvent(ch) /\ ch.status = "ADDED"
  <2>1. Remove(ch) = [EpollCtl(ch, "DEL") EXCEPT !.status = "NEW"]
    BY <1>3 DEF Remove
  <2> DEFINE d == EpollCtl(ch, "DEL")
             e == [d EXCEPT !.status = "NEW"]
  <2>2. d \in ChannelType /\ ~d.added /\ d.fault # "epoll_ctl" /\ d.revents = ch.revents
        /\ d.events = ch.events
    BY <1>1, <1>3, Unregisters
  <2> HIDE DEF d
  <2>3. e \in ChannelType /\ ~e.added /\ e.status = "NEW"
        /\ e.fault # "epoll_ctl" /\ e.revents = ch.revents /\ e.events = ch.events
    BY <2>2, SetStatus
  <2> HIDE DEF e
  <2>4. Good(e)
    BY <2>3 DEF Good, Mirrors
  <2>5. QED
    BY <2>1, <2>3, <2>4 DEF e, d
<1>4. CASE IsNoneEvent(ch) /\ ch.status # "ADDED"
  <2>1. Remove(ch) = [ch EXCEPT !.status = "NEW"]
    BY <1>4 DEF Remove
  <2> DEFINE e == [ch EXCEPT !.status = "NEW"]
  <2>2. e \in ChannelType /\ ~e.added /\ e.status = "NEW"
        /\ e.fault # "epoll_ctl" /\ e.revents = ch.revents /\ e.events = ch.events
    BY <1>1, <1>4, SetStatus
  <2> HIDE DEF e
  <2>3. Good(e)
    BY <2>2 DEF Good, Mirrors
  <2>4. QED
    BY <2>1, <2>2, <2>3 DEF e
<1>5. QED
  BY <1>2, <1>3, <1>4

-----------------------------------------------------------------------------
(* Sequences. *)

(* A function on 1..n is a sequence. *)
LEMMA FunctionIsSeq ==
    ASSUME NEW S, NEW n \in Nat, NEW f \in [1..n -> S]
    PROVE  f \in Seq(S) /\ Len(f) = n
<1>1. f \in Seq(S)
  BY SeqDef
<1>2. Len(f) \in Nat /\ DOMAIN f = 1..Len(f)
  BY <1>1, LenProperties
<1>3. 1..n = 1..Len(f)
  BY <1>2
<1>4. QED
  BY <1>1, <1>2, <1>3

(* A sequence cut in two. *)
LEMMA CutSeq ==
    ASSUME NEW S, NEW b \in Seq(S), NEW n \in 0..Len(b)
    PROVE  /\ SubSeq(b, 1, n) \in Seq(S)
           /\ Len(SubSeq(b, 1, n)) = n
           /\ SubSeq(b, n + 1, Len(b)) \in Seq(S)
           /\ SubSeq(b, 1, n) \o SubSeq(b, n + 1, Len(b)) = b
<1>1. Len(b) \in Nat /\ \A i \in 1..Len(b) : b[i] \in S
  BY LenProperties
<1>2. SubSeq(b, 1, n) \in Seq(S) /\ Len(SubSeq(b, 1, n)) = n
  BY <1>1, SubSeqProperties
<1>3. SubSeq(b, n + 1, Len(b)) \in Seq(S)
  BY <1>1, SubSeqProperties
<1>4. SubSeq(b, 1, n) \o SubSeq(b, n + 1, Len(b)) = SubSeq(b, 1, Len(b))
  <2>1. 1 \in 1..Len(b) + 1 /\ n \in 1 - 1..Len(b) /\ Len(b) \in n..Len(b)
    BY <1>1
  <2>2. QED
    BY <2>1, ConcatAdjacentSubSeq
<1>5. QED
  BY <1>2, <1>3, <1>4, SubSeqFull

-----------------------------------------------------------------------------
(* One write() to a socket: what the kernel takes and what is left over are  *)
(* together what was written.                                                *)

LEMMA BytesConcat == \A x, y \in Bytes : x \o y \in Bytes
BY ConcatProperties DEF Bytes

(* Joining is associative.  The equation has a name, so that the provers can   *)
(* use the lemma of any sequences by their names alone.                        *)
Associates(x, y, z) == (x \o y) \o z = x \o (y \o z)

LEMMA BytesAssociate ==
    \A x \in Bytes : \A y \in Bytes : \A z \in Bytes : Associates(x, y, z)
<1> SUFFICES ASSUME NEW x \in Seq(Nat), NEW y \in Seq(Nat), NEW z \in Seq(Nat)
             PROVE  (x \o y) \o z = x \o (y \o z)
  BY Zenon DEF Bytes, Associates
<1>1. QED
  BY ONLY ConcatAssociative, SMTT(90)

LEMMA BytesAssoc ==
    \A x \in Bytes : \A y \in Bytes : \A z \in Bytes : (x \o y) \o z = x \o (y \o z)
BY BytesAssociate, Zenon DEF Associates

(* Four in a row: the two ways of cutting them are the same.                   *)
Regroups(a, i, x, y) == (a \o (i \o x)) \o y = (a \o i) \o (x \o y)

LEMMA BytesRegroup ==
    \A a \in Bytes : \A i \in Bytes : \A x \in Bytes : \A y \in Bytes :
        Regroups(a, i, x, y)
<1> SUFFICES ASSUME NEW a \in Bytes, NEW i \in Bytes, NEW x \in Bytes, NEW y \in Bytes
             PROVE  Regroups(a, i, x, y)
  BY Zenon
<1>1. i \o x \in Bytes /\ x \o y \in Bytes
  BY BytesConcat, Zenon
<1>2. /\ Associates(a, i \o x, y)
      /\ Associates(i, x, y)
      /\ Associates(a, i, x \o y)
  BY <1>1, BytesAssociate, Zenon
<1>3. QED
  BY <1>2, Zenon DEF Regroups, Associates

LEMMA BytesEmpty ==
    /\ \A x \in Bytes : x \o <<>> = x /\ <<>> \o x = x
    /\ <<>> \in Bytes
BY ConcatEmptySeq, EmptySeq DEF Bytes

LEMMA AcceptsRange ==
    ASSUME NEW s \in SockType, Len(s.snd) <= SndBuf, NEW n \in Nat
    PROVE  /\ Accepts(s, n) \in 0..n
           /\ Len(s.snd) + Accepts(s, n) <= SndBuf
           /\ s.rst => Accepts(s, n) = 0
<1>1. Len(s.snd) \in Nat /\ SndBuf \in Nat
  BY LenProperties, BoundsAssumption DEF SockType, Bytes
<1>2. QED
  BY <1>1 DEF Accepts, SockType

LEMMA WriteSplit ==
    ASSUME NEW s \in SockType, Len(s.snd) <= SndBuf, NEW b \in Bytes
    PROVE  LET t == AfterWrite(s, b)
               rest == Unwritten(s, b)
           IN /\ t \in SockType
              /\ Len(t.snd) <= SndBuf
              /\ rest \in Bytes
              /\ t.snd \o rest = s.snd \o b
              /\ t.fd = s.fd
              /\ t.rst = s.rst
              /\ t.rcv = s.rcv
              /\ t.fin = s.fin
              /\ s.rst => t.snd = s.snd
<1> DEFINE n == Accepts(s, Len(b))
           taken == SubSeq(b, 1, n)
           rest == SubSeq(b, n + 1, Len(b))
           t == AfterWrite(s, b)
<1>1. Len(b) \in Nat /\ Len(s.snd) \in Nat /\ s.snd \in Seq(Nat) /\ b \in Seq(Nat)
  BY LenProperties DEF SockType, Bytes
<1>2. n \in 0..Len(b) /\ Len(s.snd) + n <= SndBuf /\ (s.rst => n = 0)
  BY <1>1, AcceptsRange
<1> HIDE DEF n
<1>3. /\ taken \in Seq(Nat) /\ Len(taken) = n /\ rest \in Seq(Nat)
      /\ taken \o rest = b
  BY <1>1, <1>2, CutSeq
<1>4. Unwritten(s, b) = rest
  BY DEF Unwritten, n
<1>5. t = [s EXCEPT !.snd = s.snd \o taken, !.err = IF s.rst THEN "none" ELSE s.err]
  BY DEF AfterWrite, n
<1> HIDE DEF taken, rest, t
<1>6. /\ s.snd \o taken \in Seq(Nat)
      /\ Len(s.snd \o taken) = Len(s.snd) + n
  BY <1>1, <1>3, ConcatProperties
<1>7. /\ t.snd = s.snd \o taken /\ t.fd = s.fd /\ t.rst = s.rst
      /\ t.rcv = s.rcv /\ t.fin = s.fin
  BY <1>5 DEF SockType
<1>8. t \in SockType
  <2> DEFINE a == [s EXCEPT !.snd = s.snd \o taken]
             e == IF s.rst THEN "none" ELSE s.err
  <2>1. a \in SockType
    BY <1>6 DEF SockType, Bytes
  <2>2. e \in {"none", "ECONNRESET", "EPIPE"}
    BY DEF SockType
  <2>3. t = [a EXCEPT !.err = e]
    BY <1>5
  <2> HIDE DEF a, e
  <2>4. QED
    BY <2>1, <2>2, <2>3 DEF SockType
<1>9. t.snd \o rest = s.snd \o b
  <2> DEFINE x == s.snd
  <2>1. x \in Bytes /\ taken \in Bytes /\ rest \in Bytes
    BY <1>1, <1>3 DEF Bytes
  <2> HIDE DEF x
  <2>2. (x \o taken) \o rest = x \o (taken \o rest)
    BY ONLY <2>1, BytesAssoc, SMTT(30)
  <2>3. QED
    BY <1>3, <1>7, <2>2 DEF x
<1>10. ASSUME s.rst PROVE t.snd = s.snd
  <2>1. taken = <<>>
    BY <1>2, <1>10, SubSeqEmpty DEF taken
  <2>2. QED
    BY <1>1, <1>7, <2>1, ConcatEmptySeq
<1>11. Len(t.snd) <= SndBuf
  BY <1>2, <1>6, <1>7
<1>12. QED
  BY <1>3, <1>4, <1>7, <1>8, <1>9, <1>10, <1>11 DEF Bytes, t

-----------------------------------------------------------------------------
(* The part of the inductive invariant about each object by itself.  A short *)
(* write is only well defined while the kernel's buffer holds no more than   *)
(* it can; handleWrite() only meets connections because the accepting        *)
(* channel never watches EPOLLOUT.                                           *)

SndFits == \A c \in Conns : Len(sock[c].snd) <= SndBuf
ListenerReads == ~IsWriting(chan[Listener])

ObjectInv ==
    /\ TypeOK
    /\ SndFits
    /\ EpollMirror
    /\ ListenerReads

(* A call on one channel leaves the others alone. *)
LEMMA ChanStep ==
    ASSUME ObjectInv, NEW c \in Channels, NEW ch, Good(ch),
           c = Listener => ~IsWriting(ch),
           chan' = [chan EXCEPT ![c] = ch]
    PROVE  /\ chan' \in [Channels -> ChannelType]
           /\ EpollMirror'
           /\ ListenerReads'
BY DEF ObjectInv, TypeOK, EpollMirror, ListenerReads, Good, Channels

LEMMA ConnIsNotListener ==
    ASSUME NEW c \in Conns PROVE c \in Channels /\ c # Listener
BY ConnsAssumption DEF Channels

LEMMA ChanGood ==
    ASSUME ObjectInv, NEW c \in Channels PROVE Good(chan[c])
BY DEF ObjectInv, TypeOK, EpollMirror, Good

LEMMA GotoTyped ==
    ASSUME TypeOK, NEW p \in PCs, NEW ch, Good(ch), Goto(p, ch)
    PROVE  pc' \in PCs /\ cause' \in Causes
BY DEF Goto, TypeOK, PCs, Causes, Good, ChannelType

LEMMA SockStep ==
    ASSUME ObjectInv, NEW c \in Conns, NEW s \in SockType, Len(s.snd) <= SndBuf,
           sock' = [sock EXCEPT ![c] = s]
    PROVE  sock' \in [Conns -> SockType] /\ SndFits'
BY DEF ObjectInv, TypeOK, SndFits

LEMMA TcpStep ==
    ASSUME TypeOK, NEW c \in Conns, NEW t \in TcpType,
           tcp' = [tcp EXCEPT ![c] = t]
    PROVE  tcp' \in [Conns -> TcpType]
BY DEF TypeOK

(* The operations of Channel, on a channel of a connection. *)
LEMMA ChannelCalls ==
    ASSUME NEW ch, Good(ch)
    PROVE  /\ Good(EnabledReadable(ch))
           /\ EnabledReadable(ch).events = ch.events \cup {ReadableEvent}
           /\ Good(EnabledWritable(ch)) /\ IsWriting(EnabledWritable(ch))
           /\ Good(DisabledWritable(ch)) /\ ~IsWriting(DisabledWritable(ch))
           /\ Good(DiabledAllEvents(ch))
           /\ Good(Remove(ch))
           /\ IsWriting(Remove(ch)) <=> IsWriting(ch)
<1>1. ch.events \in SUBSET Interest
  BY DEF Good, ChannelType
<1>2. QED
  BY <1>1, SetEventsGood, RemoveGood DEF EnabledReadable, EnabledWritable,
     DisabledWritable, DiabledAllEvents, IsWriting

LEMMA StagesTyped ==
    ASSUME NEW s \in Stages
    PROVE  NextStage(s) \in Stages /\ AfterStage(s) \in PCs
BY DEF NextStage, AfterStage, Stages, PCs

(* The application is told, asks for output or shuts down. *)
LEMMA LogStep ==
    ASSUME TypeOK, NEW c \in Conns
    PROVE  /\ [log EXCEPT ![c].ups = @ + 1] \in [Conns -> LogType]
           /\ [log EXCEPT ![c].downs = @ + 1] \in [Conns -> LogType]
           /\ [log EXCEPT ![c].shut = TRUE] \in [Conns -> LogType]
           /\ \A b \in Bytes : [log EXCEPT ![c].asked = b] \in [Conns -> LogType]
<1>1. log[c] \in LogType
  BY DEF TypeOK
<1>2. log[c].ups + 1 \in Nat /\ log[c].downs + 1 \in Nat
  BY <1>1 DEF LogType
<1>3. /\ [log[c] EXCEPT !.ups = log[c].ups + 1] \in LogType
      /\ [log[c] EXCEPT !.downs = log[c].downs + 1] \in LogType
      /\ [log[c] EXCEPT !.shut = TRUE] \in LogType
      /\ \A b \in Bytes : [log[c] EXCEPT !.asked = b] \in LogType
  BY <1>1, <1>2 DEF LogType
<1>4. QED
  BY <1>3 DEF TypeOK

(* The kernel or the peer changes one attribute of a socket. *)
LEMMA SockField ==
    ASSUME TypeOK, NEW c \in Conns
    PROVE  /\ \A v \in {"none", "queued", "open"} :
                 [sock EXCEPT ![c].fd = v] \in [Conns -> SockType]
           /\ \A b \in Bytes : [sock EXCEPT ![c].rcv = b] \in [Conns -> SockType]
           /\ \A b \in Bytes : [sock EXCEPT ![c].snd = b] \in [Conns -> SockType]
           /\ [sock EXCEPT ![c].fin = TRUE] \in [Conns -> SockType]
           /\ [sock EXCEPT ![c].err = "none"] \in [Conns -> SockType]
<1>1. sock[c] \in SockType
  BY DEF TypeOK
<1>2. \A v \in {"none", "queued", "open"} : [sock[c] EXCEPT !.fd = v] \in SockType
  BY <1>1 DEF SockType
<1>3. \A b \in Bytes : [sock[c] EXCEPT !.rcv = b] \in SockType
  BY <1>1 DEF SockType
<1>4. \A b \in Bytes : [sock[c] EXCEPT !.snd = b] \in SockType
  BY <1>1 DEF SockType
<1>5. [sock[c] EXCEPT !.fin = TRUE] \in SockType
  BY <1>1 DEF SockType
<1>6. [sock[c] EXCEPT !.err = "none"] \in SockType
  BY <1>1 DEF SockType
<1>7. QED
  BY <1>2, <1>3, <1>4, <1>5, <1>6 DEF TypeOK

LEMMA InitObject == Init => ObjectInv
<1> SUFFICES ASSUME Init PROVE ObjectInv
  OBVIOUS
<1>1. \A c \in Channels : Good(chan[c]) /\ chan[c].events = {}
  BY NewChannelGood DEF Init, NewChannel
<1>2. Listener \in Channels
  BY DEF Channels
<1>3. <<>> \in Bytes /\ <<>> \in Seq(Conns) /\ Len(<<>>) <= SndBuf
  BY EmptySeq, BoundsAssumption DEF Bytes
<1>4. TypeOK
  BY <1>1, <1>2, <1>3 DEF Init, TypeOK, Good, TcpType, SockType, PeerType,
     LogType, States, Stages, PCs, Causes
<1>5. SndFits
  BY <1>3 DEF Init, SndFits
<1>6. EpollMirror /\ ListenerReads
  BY <1>1, <1>2 DEF EpollMirror, ListenerReads, Good, IsWriting
<1>7. QED
  BY <1>4, <1>5, <1>6 DEF ObjectInv

-----------------------------------------------------------------------------
(* The steps of the peers. *)

(* A step that leaves the program's objects alone only has to keep the       *)
(* kernel's and the peers' state well typed.                                 *)
LEMMA OutsideStep ==
    ASSUME ObjectInv, UNCHANGED <<objects, loopVars>>,
           sock' \in [Conns -> SockType], SndFits', backlog' \in Seq(Conns),
           peer' \in [Conns -> PeerType], log' \in [Conns -> LogType]
    PROVE  ObjectInv'
BY DEF ObjectInv, TypeOK, EpollMirror, ListenerReads, objects, loopVars

LEMMA ConnectObject ==
    ASSUME ObjectInv, NEW c \in Conns, Connect(c) PROVE ObjectInv'
<1>1. sock' \in [Conns -> SockType]
  BY SockField DEF ObjectInv, Connect
<1>2. SndFits'
  BY DEF ObjectInv, TypeOK, SockType, SndFits, Connect
<1>3. backlog' \in Seq(Conns)
  BY AppendProperties DEF ObjectInv, TypeOK, Connect
<1>4. QED
  BY <1>1, <1>2, <1>3, OutsideStep DEF Connect, ObjectInv, TypeOK

LEMMA PeerSendObject ==
    ASSUME ObjectInv, NEW c \in Conns, PeerSend(c) PROVE ObjectInv'
<1>1. peer[c].sent + 1 \in Nat /\ sock[c].rcv \in Seq(Nat)
  BY DEF ObjectInv, TypeOK, PeerType, SockType, Bytes
<1>2. Append(sock[c].rcv, peer[c].sent + 1) \in Bytes
  BY <1>1, AppendProperties DEF Bytes
<1>3. sock' = [sock EXCEPT ![c].rcv = Append(sock[c].rcv, peer[c].sent + 1)]
      /\ peer' = [peer EXCEPT ![c].sent = peer[c].sent + 1]
  BY DEF PeerSend, ObjectInv, TypeOK
<1>4. sock' \in [Conns -> SockType]
  BY <1>2, <1>3, SockField DEF ObjectInv
<1>5. SndFits'
  BY <1>3 DEF ObjectInv, TypeOK, SockType, SndFits
<1>6. peer' \in [Conns -> PeerType]
  BY <1>1, <1>3 DEF ObjectInv, TypeOK, PeerType
<1>7. QED
  BY <1>4, <1>5, <1>6, OutsideStep DEF PeerSend, ObjectInv, TypeOK

LEMMA PeerRecvObject ==
    ASSUME ObjectInv, NEW c \in Conns, PeerRecv(c) PROVE ObjectInv'
<1> DEFINE b == sock[c].snd
<1>1. b \in Seq(Nat) /\ b # <<>> /\ peer[c].got \in Seq(Nat) /\ Len(b) <= SndBuf
  BY DEF ObjectInv, TypeOK, SockType, PeerType, Bytes, PeerRecv, SndFits
<1>2. peer' = [peer EXCEPT ![c].got = Append(@, Head(b))]
      /\ sock' = [sock EXCEPT ![c].snd = Tail(b)]
  BY DEF PeerRecv
<1> HIDE DEF b
<1>3. Tail(b) \in Bytes /\ Head(b) \in Nat /\ Len(Tail(b)) <= SndBuf
  <2>1. Tail(b) \in Seq(Nat) /\ Head(b) \in Nat /\ Len(Tail(b)) = Len(b) - 1
    BY <1>1, HeadTailProperties
  <2>2. Len(b) \in Nat /\ SndBuf \in Nat
    BY <1>1, LenProperties, BoundsAssumption
  <2>3. QED
    BY <1>1, <2>1, <2>2 DEF Bytes
<1>4. Append(peer[c].got, Head(b)) \in Bytes
  BY <1>1, <1>3, AppendProperties DEF Bytes
<1>5. sock' \in [Conns -> SockType]
  BY <1>2, <1>3, SockField DEF ObjectInv
<1>6. SndFits'
  <2> HIDE DEF b
  <2>1. \A x \in Conns : sock'[x].snd = IF x = c THEN Tail(b) ELSE sock[x].snd
    BY <1>2 DEF ObjectInv, TypeOK, SockType
  <2>2. QED
    BY <1>3, <2>1 DEF ObjectInv, SndFits
<1>7. peer' \in [Conns -> PeerType]
  BY <1>2, <1>4 DEF ObjectInv, TypeOK, PeerType
<1>8. QED
  BY <1>5, <1>6, <1>7, OutsideStep DEF PeerRecv, ObjectInv, TypeOK

LEMMA PeerCloseObject ==
    ASSUME ObjectInv, NEW c \in Conns, PeerClose(c) PROVE ObjectInv'
<1>1. sock' \in [Conns -> SockType]
  BY SockField DEF ObjectInv, PeerClose
<1>2. SndFits'
  BY DEF ObjectInv, TypeOK, SockType, SndFits, PeerClose
<1>3. QED
  BY <1>1, <1>2, OutsideStep DEF PeerClose, ObjectInv, TypeOK

LEMMA PeerResetObject ==
    ASSUME ObjectInv, NEW c \in Conns, PeerReset(c) PROVE ObjectInv'
<1> DEFINE e == IF sock[c].fin THEN "EPIPE" ELSE "ECONNRESET"
           r == [sock[c] EXCEPT !.rst = TRUE]
           q == [r EXCEPT !.snd = <<>>]
           s == [q EXCEPT !.err = e]
<1>1. <<>> \in Bytes /\ Len(<<>>) <= SndBuf
  BY EmptySeq, BoundsAssumption DEF Bytes
<1>2. e \in {"none", "ECONNRESET", "EPIPE"}
  OBVIOUS
<1>3. sock' = [sock EXCEPT ![c] = s]
  BY DEF PeerReset
<1>4. r \in SockType
  <2>1. sock[c] \in SockType
    BY DEF ObjectInv, TypeOK
  <2>2. QED
    BY <2>1 DEF SockType
<1> HIDE DEF e, r
<1>5. q \in SockType /\ q.snd = <<>>
  BY <1>1, <1>4 DEF SockType
<1> HIDE DEF q
<1>6. s \in SockType /\ s.snd = <<>>
  BY <1>2, <1>5 DEF SockType
<1> HIDE DEF s
<1>7. sock' \in [Conns -> SockType] /\ SndFits'
  BY <1>1, <1>3, <1>6, SockStep
<1>8. QED
  BY <1>7, OutsideStep DEF PeerReset, ObjectInv, TypeOK

-----------------------------------------------------------------------------
(* The steps of the loop and of the handlers. *)

LEMMA CrashObject ==
    ASSUME ObjectInv, NEW why \in Causes, Crash(why) PROVE ObjectInv'
<1>1. "dead" \in PCs
  BY DEF PCs
<1>2. QED
  BY <1>1 DEF ObjectInv, TypeOK, SndFits, EpollMirror, ListenerReads, Crash,
     objects, network

(* A step that only moves the thread on. *)
LEMMA MoveObject ==
    ASSUME ObjectInv, UNCHANGED <<objects, network, who, caller, quit, cause, log>>,
           pc' \in PCs, stage' \in Stages, cur' \in Channels,
           active' \in SUBSET Channels
    PROVE  ObjectInv'
BY DEF ObjectInv, TypeOK, SndFits, EpollMirror, ListenerReads, objects, network

LEMMA StartObject == ASSUME ObjectInv, Start PROVE ObjectInv'
<1> DEFINE ch == EnabledReadable(chan[Listener])
<1>1. Listener \in Channels /\ "poll" \in PCs
  BY DEF Channels, PCs
<1>2. Good(ch) /\ ~IsWriting(ch)
  BY <1>1, ChanGood, ChannelCalls DEF ObjectInv, ListenerReads, IsWriting
<1>3. chan' = [chan EXCEPT ![Listener] = ch] /\ Goto("poll", ch)
  BY DEF Start
<1> HIDE DEF ch
<1>4. chan' \in [Channels -> ChannelType] /\ EpollMirror' /\ ListenerReads'
  BY <1>1, <1>2, <1>3, ChanStep
<1>5. pc' \in PCs /\ cause' \in Causes
  BY <1>1, <1>2, <1>3, GotoTyped DEF ObjectInv
<1>6. QED
  BY <1>4, <1>5 DEF Start, ObjectInv, TypeOK, SndFits, network

LEMMA PollObject == ASSUME ObjectInv, Poll PROVE ObjectInv'
<1>1. \A c \in Channels :
        Reported(chan[c], Ready(c)) \in SUBSET Events
  <2>1. \A c \in Channels : Ready(c) \in SUBSET Events
    BY DEF Ready, SocketEvents
  <2>2. QED
    BY <2>1 DEF Reported
<1>2. ASSUME NEW c \in Channels
      PROVE  /\ chan'[c] \in ChannelType
             /\ Mirrors(chan'[c])
             /\ chan'[c].events = chan[c].events
  <2> DEFINE r == Reported(chan[c], Ready(c))
             ch == [chan[c] EXCEPT !.revents = r]
  <2>1. chan[c] \in ChannelType /\ Mirrors(chan[c])
    BY DEF ObjectInv, TypeOK, EpollMirror
  <2>2. r \in SUBSET Events
    BY <1>1
  <2>3. chan'[c] = IF c \in ReadyChannels THEN ch ELSE chan[c]
    BY DEF Poll
  <2> HIDE DEF r
  <2>4. ch \in ChannelType
    BY <2>1, <2>2 DEF ChannelType
  <2>5. Mirrors(ch) /\ ch.events = chan[c].events
    BY <2>1 DEF ChannelType, Mirrors
  <2>6. QED
    BY <2>1, <2>3, <2>4, <2>5
<1>3. chan' \in [Channels -> ChannelType]
  BY <1>2 DEF Poll
<1>4. EpollMirror' /\ ListenerReads'
  BY <1>2 DEF ObjectInv, EpollMirror, ListenerReads, IsWriting, Channels
<1>5. active' \in SUBSET Channels /\ "dispatch" \in PCs
  BY DEF Poll, ReadyChannels, PCs
<1>6. QED
  BY <1>3, <1>4, <1>5 DEF Poll, ObjectInv, TypeOK, SndFits, network

LEMMA StartHandleObject ==
    ASSUME ObjectInv, NEW c \in Channels, StartHandle(c) PROVE ObjectInv'
<1>1. "HUP" \in Stages /\ "handle" \in PCs
  BY DEF Stages, PCs
<1>2. QED
  BY <1>1, MoveObject DEF StartHandle, ObjectInv, TypeOK

LEMMA EndBatchObject == ASSUME ObjectInv, EndBatch PROVE ObjectInv'
<1>1. "exit" \in PCs /\ "poll" \in PCs
  BY DEF PCs
<1>2. QED
  BY <1>1, MoveObject DEF EndBatch, ObjectInv, TypeOK

LEMMA SkipStageObject == ASSUME ObjectInv, SkipStage PROVE ObjectInv'
<1>1. stage' \in Stages /\ pc' \in PCs
  BY StagesTyped DEF SkipStage, ObjectInv, TypeOK
<1>2. QED
  BY <1>1, MoveObject DEF SkipStage, ObjectInv, TypeOK

LEMMA ReadFreedObject == ASSUME ObjectInv, ReadFreedChannel PROVE ObjectInv'
<1>1. "wild" \in Causes
  BY DEF Causes
<1>2. QED
  BY <1>1, CrashObject DEF ReadFreedChannel

LEMMA AcceptFailsObject == ASSUME ObjectInv, AcceptFails PROVE ObjectInv'
<1>1. "accept" \in Causes /\ "socket" \in Causes
  BY DEF Causes
<1>2. QED
  BY <1>1, CrashObject DEF AcceptFails

LEMMA AcceptObject == ASSUME ObjectInv, Accept PROVE ObjectInv'
<1> DEFINE c == Head(backlog)
           ch == EnabledReadable(NewChannel)
           t == [state |-> "CONNECTED", live |-> TRUE, input |-> <<>>, output |-> <<>>]
<1>1. c \in Conns /\ Tail(backlog) \in Seq(Conns)
  BY HeadTailProperties DEF ObjectInv, TypeOK, Accept
<1>2. /\ chan' = [chan EXCEPT ![c] = ch]
      /\ tcp' = [tcp EXCEPT ![c] = t]
      /\ log' = [log EXCEPT ![c].ups = @ + 1]
      /\ who' = c
      /\ Goto("up", ch)
      /\ sock' = [sock EXCEPT ![c].fd = "open"]
  BY DEF Accept, Established
<1> HIDE DEF c
<1>3. Good(ch) /\ ~IsWriting(ch)
  BY NewChannelGood, ChannelCalls DEF NewChannel, IsWriting
<1>4. t \in TcpType
  BY BytesEmpty DEF TcpType, States
<1> HIDE DEF ch, t
<1>5. chan' \in [Channels -> ChannelType] /\ EpollMirror' /\ ListenerReads'
  BY <1>1, <1>2, <1>3, ChanStep, ConnIsNotListener
<1>6. tcp' \in [Conns -> TcpType]
  BY <1>1, <1>2, <1>4, TcpStep DEF ObjectInv
<1>7. log' \in [Conns -> LogType]
  BY <1>1, <1>2, LogStep DEF ObjectInv
<1>8. sock' \in [Conns -> SockType] /\ SndFits'
  <2>1. sock' \in [Conns -> SockType]
    BY <1>1, <1>2, SockField DEF ObjectInv
  <2>2. SndFits'
    BY <1>2 DEF ObjectInv, TypeOK, SockType, SndFits
  <2>3. QED
    BY <2>1, <2>2
<1>9. pc' \in PCs /\ cause' \in Causes
  <2>1. "up" \in PCs
    BY DEF PCs, Callbacks
  <2>2. QED
    BY <1>2, <1>3, <2>1, GotoTyped DEF ObjectInv
<1>10. QED
  BY <1>1, <1>2, <1>5, <1>6, <1>7, <1>8, <1>9 DEF Accept, ObjectInv, TypeOK

LEMMA ReturnUpObject == ASSUME ObjectInv, ReturnUp PROVE ObjectInv'
<1>1. stage' \in Stages /\ pc' \in PCs
  BY StagesTyped DEF ReturnUp, ObjectInv, TypeOK
<1>2. QED
  BY <1>1 DEF ReturnUp, ObjectInv, TypeOK, SndFits, EpollMirror, ListenerReads,
     network

LEMMA HandleCloseObject ==
    ASSUME ObjectInv, NEW c \in Conns, HandleClose(c) PROVE ObjectInv'
<1> DEFINE ch == DiabledAllEvents(chan[c])
<1>1. /\ chan' = [chan EXCEPT ![c] = ch]
      /\ tcp' = [tcp EXCEPT ![c].state = "DISCONNECTED"]
      /\ log' = [log EXCEPT ![c].downs = @ + 1]
      /\ Goto("down", ch)
  BY DEF HandleClose
<1>2. Good(ch)
  BY ConnIsNotListener, ChanGood, ChannelCalls
<1> HIDE DEF ch
<1>3. chan' \in [Channels -> ChannelType] /\ EpollMirror' /\ ListenerReads'
  BY <1>1, <1>2, ChanStep, ConnIsNotListener
<1>4. tcp' \in [Conns -> TcpType]
  BY <1>1 DEF ObjectInv, TypeOK, TcpType, States
<1>5. log' \in [Conns -> LogType]
  BY <1>1, LogStep DEF ObjectInv
<1>6. pc' \in PCs /\ cause' \in Causes
  <2>1. "down" \in PCs
    BY DEF PCs, Callbacks
  <2>2. QED
    BY <1>1, <1>2, <2>1, GotoTyped DEF ObjectInv
<1>7. QED
  BY <1>3, <1>4, <1>5, <1>6 DEF HandleClose, ObjectInv, TypeOK, SndFits, network

LEMMA ReadBytesObject ==
    ASSUME ObjectInv, NEW c \in Conns, NEW n \in 1..Len(sock[c].rcv), ReadBytes(c, n)
    PROVE  ObjectInv'
<1> DEFINE b == sock[c].rcv
           taken == SubSeq(b, 1, n)
           left == SubSeq(b, n + 1, Len(b))
           input == tcp[c].input \o taken
<1>1. b \in Seq(Nat) /\ n \in 0..Len(b) /\ tcp[c].input \in Bytes
  BY LenProperties DEF ObjectInv, TypeOK, SockType, TcpType, Bytes
<1>2. /\ sock' = [sock EXCEPT ![c].rcv = left]
      /\ tcp' = [tcp EXCEPT ![c].input = input]
      /\ who' = c
      /\ pc' = "message"
  BY DEF ReadBytes
<1> HIDE DEF b
<1>3. taken \in Bytes /\ left \in Bytes
  BY <1>1, CutSeq DEF Bytes
<1> HIDE DEF taken, left
<1>4. input \in Bytes
  BY <1>1, <1>3, BytesConcat, Zenon
<1> HIDE DEF input
<1>5. sock' \in [Conns -> SockType] /\ SndFits'
  <2>1. sock' \in [Conns -> SockType]
    BY <1>2, <1>3, SockField DEF ObjectInv
  <2>2. SndFits'
    BY <1>2 DEF ObjectInv, TypeOK, SockType, SndFits
  <2>3. QED
    BY <2>1, <2>2
<1>6. tcp' \in [Conns -> TcpType]
  BY <1>2, <1>4 DEF ObjectInv, TypeOK, TcpType
<1>7. "message" \in PCs
  BY DEF PCs, Callbacks
<1>8. QED
  BY <1>2, <1>5, <1>6, <1>7 DEF ReadBytes, ObjectInv, TypeOK, EpollMirror, ListenerReads

LEMMA ReadErrorObject ==
    ASSUME ObjectInv, NEW c \in Conns, ReadError(c) PROVE ObjectInv'
<1>1. sock' \in [Conns -> SockType] /\ SndFits'
  <2>1. sock' \in [Conns -> SockType]
    BY SockField DEF ObjectInv, ReadError
  <2>2. SndFits'
    BY DEF ObjectInv, TypeOK, SockType, SndFits, ReadError
  <2>3. QED
    BY <2>1, <2>2
<1>2. stage' \in Stages /\ pc' \in PCs
  BY StagesTyped DEF ReadError, ObjectInv, TypeOK
<1>3. QED
  BY <1>1, <1>2 DEF ReadError, ObjectInv, TypeOK, EpollMirror, ListenerReads, objects

(* What a read may return is no more than what was received. *)
LEMMA ReadResultsRange ==
    ASSUME NEW s, NEW n \in ReadResults(s), n > 0
    PROVE  n \in 1..Len(s.rcv)
BY DEF ReadResults

LEMMA HandleReadObject == ASSUME ObjectInv, HandleRead PROVE ObjectInv'
<1>1. PICK n \in ReadResults(sock[cur]) :
          IF n > 0 THEN ReadBytes(cur, n)
          ELSE IF n = 0 THEN HandleClose(cur)
          ELSE ReadError(cur)
  BY DEF HandleRead
<1>2. cur \in Conns
  BY DEF HandleRead
<1>3. CASE n > 0
  BY <1>1, <1>2, <1>3, ReadResultsRange, ReadBytesObject
<1>4. CASE ~(n > 0)
  BY <1>1, <1>2, <1>4, HandleCloseObject, ReadErrorObject
<1>5. QED
  BY <1>3, <1>4

LEMMA DestroyedTyped ==
    ASSUME NEW t \in TcpType PROVE Destroyed(t) \in TcpType
<1> DEFINE u == [t EXCEPT !.live = FALSE]
           v == [u EXCEPT !.input = <<>>]
           w == [v EXCEPT !.output = <<>>]
<1>1. Destroyed(t) = w
  BY DEF Destroyed
<1>2. u \in TcpType
  BY DEF TcpType
<1> HIDE DEF u
<1>3. v \in TcpType
  BY <1>2, BytesEmpty DEF TcpType
<1> HIDE DEF v
<1>4. w \in TcpType
  BY <1>3, BytesEmpty DEF TcpType
<1>5. QED
  BY <1>1, <1>4

LEMMA ReturnMessageObject == ASSUME ObjectInv, ReturnMessage PROVE ObjectInv'
<1>1. stage' \in Stages /\ pc' \in PCs
  BY StagesTyped DEF ReturnMessage, ObjectInv, TypeOK
<1>2. tcp' \in [Conns -> TcpType]
  BY DestroyedTyped DEF ReturnMessage, ObjectInv, TypeOK
<1>3. QED
  BY <1>1, <1>2 DEF ReturnMessage, ObjectInv, TypeOK, SndFits, EpollMirror,
     ListenerReads, network

LEMMA WritePendingObject ==
    ASSUME ObjectInv, NEW c \in Conns, WritePending(c) PROVE ObjectInv'
<1> DEFINE s == AfterWrite(sock[c], tcp[c].output)
           rest == Unwritten(sock[c], tcp[c].output)
           ch == Drained(c, rest)
<1>1. sock[c] \in SockType /\ Len(sock[c].snd) <= SndBuf /\ tcp[c].output \in Bytes
  BY DEF ObjectInv, TypeOK, SndFits, TcpType
<1>2. s \in SockType /\ Len(s.snd) <= SndBuf /\ rest \in Bytes
  BY <1>1, WriteSplit
<1>3. Good(ch)
  BY ConnIsNotListener, ChanGood, ChannelCalls DEF Drained
<1>4. /\ sock' = [sock EXCEPT ![c] = s]
      /\ tcp' = [tcp EXCEPT ![c].output = rest]
      /\ chan' = [chan EXCEPT ![c] = ch]
      /\ stage' = NextStage(stage)
      /\ \/ pc' = "dead" /\ cause' = "shutdown"
         \/ Goto(AfterStage(stage), ch)
  BY DEF WritePending
<1> HIDE DEF s, rest, ch
<1>5. sock' \in [Conns -> SockType] /\ SndFits'
  BY <1>2, <1>4, SockStep
<1>6. tcp' \in [Conns -> TcpType]
  BY <1>2, <1>4 DEF ObjectInv, TypeOK, TcpType
<1>7. chan' \in [Channels -> ChannelType] /\ EpollMirror' /\ ListenerReads'
  BY <1>3, <1>4, ChanStep, ConnIsNotListener
<1>8. stage' \in Stages /\ AfterStage(stage) \in PCs
  BY <1>4, StagesTyped DEF ObjectInv, TypeOK
<1>9. pc' \in PCs /\ cause' \in Causes
  <2>1. "dead" \in PCs /\ "shutdown" \in Causes
    BY DEF PCs, Causes
  <2>2. QED
    BY <1>3, <1>4, <1>8, <2>1, GotoTyped DEF ObjectInv
<1>10. QED
  BY <1>5, <1>6, <1>7, <1>8, <1>9 DEF WritePending, ObjectInv, TypeOK

LEMMA HandleWriteObject == ASSUME ObjectInv, HandleWrite PROVE ObjectInv'
<1>1. CASE ~IsWriting(chan[cur])
  <2>1. stage' \in Stages /\ pc' \in PCs
    BY <1>1, StagesTyped DEF HandleWrite, ObjectInv, TypeOK
  <2>2. QED
    BY <1>1, <2>1, MoveObject DEF HandleWrite, ObjectInv, TypeOK
<1>2. CASE IsWriting(chan[cur])
  <2>1. cur \in Conns
    BY <1>2 DEF ObjectInv, TypeOK, ListenerReads, Channels
  <2>2. "sigpipe" \in Causes /\ "write" \in Causes
    BY DEF Causes
  <2>3. Crash("sigpipe") \/ Crash("write") \/ WritePending(cur)
    BY <1>2 DEF HandleWrite
  <2>4. QED
    BY <2>1, <2>2, <2>3, CrashObject, WritePendingObject
<1>3. QED
  BY <1>1, <1>2

-----------------------------------------------------------------------------
(* removeConnection() and connectionDestroy(). *)

LEMMA RemoveChannelObject ==
    ASSUME ObjectInv, NEW c \in Conns, NEW back \in PCs, RemoveChannel(c, back),
           tcpConnections' \in SUBSET Conns,
           UNCHANGED <<network, cur, who, caller, active, quit, log>>
    PROVE  ObjectInv'
<1> DEFINE ch == Remove(chan[c])
           next == IF back = "handle" THEN AfterStage(stage) ELSE back
<1>1. Good(ch)
  BY ConnIsNotListener, ChanGood, ChannelCalls
<1>2. /\ chan' = [chan EXCEPT ![c] = ch]
      /\ tcp' = [tcp EXCEPT ![c] = Destroyed(@)] \/ tcp' = tcp
      /\ stage' = NextStage(stage) \/ stage' = stage
      /\ Goto(next, ch)
  BY DEF RemoveChannel
<1>3. stage' \in Stages /\ next \in PCs
  BY <1>2, StagesTyped DEF ObjectInv, TypeOK
<1> HIDE DEF ch, next
<1>4. chan' \in [Channels -> ChannelType] /\ EpollMirror' /\ ListenerReads'
  BY <1>1, <1>2, ChanStep, ConnIsNotListener
<1>5. tcp' \in [Conns -> TcpType]
  BY <1>2, DestroyedTyped DEF ObjectInv, TypeOK
<1>6. pc' \in PCs /\ cause' \in Causes
  BY <1>1, <1>2, <1>3, GotoTyped DEF ObjectInv
<1>7. QED
  BY <1>3, <1>4, <1>5, <1>6 DEF ObjectInv, TypeOK, SndFits, network

LEMMA RemoveConnectionObject ==
    ASSUME ObjectInv, NEW c \in Conns, NEW back \in {"up", "message", "handle"},
           RemoveConnection(c, back)
    PROVE  ObjectInv'
<1>1. back \in PCs /\ "removed" \in PCs
  BY DEF PCs, Callbacks
<1>2. tcpConnections' \in SUBSET Conns
  BY DEF RemoveConnection, ObjectInv, TypeOK
<1>3. CASE tcp[c].state = "CONNECTED"
  <2> DEFINE ch == DiabledAllEvents(chan[c])
  <2>1. /\ chan' = [chan EXCEPT ![c] = ch]
        /\ tcp' = [tcp EXCEPT ![c].state = "DISCONNECTED"]
        /\ log' = [log EXCEPT ![c].downs = @ + 1]
        /\ caller' = back
        /\ Goto("removed", ch)
        /\ UNCHANGED stage
    BY <1>3 DEF RemoveConnection, ConnectionDestroy
  <2>2. Good(ch)
    BY ConnIsNotListener, ChanGood, ChannelCalls
  <2> HIDE DEF ch
  <2>3. chan' \in [Channels -> ChannelType] /\ EpollMirror' /\ ListenerReads'
    BY <2>1, <2>2, ChanStep, ConnIsNotListener
  <2>4. tcp' \in [Conns -> TcpType]
    BY <2>1 DEF ObjectInv, TypeOK, TcpType, States
  <2>5. log' \in [Conns -> LogType]
    BY <2>1, LogStep DEF ObjectInv
  <2>6. pc' \in PCs /\ cause' \in Causes
    BY <1>1, <2>1, <2>2, GotoTyped DEF ObjectInv
  <2>7. QED
    BY <1>2, <2>1, <2>3, <2>4, <2>5, <2>6
       DEF RemoveConnection, ObjectInv, TypeOK, SndFits, network
<1>4. CASE tcp[c].state # "CONNECTED"
  BY <1>1, <1>2, <1>4, RemoveChannelObject DEF RemoveConnection, ConnectionDestroy
<1>5. QED
  BY <1>3, <1>4

LEMMA ReturnRemovedObject == ASSUME ObjectInv, ReturnRemoved PROVE ObjectInv'
<1>1. caller \in PCs /\ who \in Conns
  BY DEF ObjectInv, TypeOK, PCs, Callbacks
<1>2. tcpConnections' \in SUBSET Conns
  BY DEF ReturnRemoved, ObjectInv, TypeOK
<1>3. QED
  BY <1>1, <1>2, RemoveChannelObject DEF ReturnRemoved

-----------------------------------------------------------------------------
(* The application's calls. *)

LEMMA SendBytesObject ==
    ASSUME ObjectInv, NEW c \in Conns, NEW b \in Bytes, NEW left \in Bytes,
           SendBytes(c, b, left)
    PROVE  ObjectInv'
<1> DEFINE s == AfterWrite(sock[c], b)
           rest == IF WritesDirectly(c) THEN Unwritten(sock[c], b) ELSE b
           ch == Watching(c, rest)
           out == tcp[c].output \o rest
           t == [tcp[c] EXCEPT !.output = out]
           u == [t EXCEPT !.input = left]
           asked == log[c].asked \o b
<1>1. /\ sock[c] \in SockType /\ Len(sock[c].snd) <= SndBuf
      /\ tcp[c] \in TcpType /\ tcp[c].output \in Bytes /\ log[c].asked \in Bytes
  BY DEF ObjectInv, TypeOK, SndFits, TcpType, LogType
<1>2. s \in SockType /\ Len(s.snd) <= SndBuf /\ rest \in Bytes
  BY <1>1, WriteSplit
<1>3. Good(ch)
  BY ConnIsNotListener, ChanGood, ChannelCalls DEF Watching
<1>4. CASE Crash("sigpipe")
  <2>1. "sigpipe" \in Causes
    BY DEF Causes
  <2>2. QED
    BY <1>4, <2>1, CrashObject
<1>5. CASE ~Crash("sigpipe")
  <2>1. /\ sock' = sock \/ sock' = [sock EXCEPT ![c] = s]
        /\ tcp' = [tcp EXCEPT ![c] = u]
        /\ chan' = [chan EXCEPT ![c] = ch]
        /\ log' = [log EXCEPT ![c].asked = asked]
        /\ Goto(pc, ch)
        /\ UNCHANGED <<tcpConnections, backlog, peer, stage, cur, who, caller,
                       active, quit>>
    BY <1>5 DEF SendBytes, ObjectInv, TypeOK
  <2> HIDE DEF s, rest, ch
  <2>2. out \in Bytes /\ asked \in Bytes
    BY <1>1, <1>2, BytesConcat, Zenon
  <2> HIDE DEF out, asked
  <2>3. t \in TcpType
    BY <1>1, <2>2 DEF TcpType
  <2> HIDE DEF t
  <2>4. u \in TcpType
    BY <2>3 DEF TcpType
  <2> HIDE DEF u
  <2>5. sock' \in [Conns -> SockType] /\ SndFits'
    BY <1>2, <2>1, SockStep DEF ObjectInv, TypeOK, SndFits
  <2>6. tcp' \in [Conns -> TcpType]
    BY <2>1, <2>4, TcpStep DEF ObjectInv
  <2>7. chan' \in [Channels -> ChannelType] /\ EpollMirror' /\ ListenerReads'
    BY <1>3, <2>1, ChanStep, ConnIsNotListener
  <2>8. log' \in [Conns -> LogType]
    BY <2>1, <2>2, LogStep DEF ObjectInv
  <2>9. pc' \in PCs /\ cause' \in Causes
    BY <1>3, <2>1, GotoTyped DEF ObjectInv, TypeOK
  <2>10. QED
    BY <2>1, <2>5, <2>6, <2>7, <2>8, <2>9 DEF ObjectInv, TypeOK
<1>6. QED
  BY <1>4, <1>5

LEMMA UserSendObject == ASSUME ObjectInv, UserSend PROVE ObjectInv'
<1>1. Message \in Bytes /\ who \in Conns /\ tcp[who].input \in Bytes
  BY BoundsAssumption DEF ObjectInv, TypeOK, TcpType, Bytes
<1>2. QED
  BY <1>1, SendBytesObject DEF UserSend

LEMMA UserEchoObject == ASSUME ObjectInv, UserEcho PROVE ObjectInv'
<1>1. <<>> \in Bytes /\ who \in Conns /\ tcp[who].input \in Bytes
  BY BytesEmpty DEF ObjectInv, TypeOK, TcpType
<1>2. QED
  BY <1>1, SendBytesObject DEF UserEcho

LEMMA UserRetrieveObject == ASSUME ObjectInv, UserRetrieve PROVE ObjectInv'
<1>1. tcp' \in [Conns -> TcpType]
  BY BytesEmpty DEF UserRetrieve, ObjectInv, TypeOK, TcpType
<1>2. QED
  BY <1>1 DEF UserRetrieve, ObjectInv, TypeOK, SndFits, EpollMirror,
     ListenerReads, network, loopVars

LEMMA UserShutdownObject == ASSUME ObjectInv, UserShutdown PROVE ObjectInv'
<1>1. log' \in [Conns -> LogType]
  BY LogStep DEF UserShutdown, ObjectInv, TypeOK
<1>2. pc' \in PCs /\ cause' \in Causes
  BY DEF UserShutdown, ObjectInv, TypeOK, PCs, Causes
<1>3. QED
  BY <1>1, <1>2 DEF UserShutdown, ObjectInv, TypeOK, SndFits, EpollMirror,
     ListenerReads, objects, network

LEMMA UserRemoveObject == ASSUME ObjectInv, UserRemove PROVE ObjectInv'
<1>1. who \in Conns /\ pc \in {"up", "message"}
  BY CallsAssumption DEF UserRemove, May, ObjectInv, TypeOK
<1>2. QED
  BY <1>1, RemoveConnectionObject DEF UserRemove

LEMMA NextObject == ObjectInv /\ [Next]_vars => ObjectInv'
<1> SUFFICES ASSUME ObjectInv, [Next]_vars PROVE ObjectInv'
  OBVIOUS
<1>1. CASE LoopStep
  <2>1. CASE HangUpEvent
    BY <2>1, HandleCloseObject DEF HangUpEvent
  <2>2. CASE ReturnDown
    BY <2>2, RemoveConnectionObject DEF ReturnDown, ObjectInv, TypeOK
  <2>3. QED
    BY <1>1, <2>1, <2>2, StartObject, PollObject, StartHandleObject, EndBatchObject,
       SkipStageObject, ReadFreedObject, AcceptFailsObject, AcceptObject,
       ReturnUpObject, HandleReadObject, ReturnMessageObject, HandleWriteObject,
       ReturnRemovedObject
       DEF LoopStep
<1>2. CASE UserStep
  <2>1. CASE UserQuit
    BY <2>1 DEF UserQuit, ObjectInv, TypeOK, SndFits, EpollMirror, ListenerReads,
       objects, network
  <2>2. QED
    BY <1>2, <2>1, UserSendObject, UserEchoObject, UserRetrieveObject,
       UserShutdownObject, UserRemoveObject
       DEF UserStep
<1>3. CASE PeerStep
  BY <1>3, ConnectObject, PeerSendObject, PeerRecvObject, PeerCloseObject,
     PeerResetObject
     DEF PeerStep
<1>4. CASE UNCHANGED vars
  BY <1>4 DEF vars, ObjectInv, TypeOK, SndFits, EpollMirror, ListenerReads
<1>5. QED
  BY <1>1, <1>2, <1>3, <1>4 DEF Next

(* Every reachable state of the server is well typed. *)
THEOREM TypeCorrect == Spec => []TypeOK
<1>1. ObjectInv => TypeOK
  BY DEF ObjectInv
<1>2. QED
  BY <1>1, InitObject, NextObject, PTL DEF Spec

(* epoll_ctl never fails and every channel's bookkeeping agrees with the      *)
(* kernel, whatever the peers and the application do.  (Epoller.cpp:56-106)   *)
THEOREM MirrorCorrect == Spec => []EpollMirror
<1>1. ObjectInv => EpollMirror
  BY DEF ObjectInv
<1>2. QED
  BY <1>1, InitObject, NextObject, PTL DEF Spec

-----------------------------------------------------------------------------
(* EPOLLOUT and pending output.  The invariant is about one connection at a  *)
(* time: a step has to keep it for the connection whose channel or output it *)
(* changes.                                                                  *)

Consistent(ch, t) ==
    t.live /\ t.state = "CONNECTED" => (IsWriting(ch) <=> t.output # <<>>)

LEMMA OneConsistent ==
    ASSUME ObjectInv, WritingIffPending, NEW c \in Conns, NEW ch, NEW t,
           chan' = [chan EXCEPT ![c] = ch], tcp' = [tcp EXCEPT ![c] = t],
           Consistent(ch, t)
    PROVE  WritingIffPending'
BY ConnIsNotListener DEF WritingIffPending, Consistent, ObjectInv, TypeOK

LEMMA AcceptWriting ==
    ASSUME ObjectInv, WritingIffPending, Accept PROVE WritingIffPending'
<1> DEFINE c == Head(backlog)
           ch == EnabledReadable(NewChannel)
           t == [state |-> "CONNECTED", live |-> TRUE, input |-> <<>>, output |-> <<>>]
<1>1. c \in Conns
  BY HeadTailProperties DEF ObjectInv, TypeOK, Accept
<1>2. chan' = [chan EXCEPT ![c] = ch] /\ tcp' = [tcp EXCEPT ![c] = t]
  BY DEF Accept, Established
<1>3. ~IsWriting(ch)
  BY NewChannelGood, ChannelCalls DEF NewChannel, IsWriting
<1>4. Consistent(ch, t)
  BY <1>3 DEF Consistent
<1> HIDE DEF c, ch, t
<1>5. QED
  BY <1>1, <1>2, <1>4, OneConsistent

LEMMA HandleCloseWriting ==
    ASSUME ObjectInv, WritingIffPending, NEW c \in Conns, HandleClose(c)
    PROVE  WritingIffPending'
<1> DEFINE ch == DiabledAllEvents(chan[c])
           t == [tcp[c] EXCEPT !.state = "DISCONNECTED"]
<1>1. chan' = [chan EXCEPT ![c] = ch] /\ tcp' = [tcp EXCEPT ![c] = t]
  BY DEF HandleClose, ObjectInv, TypeOK
<1>2. Consistent(ch, t)
  BY DEF Consistent, ObjectInv, TypeOK, TcpType
<1> HIDE DEF ch, t
<1>3. QED
  BY <1>1, <1>2, OneConsistent

(* A step that changes neither a channel's events nor a connection's output. *)
LEMMA SameOutput ==
    ASSUME WritingIffPending,
           \A c \in Conns : /\ chan'[c].events = chan[c].events
                            /\ tcp'[c].live => tcp[c].live
                            /\ tcp'[c].state = tcp[c].state
                            /\ tcp'[c].live => tcp'[c].output = tcp[c].output
    PROVE  WritingIffPending'
BY DEF WritingIffPending, IsWriting

LEMMA WritePendingWriting ==
    ASSUME ObjectInv, WritingIffPending, NEW c \in Conns, WritePending(c),
           IsWriting(chan[c])
    PROVE  WritingIffPending'
<1> DEFINE rest == Unwritten(sock[c], tcp[c].output)
           ch == Drained(c, rest)
           t == [tcp[c] EXCEPT !.output = rest]
<1>1. chan' = [chan EXCEPT ![c] = ch] /\ tcp' = [tcp EXCEPT ![c] = t]
  BY DEF WritePending, ObjectInv, TypeOK
<1>2. IsWriting(ch) <=> rest # <<>>
  BY ConnIsNotListener, ChanGood, ChannelCalls DEF Drained
<1>3. t.output = rest
  BY DEF ObjectInv, TypeOK, TcpType
<1> HIDE DEF rest, ch, t
<1>4. Consistent(ch, t)
  BY <1>2, <1>3 DEF Consistent
<1>5. QED
  BY <1>1, <1>4, OneConsistent

LEMMA RemoveChannelWriting ==
    ASSUME ObjectInv, WritingIffPending, NEW c \in Conns, NEW back,
           RemoveChannel(c, back)
    PROVE  WritingIffPending'
<1>1. /\ chan' = [chan EXCEPT ![c] = Remove(chan[c])]
      /\ tcp' = [tcp EXCEPT ![c] = Destroyed(@)] \/ tcp' = tcp
  BY DEF RemoveChannel
<1>2. Remove(chan[c]).events = chan[c].events
  BY ConnIsNotListener, ChanGood, RemoveGood
<1>3. Destroyed(tcp[c]).live = FALSE /\ Destroyed(tcp[c]).state = tcp[c].state
  BY DEF Destroyed, ObjectInv, TypeOK, TcpType
<1>4. QED
  BY <1>1, <1>2, <1>3, SameOutput, ConnIsNotListener DEF ObjectInv, TypeOK

LEMMA RemoveConnectionWriting ==
    ASSUME ObjectInv, WritingIffPending, NEW c \in Conns, NEW back,
           RemoveConnection(c, back)
    PROVE  WritingIffPending'
<1>1. CASE tcp[c].state = "CONNECTED"
  <2> DEFINE ch == DiabledAllEvents(chan[c])
             t == [tcp[c] EXCEPT !.state = "DISCONNECTED"]
  <2>1. chan' = [chan EXCEPT ![c] = ch] /\ tcp' = [tcp EXCEPT ![c] = t]
    BY <1>1 DEF RemoveConnection, ConnectionDestroy, ObjectInv, TypeOK
  <2>2. Consistent(ch, t)
    BY DEF Consistent, ObjectInv, TypeOK, TcpType
  <2> HIDE DEF ch, t
  <2>3. QED
    BY <2>1, <2>2, OneConsistent
<1>2. CASE tcp[c].state # "CONNECTED"
  BY <1>2, RemoveChannelWriting DEF RemoveConnection, ConnectionDestroy
<1>3. QED
  BY <1>1, <1>2

(* send() starts from a channel that already watches EPOLLOUT, or writes     *)
(* itself: there is nothing pending then.                                    *)
LEMMA SendBytesWriting ==
    ASSUME ObjectInv, WritingIffPending, NEW c \in Conns, NEW b \in Bytes,
           b # <<>>, NEW left \in Bytes, SendBytes(c, b, left)
    PROVE  WritingIffPending'
<1> DEFINE rest == IF WritesDirectly(c) THEN Unwritten(sock[c], b) ELSE b
           ch == Watching(c, rest)
           out == tcp[c].output \o rest
           t == [tcp[c] EXCEPT !.output = out]
           u == [t EXCEPT !.input = left]
<1>1. CASE Crash("sigpipe")
  BY <1>1 DEF Crash, objects, WritingIffPending
<1>2. CASE ~Crash("sigpipe")
  <2>1. chan' = [chan EXCEPT ![c] = ch] /\ tcp' = [tcp EXCEPT ![c] = u]
    BY <1>2 DEF SendBytes, ObjectInv, TypeOK
  <2>2. /\ sock[c] \in SockType /\ Len(sock[c].snd) <= SndBuf
        /\ tcp[c] \in TcpType /\ tcp[c].output \in Bytes
    BY DEF ObjectInv, TypeOK, SndFits, TcpType
  <2>3. rest \in Bytes /\ (~WritesDirectly(c) => rest # <<>>)
    BY <2>2, WriteSplit
  <2>4. IsWriting(ch) <=> IsWriting(chan[c]) \/ rest # <<>>
    BY ConnIsNotListener, ChanGood, ChannelCalls DEF Watching
  <2> HIDE DEF rest, ch
  <2>5. out # <<>> <=> tcp[c].output # <<>> \/ rest # <<>>
    <3>1. \A x, y \in Bytes : x \o y = <<>> <=> x = <<>> /\ y = <<>>
      BY ConcatEqualIffEmpty DEF Bytes
    <3>2. QED
      BY <2>2, <2>3, <3>1, Zenon
  <2> HIDE DEF out
  <2>6. t \in [state : States, live : BOOLEAN, input : Bytes, output : {out}]
        /\ t.live = tcp[c].live /\ t.state = tcp[c].state
    BY <2>2 DEF TcpType
  <2> HIDE DEF t
  <2>7. u.live = tcp[c].live /\ u.state = tcp[c].state /\ u.output = out
    BY <2>6
  <2> HIDE DEF u
  <2>8. Consistent(ch, u)
    BY <2>3, <2>4, <2>5, <2>7 DEF Consistent, WritingIffPending, WritesDirectly
  <2>9. QED
    BY <2>1, <2>8, OneConsistent
<1>3. QED
  BY <1>1, <1>2

LEMMA InitWriting == Init => WritingIffPending
BY DEF Init, WritingIffPending

LEMMA NextWriting ==
    ObjectInv /\ WritingIffPending /\ [Next]_vars => WritingIffPending'
<1> SUFFICES ASSUME ObjectInv, WritingIffPending, [Next]_vars
             PROVE  WritingIffPending'
  OBVIOUS
<1>1. CASE UNCHANGED <<chan, tcp>>
  BY <1>1 DEF WritingIffPending
<1>2. CASE LoopStep
  <2>1. CASE Start
    BY <2>1, ConnIsNotListener DEF Start, WritingIffPending, ObjectInv, TypeOK
  <2>2. CASE Poll
    <3>1. \A c \in Conns : chan'[c].events = chan[c].events
      BY <2>2, ConnIsNotListener DEF Poll, ObjectInv, TypeOK, ChannelType
    <3>2. QED
      BY <2>2, <3>1, SameOutput DEF Poll
  <2>3. CASE Accept
    BY <2>3, AcceptWriting
  <2>4. CASE HangUpEvent
    BY <2>4, HandleCloseWriting DEF HangUpEvent
  <2>5. CASE HandleRead
    <3>1. cur \in Conns
      BY <2>5 DEF HandleRead
    <3>2. ASSUME NEW n, ReadBytes(cur, n) PROVE WritingIffPending'
      BY <3>1, <3>2, SameOutput DEF ReadBytes, ObjectInv, TypeOK, TcpType
    <3>3. CASE ReadError(cur)
      BY <3>3, <1>1 DEF ReadError, objects
    <3>4. QED
      BY <2>5, <3>1, <3>2, <3>3, HandleCloseWriting DEF HandleRead
  <2>6. CASE ReturnMessage
    <3>1. Destroyed(tcp[who]).live = FALSE /\ Destroyed(tcp[who]).state = tcp[who].state
      BY DEF Destroyed, ObjectInv, TypeOK, TcpType
    <3>2. QED
      BY <2>6, <3>1, SameOutput DEF ReturnMessage, ObjectInv, TypeOK
  <2>7. CASE HandleWrite
    <3>1. CASE ~IsWriting(chan[cur])
      BY <1>1, <2>7, <3>1 DEF HandleWrite, objects
    <3>2. CASE IsWriting(chan[cur])
      <4>1. cur \in Conns
        BY <3>2 DEF ObjectInv, TypeOK, ListenerReads, Channels
      <4>2. Crash("sigpipe") \/ Crash("write") \/ WritePending(cur)
        BY <2>7, <3>2 DEF HandleWrite
      <4>3. QED
        BY <1>1, <3>2, <4>1, <4>2, WritePendingWriting DEF Crash, objects
    <3>3. QED
      BY <3>1, <3>2
  <2>8. CASE ReturnDown
    BY <2>8, RemoveConnectionWriting DEF ReturnDown, ObjectInv, TypeOK
  <2>9. CASE ReturnRemoved
    BY <2>9, RemoveChannelWriting DEF ReturnRemoved, ObjectInv, TypeOK
  <2>10. CASE \/ \E c \in Channels : StartHandle(c)
              \/ EndBatch \/ SkipStage \/ ReadFreedChannel \/ AcceptFails \/ ReturnUp
    BY <1>1, <2>10 DEF StartHandle, EndBatch, SkipStage, ReadFreedChannel,
       AcceptFails, ReturnUp, Crash, objects
  <2>11. QED
    BY <1>2, <2>1, <2>2, <2>3, <2>4, <2>5, <2>6, <2>7, <2>8, <2>9, <2>10 DEF LoopStep
<1>3. CASE UserStep
  <2>1. who \in Conns /\ tcp[who].input \in Bytes /\ <<>> \in Bytes
        /\ Message \in Bytes /\ Message # <<>>
    BY BytesEmpty, BoundsAssumption DEF ObjectInv, TypeOK, TcpType, Bytes
  <2>2. CASE UserSend
    BY <2>1, <2>2, SendBytesWriting DEF UserSend
  <2>3. CASE UserEcho
    BY <2>1, <2>3, SendBytesWriting DEF UserEcho
  <2>4. CASE UserRetrieve
    BY <2>1, <2>4, SameOutput DEF UserRetrieve, ObjectInv, TypeOK, TcpType
  <2>5. CASE UserRemove
    BY <2>1, <2>5, RemoveConnectionWriting DEF UserRemove
  <2>6. CASE UserShutdown \/ UserQuit
    BY <1>1, <2>6 DEF UserShutdown, UserQuit, objects
  <2>7. QED
    BY <1>3, <2>2, <2>3, <2>4, <2>5, <2>6 DEF UserStep
<1>4. CASE PeerStep
  BY <1>1, <1>4 DEF PeerStep, Connect, PeerSend, PeerRecv, PeerClose, PeerReset, objects
<1>5. CASE UNCHANGED vars
  BY <1>1, <1>5 DEF vars
<1>6. QED
  BY <1>2, <1>3, <1>4, <1>5 DEF Next

(* The channel of a connected connection watches EPOLLOUT exactly while       *)
(* output is pending.  (TcpConnection.cpp:80-112, 141-165)                    *)
THEOREM WritingCorrect == Spec => []WritingIffPending
<1>1. Init => ObjectInv /\ WritingIffPending
  BY InitObject, InitWriting
<1>2. ObjectInv /\ WritingIffPending /\ [Next]_vars
        => (ObjectInv /\ WritingIffPending)'
  BY NextObject, NextWriting
<1>3. QED
  BY <1>1, <1>2, PTL DEF Spec

-----------------------------------------------------------------------------
(* Every byte of output is accounted for.  What is not at the peer or in the *)
(* kernel is the connection's output; after a reset, or once the connection  *)
(* is freed, it is some sequence that is lost.                               *)

Balanced(c) ==
    \E lost \in Bytes :
        /\ log[c].asked = (peer[c].got \o sock[c].snd) \o lost
        /\ tcp[c].live /\ ~sock[c].rst => lost = tcp[c].output

Untouched(c) ==
    /\ ~tcp[c].live
    /\ log[c].asked = <<>>
    /\ peer[c].got = <<>>
    /\ sock[c].snd = <<>>

(* accept() only hands out sockets that nothing was written to, each once.   *)
QueueInv ==
    /\ \A i \in 1..Len(backlog) : sock[backlog[i]].fd = "queued"
    /\ \A i, j \in 1..Len(backlog) : backlog[i] = backlog[j] => i = j

FreshInv == \A c \in Conns : sock[c].fd # "open" => Untouched(c)

(* The connection of a running callback is held by a shared_ptr. *)
CallbackLive == pc \in Callbacks => tcp[who].live

OutputInv ==
    /\ QueueInv
    /\ FreshInv
    /\ CallbackLive
    /\ \A c \in Conns : Balanced(c)

LEMMA MoveByte ==
    ASSUME NEW x \in Bytes, NEW y \in Bytes, y # <<>>
    PROVE  Append(x, Head(y)) \o Tail(y) = x \o y
<1> DEFINE h == Head(y)
           t == Tail(y)
<1>1. h \in Nat /\ t \in Seq(Nat) /\ Len(t) = Len(y) - 1
      /\ \A i \in 1..Len(t) : t[i] = y[i + 1]
  BY HeadTailProperties DEF Bytes
<1>2. h = y[1] /\ Len(y) \in Nat \ {0}
  BY EmptySeq DEF Bytes
<1> HIDE DEF h, t
<1>3. <<h>> \in Seq(Nat) /\ Len(<<h>>) = 1 /\ <<h>>[1] = h
  BY <1>1
<1>4. /\ <<h>> \o t \in Seq(Nat)
      /\ Len(<<h>> \o t) = 1 + Len(t)
      /\ \A i \in 1..1 + Len(t) :
            (<<h>> \o t)[i] = IF i <= 1 THEN <<h>>[i] ELSE t[i - 1]
  BY <1>1, <1>3, ConcatProperties
<1>5. <<h>> \o t = y
  <2> DEFINE u == <<h>> \o t
  <2>1. u \in Seq(Nat) /\ y \in Seq(Nat) /\ Len(u) = Len(y)
    BY <1>1, <1>2, <1>4 DEF Bytes
  <2> HIDE DEF u
  <2>2. ASSUME NEW i \in 1..Len(u) PROVE u[i] = y[i]
    <3>1. Len(u) = 1 + Len(t) /\ i \in 1..1 + Len(t)
      BY <1>4 DEF u
    <3>2. u[i] = IF i <= 1 THEN <<h>>[i] ELSE t[i - 1]
      BY <1>4, <3>1 DEF u
    <3>3. CASE i = 1
      BY <1>2, <1>3, <3>2, <3>3
    <3>4. CASE i # 1
      <4>1. i - 1 \in 1..Len(t) /\ ~(i <= 1) /\ (i - 1) + 1 = i
        BY <1>1, <1>2, <3>1, <3>4
      <4>2. t[i - 1] = y[(i - 1) + 1]
        BY <1>1, <4>1
      <4>3. QED
        BY <3>2, <4>1, <4>2
    <3>5. QED
      BY <3>3, <3>4
  <2>3. u = y
    BY <2>1, <2>2, SeqEqual
  <2>4. QED
    BY <2>3 DEF u
<1>6. Append(x, h) = x \o <<h>>
  BY <1>1, AppendIsConcat DEF Bytes
<1>7. <<h>> \in Bytes /\ t \in Bytes
  BY <1>1, <1>3 DEF Bytes
<1>8. (x \o <<h>>) \o t = x \o (<<h>> \o t)
  BY <1>7, BytesAssoc
<1>9. Append(x, h) \o t = x \o y
  BY <1>5, <1>6, <1>8, Zenon
<1>10. QED
  BY <1>9 DEF h, t

LEMMA ConcatPrefix ==
    ASSUME NEW x \in Bytes, NEW y \in Bytes
    PROVE  SubSeq(x \o y, 1, Len(x)) = x
<1>1. CASE x = <<>>
  BY <1>1, SubSeqEmpty, EmptySeq
<1>2. CASE x # <<>>
  <2>1. Len(x) \in Nat \ {0}
    BY <1>2, EmptySeq DEF Bytes
  <2>2. SubSeq(x \o y, 1, Len(x)) = SubSeq(x, 1, Len(x))
    BY <2>1, SubSeqOfConcat1 DEF Bytes
  <2>3. QED
    BY <2>2, SubSeqFull DEF Bytes
<1>3. QED
  BY <1>1, <1>2

LEMMA BytesTyped ==
    ASSUME ObjectInv, NEW c \in Conns
    PROVE  /\ log[c].asked \in Bytes
           /\ peer[c].got \in Bytes
           /\ sock[c].snd \in Bytes
           /\ tcp[c].output \in Bytes
BY DEF ObjectInv, TypeOK, LogType, PeerType, SockType, TcpType

(* What is checked follows from the accounts. *)
LEMMA OutputImplied ==
    ASSUME ObjectInv, OutputInv PROVE OutputConserved
<1> SUFFICES ASSUME NEW c \in Conns
             PROVE  /\ tcp[c].live /\ ~sock[c].rst =>
                          log[c].asked = peer[c].got \o sock[c].snd \o tcp[c].output
                    /\ peer[c].got = SubSeq(log[c].asked, 1, Len(peer[c].got))
  BY DEF OutputConserved
<1> DEFINE got == peer[c].got
           snd == sock[c].snd
<1>1. got \in Bytes /\ snd \in Bytes
  BY BytesTyped
<1>2. PICK lost \in Bytes :
        /\ log[c].asked = (got \o snd) \o lost
        /\ tcp[c].live /\ ~sock[c].rst => lost = tcp[c].output
  BY DEF OutputInv, Balanced
<1>3. tcp[c].live /\ ~sock[c].rst => log[c].asked = got \o snd \o tcp[c].output
  BY <1>2
<1> HIDE DEF got, snd
<1>4. log[c].asked = got \o (snd \o lost) /\ snd \o lost \in Bytes
  <2>1. got \in Bytes /\ snd \in Bytes /\ lost \in Bytes
    BY <1>1
  <2>2. (got \o snd) \o lost = got \o (snd \o lost)
    BY <2>1, BytesAssoc, SMTT(30)
  <2>3. snd \o lost \in Bytes
    BY <2>1, BytesConcat, Zenon
  <2>4. QED
    BY <1>2, <2>2, <2>3
<1>5. got = SubSeq(log[c].asked, 1, Len(got))
  BY <1>1, <1>4, ConcatPrefix
<1>6. QED
  BY <1>3, <1>5 DEF got, snd

-----------------------------------------------------------------------------
(* Most steps keep every account: they move no byte of output. *)

Keeps(c) ==
    /\ sock'[c].fd = sock[c].fd
    /\ sock'[c].snd = sock[c].snd
    /\ sock'[c].rst = sock[c].rst
    /\ peer'[c].got = peer[c].got
    /\ log'[c].asked = log[c].asked
    /\ tcp'[c].live => tcp[c].live /\ tcp'[c].output = tcp[c].output

LEMMA KeepsAccount ==
    ASSUME NEW c \in Conns, Keeps(c)
    PROVE  (Balanced(c) => Balanced(c)') /\ (Untouched(c) => Untouched(c)')
BY DEF Keeps, Balanced, Untouched

(* A step that changes the accounts of no connection but c. *)
LEMMA ChangeStep ==
    ASSUME ObjectInv, OutputInv, NEW c \in Conns, backlog' = backlog,
           \A x \in Conns : x # c => Keeps(x),
           sock'[c].fd = sock[c].fd,
           sock[c].fd # "open" => Untouched(c)',
           Balanced(c)',
           CallbackLive'
    PROVE  OutputInv'
<1>1. \A x \in Conns : sock'[x].fd = sock[x].fd
  BY DEF Keeps
<1>2. \A i \in 1..Len(backlog) : backlog[i] \in Conns
  BY LenProperties DEF ObjectInv, TypeOK
<1>3. QueueInv'
  BY <1>1, <1>2 DEF OutputInv, QueueInv
<1>4. FreshInv'
  BY <1>1, KeepsAccount DEF OutputInv, FreshInv
<1>5. ASSUME NEW x \in Conns PROVE Balanced(x)'
  BY KeepsAccount DEF OutputInv
<1>6. QED
  BY <1>3, <1>4, <1>5 DEF OutputInv

LEMMA KeepStep ==
    ASSUME ObjectInv, OutputInv, backlog' = backlog,
           \A c \in Conns : Keeps(c),
           CallbackLive'
    PROVE  OutputInv'
<1>1. PICK c \in Conns : TRUE
  BY DEF ObjectInv, TypeOK
<1>2. Balanced(c)' /\ (sock[c].fd # "open" => Untouched(c)')
  BY <1>1, KeepsAccount DEF OutputInv, FreshInv
<1>3. sock'[c].fd = sock[c].fd
  BY <1>1 DEF Keeps
<1>4. QED
  BY <1>1, <1>2, <1>3, ChangeStep

LEMMA ConnectOutput ==
    ASSUME ObjectInv, OutputInv, NEW c \in Conns, Connect(c) PROVE OutputInv'
<1>1. /\ sock' \in [Conns -> SockType]
      /\ sock[c].fd = "none"
      /\ sock'[c].fd = "queued"
      /\ \A x \in Conns : x # c => sock'[x].fd = sock[x].fd
      /\ \A x \in Conns : sock'[x].snd = sock[x].snd /\ sock'[x].rst = sock[x].rst
  BY DEF Connect, ObjectInv, TypeOK, SockType
<1>2. UNCHANGED <<peer, tcp, log, pc, who>> /\ backlog' = Append(backlog, c)
  BY DEF Connect, objects, loopVars
<1>3. /\ Len(backlog) \in Nat /\ Len(backlog') = Len(backlog) + 1
      /\ \A i \in 1..Len(backlog) : backlog'[i] = backlog[i]
      /\ backlog'[Len(backlog) + 1] = c
      /\ \A i \in 1..Len(backlog) : backlog[i] \in Conns
  BY <1>2, AppendProperties, LenProperties DEF ObjectInv, TypeOK
<1>4. \A i \in 1..Len(backlog) : backlog[i] # c
  BY <1>1 DEF OutputInv, QueueInv
<1>5. QueueInv'
  <2>1. ASSUME NEW i \in 1..Len(backlog') PROVE sock'[backlog'[i]].fd = "queued"
    <3>1. CASE i = Len(backlog) + 1
      BY <1>1, <1>3, <3>1
    <3>2. CASE i \in 1..Len(backlog)
      BY <1>1, <1>3, <1>4, <3>2 DEF OutputInv, QueueInv
    <3>3. QED
      BY <1>3, <3>1, <3>2
  <2>2. ASSUME NEW i \in 1..Len(backlog'), NEW j \in 1..Len(backlog'),
               backlog'[i] = backlog'[j]
        PROVE  i = j
    <3>1. CASE i \in 1..Len(backlog) /\ j \in 1..Len(backlog)
      BY <1>3, <2>2, <3>1 DEF OutputInv, QueueInv
    <3>2. CASE i = Len(backlog) + 1 \/ j = Len(backlog) + 1
      BY <1>3, <1>4, <2>2, <3>2
    <3>3. QED
      BY <1>3, <3>1, <3>2
  <2>3. QED
    BY <2>1, <2>2 DEF QueueInv
<1>6. FreshInv' /\ \A x \in Conns : Balanced(x)'
  <2>1. ASSUME NEW x \in Conns PROVE Balanced(x)'
    BY <1>1, <1>2 DEF OutputInv, Balanced
  <2>2. ASSUME NEW x \in Conns, sock'[x].fd # "open" PROVE sock[x].fd # "open"
    BY <1>1, <2>2
  <2>3. FreshInv'
    BY <1>1, <1>2, <2>2 DEF OutputInv, FreshInv, Untouched
  <2>4. QED
    BY <2>1, <2>3
<1>7. CallbackLive'
  BY <1>2 DEF OutputInv, CallbackLive
<1>8. QED
  BY <1>5, <1>6, <1>7 DEF OutputInv

LEMMA PeerRecvOutput ==
    ASSUME ObjectInv, OutputInv, NEW c \in Conns, PeerRecv(c) PROVE OutputInv'
<1> DEFINE got == peer[c].got
           snd == sock[c].snd
<1>1. /\ got \in Bytes /\ snd \in Bytes /\ snd # <<>>
      /\ peer'[c].got = Append(got, Head(snd))
      /\ sock'[c].snd = Tail(snd)
      /\ sock'[c].fd = sock[c].fd
      /\ sock'[c].rst = sock[c].rst
      /\ UNCHANGED <<tcp, log, pc, who, backlog>>
  BY BytesTyped DEF PeerRecv, objects, loopVars, ObjectInv, TypeOK, SockType, PeerType
<1>2. \A x \in Conns : x # c => Keeps(x)
  BY DEF PeerRecv, Keeps, objects, ObjectInv, TypeOK
<1>3. peer'[c].got \o sock'[c].snd = got \o snd
  <2> HIDE DEF got, snd
  <2>1. QED
    BY <1>1, MoveByte
<1>4. Balanced(c)'
  <2>1. PICK lost \in Bytes :
          /\ log[c].asked = (got \o snd) \o lost
          /\ tcp[c].live /\ ~sock[c].rst => lost = tcp[c].output
    BY DEF OutputInv, Balanced
  <2> HIDE DEF got, snd
  <2>2. QED
    BY <1>1, <1>3, <2>1 DEF Balanced
<1>5. sock[c].fd = "open"
  BY <1>1 DEF OutputInv, FreshInv, Untouched
<1>6. CallbackLive'
  BY <1>1 DEF OutputInv, CallbackLive
<1> HIDE DEF got, snd
<1>7. QED
  BY <1>1, <1>2, <1>4, <1>5, <1>6, ChangeStep

(* The reset throws away what the peer did not read yet. *)
LEMMA PeerResetOutput ==
    ASSUME ObjectInv, OutputInv, NEW c \in Conns, PeerReset(c) PROVE OutputInv'
<1> DEFINE got == peer[c].got
           snd == sock[c].snd
<1>1. /\ got \in Bytes /\ snd \in Bytes
      /\ sock'[c].snd = <<>>
      /\ sock'[c].fd = sock[c].fd
      /\ sock'[c].rst
      /\ UNCHANGED <<peer, tcp, log, pc, who, backlog>>
  BY BytesTyped DEF PeerReset, objects, loopVars, ObjectInv, TypeOK, SockType
<1>2. \A x \in Conns : x # c => Keeps(x)
  BY DEF PeerReset, Keeps, objects, ObjectInv, TypeOK
<1>3. PICK lost \in Bytes : log[c].asked = (got \o snd) \o lost
  BY DEF OutputInv, Balanced
<1>4. Balanced(c)'
  <2> HIDE DEF got, snd
  <2>1. (got \o snd) \o lost = got \o (snd \o lost) /\ snd \o lost \in Bytes
    <3>1. got \in Bytes /\ snd \in Bytes /\ lost \in Bytes
      BY <1>1
    <3>2. (got \o snd) \o lost = got \o (snd \o lost)
      BY <3>1, BytesAssoc, SMTT(30)
    <3>3. snd \o lost \in Bytes
      BY <3>1, BytesConcat, Zenon
    <3>4. QED
      BY <3>2, <3>3
  <2>2. got \o <<>> = got
    BY <1>1, BytesEmpty, Zenon
  <2>3. log'[c].asked = (peer'[c].got \o sock'[c].snd) \o (snd \o lost)
    BY <1>1, <1>3, <2>1, <2>2 DEF got
  <2>4. QED
    BY <1>1, <2>1, <2>3 DEF Balanced
<1>5. sock[c].fd # "open" => Untouched(c)'
  BY <1>1 DEF OutputInv, FreshInv, Untouched
<1>6. CallbackLive'
  BY <1>1 DEF OutputInv, CallbackLive
<1>7. QED
  BY <1>1, <1>2, <1>4, <1>5, <1>6, ChangeStep

LEMMA AcceptOutput ==
    ASSUME ObjectInv, OutputInv, Accept PROVE OutputInv'
<1>1. PICK c \in Conns : c = Head(backlog)
  BY HeadTailProperties DEF ObjectInv, TypeOK, Accept
<1>2. /\ Len(backlog) \in Nat \ {0} /\ backlog[1] = c
      /\ Len(backlog') = Len(backlog) - 1
      /\ \A i \in 1..Len(backlog') : backlog'[i] = backlog[i + 1]
      /\ \A i \in 1..Len(backlog) : backlog[i] \in Conns
  BY <1>1, HeadTailProperties, EmptySeq, LenProperties DEF ObjectInv, TypeOK, Accept
<1>3. /\ sock'[c].fd = "open" /\ tcp'[c].output = <<>> /\ sock'[c].snd = sock[c].snd
      /\ log'[c].asked = log[c].asked /\ peer' = peer
      /\ tcp'[who'].live /\ who' = c
      /\ \A x \in Conns : x # c => Keeps(x)
  BY <1>1 DEF Accept, Established, Keeps, ObjectInv, TypeOK, SockType, LogType
<1>4. sock[c].fd = "queued" /\ Untouched(c)
  BY <1>2 DEF OutputInv, QueueInv, FreshInv
<1>5. QueueInv'
  <2>1. ASSUME NEW i \in 1..Len(backlog') PROVE sock'[backlog'[i]].fd = "queued"
    <3>1. i + 1 \in 1..Len(backlog) /\ backlog'[i] = backlog[i + 1] /\ 1 \in 1..Len(backlog)
      BY <1>2
    <3>2. backlog[i + 1] # c
      BY <1>2, <3>1 DEF OutputInv, QueueInv
    <3>3. QED
      BY <1>2, <1>3, <3>1, <3>2 DEF OutputInv, QueueInv, Keeps
  <2>2. ASSUME NEW i \in 1..Len(backlog'), NEW j \in 1..Len(backlog'),
               backlog'[i] = backlog'[j]
        PROVE  i = j
    <3>1. i + 1 \in 1..Len(backlog) /\ j + 1 \in 1..Len(backlog)
          /\ backlog[i + 1] = backlog[j + 1]
      BY <1>2, <2>2
    <3>2. i + 1 = j + 1
      BY <3>1 DEF OutputInv, QueueInv
    <3>3. QED
      BY <1>2, <3>2
  <2>3. QED
    BY <2>1, <2>2 DEF QueueInv
<1>6. FreshInv'
  BY <1>3, KeepsAccount DEF OutputInv, FreshInv, Keeps
<1>7. Balanced(c)'
  <2>1. log'[c].asked = <<>> /\ peer'[c].got = <<>> /\ sock'[c].snd = <<>>
    BY <1>3, <1>4 DEF Untouched
  <2>2. <<>> = (<<>> \o <<>>) \o <<>> /\ <<>> \in Bytes
    BY BytesEmpty, Zenon
  <2>3. QED
    BY <1>3, <2>1, <2>2 DEF Balanced
<1>8. ASSUME NEW x \in Conns PROVE Balanced(x)'
  BY <1>3, <1>7, KeepsAccount DEF OutputInv
<1>9. QED
  BY <1>3, <1>5, <1>6, <1>8 DEF OutputInv, CallbackLive

LEMMA WritePendingOutput ==
    ASSUME ObjectInv, OutputInv, NEW c \in Conns, WritePending(c),
           tcp[c].live, ~sock[c].rst, pc = "handle"
    PROVE  OutputInv'
<1> DEFINE s == AfterWrite(sock[c], tcp[c].output)
           rest == Unwritten(sock[c], tcp[c].output)
           got == peer[c].got
           snd == sock[c].snd
           out == tcp[c].output
<1>1. sock[c] \in SockType /\ Len(sock[c].snd) <= SndBuf
  BY DEF ObjectInv, TypeOK, SndFits
<1>2. got \in Bytes /\ snd \in Bytes /\ out \in Bytes
  BY BytesTyped
<1>3. /\ s \in SockType /\ rest \in Bytes /\ s.snd \in Bytes
      /\ s.snd \o rest = snd \o out /\ s.fd = sock[c].fd /\ s.rst = sock[c].rst
  <2>1. /\ s \in SockType /\ rest \in Bytes
        /\ s.snd \o rest = snd \o out /\ s.fd = sock[c].fd /\ s.rst = sock[c].rst
    BY <1>1, <1>2, WriteSplit
  <2> HIDE DEF s
  <2>2. s.snd \in Bytes
    BY <2>1 DEF SockType
  <2>3. QED
    BY <2>1, <2>2
<1>4. log[c].asked = (got \o snd) \o out
  BY DEF OutputInv, Balanced
<1>5. /\ sock' = [sock EXCEPT ![c] = s]
      /\ tcp' = [tcp EXCEPT ![c].output = rest]
      /\ UNCHANGED <<log, peer, backlog>>
  BY DEF WritePending
<1> HIDE DEF s, rest
<1>6. sock'[c] = s /\ tcp'[c].output = rest /\ \A x \in Conns : x # c => Keeps(x)
  BY <1>5 DEF Keeps, ObjectInv, TypeOK, TcpType
<1>7. Balanced(c)'
  <2> HIDE DEF got, snd, out
  <2>1. (got \o s.snd) \o rest = (got \o snd) \o out
    <3>1. s.snd \in Bytes /\ rest \in Bytes /\ s.snd \o rest = snd \o out
      BY <1>3
    <3>2. (got \o s.snd) \o rest = got \o (s.snd \o rest)
      <4>1. got \in Bytes /\ s.snd \in Bytes /\ rest \in Bytes
        BY <1>2, <3>1
      <4>2. QED
        BY ONLY <4>1, BytesAssoc, Zenon
    <3>3. (got \o snd) \o out = got \o (snd \o out)
      <4>1. got \in Bytes /\ snd \in Bytes /\ out \in Bytes
        BY <1>2
      <4>2. QED
        BY ONLY <4>1, BytesAssoc, SMTT(30)
    <3>4. QED
      BY <3>1, <3>2, <3>3, Zenon
  <2>2. log'[c].asked = (peer'[c].got \o sock'[c].snd) \o rest
    BY <1>4, <1>5, <1>6, <2>1 DEF got
  <2>3. QED
    BY <1>3, <1>6, <2>2 DEF Balanced
<1>8. sock[c].fd = "open"
  BY DEF OutputInv, FreshInv, Untouched
<1>9. CallbackLive'
  BY DEF WritePending, Goto, AfterStage, CallbackLive, Callbacks
<1>10. QED
  BY <1>3, <1>5, <1>6, <1>7, <1>8, <1>9, ChangeStep

(* send() only runs in a callback, whose connection lives: its output is all *)
(* that is not in the kernel yet, unless the peer reset.                     *)
LEMMA SendBytesOutput ==
    ASSUME ObjectInv, OutputInv, NEW c \in Conns, NEW b, NEW left, b \in Bytes, left \in Bytes,
           SendBytes(c, b, left), tcp[c].live
    PROVE  OutputInv'
<1> DEFINE s == AfterWrite(sock[c], b)
           rest == IF WritesDirectly(c) THEN Unwritten(sock[c], b) ELSE b
           got == peer[c].got
           snd == sock[c].snd
           out == tcp[c].output
<1>1. sock[c] \in SockType /\ Len(sock[c].snd) <= SndBuf
  BY DEF ObjectInv, TypeOK, SndFits
<1>2. got \in Bytes /\ snd \in Bytes /\ out \in Bytes
  BY BytesTyped
<1>3. /\ s \in SockType /\ rest \in Bytes /\ s.snd \in Bytes
      /\ WritesDirectly(c) => s.snd \o rest = snd \o b
      /\ s.fd = sock[c].fd /\ s.rst = sock[c].rst
      /\ sock[c].rst => s.snd = snd
  <2> DEFINE left1 == Unwritten(sock[c], b)
  <2>1. /\ s \in SockType /\ left1 \in Bytes /\ s.snd \o left1 = snd \o b
        /\ s.fd = sock[c].fd /\ s.rst = sock[c].rst
        /\ sock[c].rst => s.snd = snd
    BY <1>1, WriteSplit
  <2>2. rest = IF WritesDirectly(c) THEN left1 ELSE b
    OBVIOUS
  <2> HIDE DEF s, rest, left1
  <2>3. s.snd \in Bytes
    BY <2>1 DEF SockType
  <2>4. QED
    BY <2>1, <2>2, <2>3
<1>4. PICK lost :
        /\ lost \in Bytes
        /\ log[c].asked = (got \o snd) \o lost
        /\ ~sock[c].rst => lost = out
  BY DEF OutputInv, Balanced
<1>5. sock[c].fd = "open"
  BY DEF OutputInv, FreshInv, Untouched
<1>6. CASE Crash("sigpipe")
  <2>1. \A x \in Conns : Keeps(x)
    BY <1>6 DEF Crash, Keeps, objects, network
  <2>2. QED
    BY <1>6, <2>1, KeepStep DEF Crash, network, CallbackLive, Callbacks
<1>7. CASE ~Crash("sigpipe")
  <2>1. /\ sock' = IF WritesDirectly(c) THEN [sock EXCEPT ![c] = s] ELSE sock
        /\ tcp' = [tcp EXCEPT ![c].output = out \o rest, ![c].input = left]
        /\ log' = [log EXCEPT ![c].asked = log[c].asked \o b]
        /\ UNCHANGED <<peer, backlog, who>>
        /\ pc' = pc \/ pc' = "dead"
    BY <1>7 DEF SendBytes, Goto
  <2> HIDE DEF s, rest
  <2>2. /\ tcp'[c].output = out \o rest
        /\ log'[c].asked = log[c].asked \o b
        /\ sock'[c] = IF WritesDirectly(c) THEN s ELSE sock[c]
        /\ \A x \in Conns : tcp'[x].live = tcp[x].live
    BY <2>1 DEF ObjectInv, TypeOK, TcpType, LogType
  <2>3. \A x \in Conns : x # c => Keeps(x)
    BY <2>1 DEF Keeps, ObjectInv, TypeOK
  <2>4. ((got \o snd) \o lost) \o b = (got \o snd) \o (lost \o b)
        /\ lost \o b \in Bytes
    <3> HIDE DEF got, snd
    <3> DEFINE gs == got \o snd
    <3>1. gs \in Bytes /\ lost \in Bytes /\ b \in Bytes
      BY <1>2, <1>4, BytesConcat, Zenon
    <3> HIDE DEF gs
    <3>2. (gs \o lost) \o b = gs \o (lost \o b)
      BY ONLY <3>1, BytesAssoc, SMTT(30)
    <3>3. lost \o b \in Bytes
      BY ONLY <3>1, BytesConcat, Zenon
    <3>4. QED
      BY <3>2, <3>3 DEF gs
  <2>5. Balanced(c)'
    <3>1. CASE ~WritesDirectly(c)
      <4>1. rest = b
        BY <3>1 DEF rest
      <4>2. log'[c].asked = (peer'[c].got \o sock'[c].snd) \o (lost \o b)
        BY <1>4, <2>1, <2>2, <2>4, <3>1
      <4>3. ~sock'[c].rst => lost \o b = tcp'[c].output
        BY <1>4, <2>2, <3>1, <4>1
      <4>4. QED
        BY <2>4, <4>2, <4>3 DEF Balanced
    <3>2. CASE WritesDirectly(c) /\ sock[c].rst
      <4>1. log'[c].asked = (peer'[c].got \o sock'[c].snd) \o (lost \o b)
        BY <1>3, <1>4, <2>1, <2>2, <2>4, <3>2
      <4>2. sock'[c].rst
        BY <1>3, <2>2, <3>2
      <4>3. QED
        BY <2>4, <4>1, <4>2 DEF Balanced
    <3>3. CASE WritesDirectly(c) /\ ~sock[c].rst
      <4>1. out = <<>> /\ lost = out
        BY <1>4, <3>3 DEF WritesDirectly
      <4>2. log'[c].asked = (got \o snd) \o b
        <5> HIDE DEF got, snd
        <5>1. (got \o snd) \o <<>> = got \o snd
          <6>1. got \o snd \in Bytes
            BY <1>2, BytesConcat, Zenon
          <6>2. QED
            BY <6>1, BytesEmpty, Zenon
        <5>2. QED
          BY <1>4, <2>2, <4>1, <5>1
      <4>3. (got \o s.snd) \o rest = (got \o snd) \o b
        <5> HIDE DEF got, snd
        <5>1. got \in Bytes /\ snd \in Bytes /\ s.snd \in Bytes /\ rest \in Bytes
          BY <1>2, <1>3
        <5>2. s.snd \o rest = snd \o b
          BY <1>3, <3>3
        <5>3. (got \o s.snd) \o rest = got \o (s.snd \o rest)
          <6>1. got \in Bytes /\ s.snd \in Bytes /\ rest \in Bytes
            BY <5>1
          <6>2. QED
            BY ONLY <6>1, BytesAssoc, Zenon
        <5>4. (got \o snd) \o b = got \o (snd \o b)
          <6>1. got \in Bytes /\ snd \in Bytes /\ b \in Bytes
            BY <5>1
          <6>2. QED
            BY ONLY <6>1, BytesAssoc, SMTT(30)
        <5>5. QED
          BY <5>2, <5>3, <5>4, Zenon
      <4>4. tcp'[c].output = rest
        <5> HIDE DEF out
        <5>1. <<>> \o rest = rest
          BY <1>3, BytesEmpty, Zenon
        <5>2. QED
          BY <2>2, <4>1, <5>1
      <4>5. log'[c].asked = (peer'[c].got \o sock'[c].snd) \o rest
        BY <2>1, <2>2, <3>3, <4>2, <4>3
      <4>6. QED
        BY <1>3, <4>4, <4>5 DEF Balanced
    <3>4. QED
      BY <3>1, <3>2, <3>3
  <2>6. CallbackLive'
    BY <2>1, <2>2 DEF OutputInv, CallbackLive, Callbacks, ObjectInv, TypeOK
  <2>7. sock'[c].fd = sock[c].fd
    BY <1>3, <2>2
  <2>8. QED
    BY <1>5, <2>1, <2>3, <2>5, <2>6, <2>7, ChangeStep
<1>8. QED
  BY <1>6, <1>7

LEMMA InitOutput == Init => OutputInv
<1> SUFFICES ASSUME Init PROVE OutputInv
  OBVIOUS
<1>1. QueueInv
  BY DEF Init, QueueInv
<1>2. FreshInv /\ CallbackLive
  BY DEF Init, FreshInv, CallbackLive, Untouched, Callbacks
<1>3. <<>> = (<<>> \o <<>>) \o <<>> /\ <<>> \in Bytes
  BY BytesEmpty, Zenon
<1>4. \A c \in Conns : Balanced(c)
  BY <1>3 DEF Init, Balanced
<1>5. QED
  BY <1>1, <1>2, <1>4 DEF OutputInv

LEMMA CrashOutput ==
    ASSUME ObjectInv, OutputInv, NEW why, Crash(why) PROVE OutputInv'
<1>1. \A c \in Conns : Keeps(c)
  BY DEF Crash, Keeps, objects, network
<1>2. QED
  BY <1>1, KeepStep DEF Crash, network, CallbackLive, Callbacks

LEMMA HandleCloseOutput ==
    ASSUME ObjectInv, OutputInv, NEW c \in Conns, HandleClose(c), tcp[c].live
    PROVE  OutputInv'
<1>1. \A x \in Conns : Keeps(x) /\ tcp'[x].live = tcp[x].live
  BY DEF HandleClose, Keeps, network, ObjectInv, TypeOK, TcpType, LogType
<1>2. CallbackLive'
  BY <1>1 DEF HandleClose, CallbackLive
<1>3. QED
  BY <1>1, <1>2, KeepStep DEF HandleClose, network

LEMMA RemoveChannelOutput ==
    ASSUME ObjectInv, OutputInv, NEW back \in {"up", "message", "handle"},
           RemoveChannel(who, back), pc \in Callbacks,
           UNCHANGED <<network, who, log>>
    PROVE  OutputInv'
<1>1. who \in Conns /\ tcp[who].live
  BY DEF ObjectInv, TypeOK, OutputInv, CallbackLive
<1>2. Destroyed(tcp[who]).live = FALSE
  BY <1>1 DEF Destroyed, ObjectInv, TypeOK, TcpType
<1>3. \A x \in Conns : Keeps(x)
  BY <1>1, <1>2 DEF RemoveChannel, Keeps, network, ObjectInv, TypeOK
<1>4. CallbackLive'
  BY <1>1 DEF RemoveChannel, Goto, AfterStage, CallbackLive, Callbacks
<1>5. QED
  BY <1>3, <1>4, KeepStep DEF network

LEMMA RemoveConnectionOutput ==
    ASSUME ObjectInv, OutputInv, NEW back \in {"up", "message", "handle"},
           RemoveConnection(who, back), pc \in Callbacks
    PROVE  OutputInv'
<1>1. who \in Conns /\ tcp[who].live
  BY DEF ObjectInv, TypeOK, OutputInv, CallbackLive
<1>2. CASE tcp[who].state = "CONNECTED"
  <2>1. /\ tcp' = [tcp EXCEPT ![who].state = "DISCONNECTED"]
        /\ log' = [log EXCEPT ![who].downs = @ + 1]
        /\ UNCHANGED <<sock, peer, backlog, who>>
    BY <1>2 DEF RemoveConnection, ConnectionDestroy, network
  <2>2. \A x \in Conns : Keeps(x) /\ tcp'[x].live = tcp[x].live
    BY <1>1, <2>1 DEF Keeps, ObjectInv, TypeOK, TcpType, LogType
  <2>3. CallbackLive'
    BY <1>1, <2>1, <2>2 DEF CallbackLive
  <2>4. QED
    BY <2>1, <2>2, <2>3, KeepStep
<1>3. CASE tcp[who].state # "CONNECTED"
  BY <1>3, RemoveChannelOutput DEF RemoveConnection, ConnectionDestroy
<1>4. QED
  BY <1>2, <1>3

LEMMA LoopOutput == ASSUME ObjectInv, OutputInv, LoopStep PROVE OutputInv'
<1> USE DEF Keeps, CallbackLive, Callbacks
<1>1. CASE Start
  BY <1>1, KeepStep DEF Start, Goto, network
<1>2. CASE Poll
  BY <1>2, KeepStep DEF Poll, network
<1>3. ASSUME NEW c \in Channels, StartHandle(c) PROVE OutputInv'
  BY <1>3, KeepStep DEF StartHandle, objects, network
<1>4. CASE EndBatch
  BY <1>4, KeepStep DEF EndBatch, objects, network
<1>5. CASE SkipStage
  BY <1>5, KeepStep DEF SkipStage, AfterStage, objects, network
<1>6. CASE ReadFreedChannel \/ AcceptFails
  BY <1>6, CrashOutput DEF ReadFreedChannel, AcceptFails
<1>7. CASE Accept
  BY <1>7, AcceptOutput
<1>8. CASE ReturnUp
  BY <1>8, KeepStep DEF ReturnUp, AfterStage, network
<1>9. CASE HangUpEvent
  <2>1. cur \in Conns /\ tcp[cur].live
    BY <1>9, ConnIsNotListener DEF HangUpEvent, At, Freed
  <2>2. QED
    BY <1>9, <2>1, HandleCloseOutput DEF HangUpEvent
<1>10. CASE HandleRead
  <2>1. cur \in Conns /\ tcp[cur].live
    BY <1>10, ConnIsNotListener DEF HandleRead, At, Freed
  <2>2. ASSUME NEW n, ReadBytes(cur, n) PROVE OutputInv'
    <3>1. \A c \in Conns : Keeps(c) /\ tcp'[c].live = tcp[c].live
      BY <2>1, <2>2 DEF ReadBytes, ObjectInv, TypeOK, TcpType, SockType
    <3>2. CallbackLive'
      BY <2>1, <2>2, <3>1 DEF ReadBytes
    <3>3. QED
      BY <2>2, <3>1, <3>2, KeepStep DEF ReadBytes
  <2>3. CASE ReadError(cur)
    <3>1. \A c \in Conns : Keeps(c)
      BY <2>1, <2>3 DEF ReadError, objects, ObjectInv, TypeOK, SockType
    <3>2. QED
      BY <2>3, <3>1, KeepStep DEF ReadError, AfterStage
  <2>4. QED
    BY <1>10, <2>1, <2>2, <2>3, HandleCloseOutput DEF HandleRead
<1>11. CASE ReturnMessage
  <2>1. who \in Conns /\ Destroyed(tcp[who]).live = FALSE
    BY DEF Destroyed, ObjectInv, TypeOK, TcpType
  <2>2. \A c \in Conns : Keeps(c)
    BY <1>11, <2>1 DEF ReturnMessage, network, ObjectInv, TypeOK
  <2>3. QED
    BY <1>11, <2>2, KeepStep DEF ReturnMessage, AfterStage, network
<1>12. CASE HandleWrite
  <2>1. CASE ~IsWriting(chan[cur])
    BY <1>12, <2>1, KeepStep DEF HandleWrite, AfterStage, objects, network
  <2>2. CASE IsWriting(chan[cur])
    <3>1. cur \in Conns /\ cur # Listener
      BY <2>2, ConnsAssumption DEF ObjectInv, TypeOK, ListenerReads, Channels
    <3>2. tcp[cur].live /\ pc = "handle"
      BY <1>12, <3>1 DEF HandleWrite, At, Freed
    <3>3. \/ Crash("sigpipe") \/ Crash("write")
          \/ WritePending(cur) /\ Accepts(sock[cur], Len(tcp[cur].output)) # 0
      BY <1>12, <2>2 DEF HandleWrite
    <3>4. Accepts(sock[cur], Len(tcp[cur].output)) # 0 => ~sock[cur].rst
      BY DEF Accepts
    <3>5. QED
      BY <3>1, <3>2, <3>3, <3>4, CrashOutput, WritePendingOutput
  <2>3. QED
    BY <2>1, <2>2
<1>13. CASE ReturnDown
  BY <1>13, RemoveConnectionOutput DEF ReturnDown
<1>14. CASE ReturnRemoved
  BY <1>14, RemoveChannelOutput DEF ReturnRemoved, ObjectInv, TypeOK
<1>15. QED
  BY <1>1, <1>2, <1>3, <1>4, <1>5, <1>6, <1>7, <1>8, <1>9, <1>10, <1>11, <1>12,
     <1>13, <1>14
     DEF LoopStep

LEMMA UserOutput == ASSUME ObjectInv, OutputInv, UserStep PROVE OutputInv'
<1>1. who \in Conns /\ tcp[who].input \in Bytes /\ <<>> \in Bytes /\ Message \in Bytes
  BY BytesEmpty, BoundsAssumption DEF ObjectInv, TypeOK, TcpType, Bytes
<1>2. pc \in Callbacks /\ tcp[who].live
  BY DEF UserStep, UserSend, UserEcho, UserRetrieve, UserShutdown, UserRemove,
     UserQuit, May, Callbacks, OutputInv, CallbackLive
<1>3. CASE UserSend
  BY <1>1, <1>2, <1>3, SendBytesOutput DEF UserSend
<1>4. CASE UserEcho
  BY <1>1, <1>2, <1>4, SendBytesOutput DEF UserEcho
<1>5. CASE UserRetrieve
  <2>1. \A c \in Conns : Keeps(c) /\ tcp'[c].live = tcp[c].live
    BY <1>5 DEF UserRetrieve, Keeps, network, ObjectInv, TypeOK, TcpType
  <2>2. QED
    BY <1>1, <1>2, <1>5, <2>1, KeepStep DEF UserRetrieve, network, loopVars, CallbackLive
<1>6. CASE UserShutdown
  <2>1. \A c \in Conns : Keeps(c)
    BY <1>6 DEF UserShutdown, Keeps, objects, network, ObjectInv, TypeOK, LogType
  <2>2. QED
    BY <1>1, <1>2, <1>6, <2>1, KeepStep DEF UserShutdown, objects, network, CallbackLive
<1>7. CASE UserRemove
  <2>1. pc \in {"up", "message", "handle"}
    BY <1>7, CallsAssumption DEF UserRemove, May
  <2>2. QED
    BY <1>2, <1>7, <2>1, RemoveConnectionOutput DEF UserRemove
<1>8. CASE UserQuit
  BY <1>2, <1>8, KeepStep DEF UserQuit, Keeps, objects, network, CallbackLive
<1>9. QED
  BY <1>3, <1>4, <1>5, <1>6, <1>7, <1>8 DEF UserStep

LEMMA PeerOutput == ASSUME ObjectInv, OutputInv, PeerStep PROVE OutputInv'
<1>1. PICK c \in Conns : \/ Connect(c) \/ PeerSend(c) \/ PeerRecv(c)
                       \/ PeerClose(c) \/ PeerReset(c)
  BY DEF PeerStep
<1>2. CASE PeerSend(c)
  <2>1. \A x \in Conns : Keeps(x)
    BY <1>2 DEF PeerSend, Keeps, objects, ObjectInv, TypeOK, SockType, PeerType
  <2>2. QED
    BY <1>2, <2>1, KeepStep DEF PeerSend, objects, loopVars, OutputInv, CallbackLive
<1>3. CASE PeerClose(c)
  <2>1. \A x \in Conns : Keeps(x)
    BY <1>3 DEF PeerClose, Keeps, objects, ObjectInv, TypeOK, SockType
  <2>2. QED
    BY <1>3, <2>1, KeepStep DEF PeerClose, objects, loopVars, OutputInv, CallbackLive
<1>4. QED
  BY <1>1, <1>2, <1>3, ConnectOutput, PeerRecvOutput, PeerResetOutput

LEMMA NextOutput == ObjectInv /\ OutputInv /\ [Next]_vars => OutputInv'
<1> SUFFICES ASSUME ObjectInv, OutputInv, [Next]_vars PROVE OutputInv'
  OBVIOUS
<1>1. CASE UNCHANGED vars
  BY <1>1, KeepStep DEF vars, Keeps, OutputInv, CallbackLive
<1>2. QED
  BY <1>1, LoopOutput, UserOutput, PeerOutput DEF Next

(* No byte that the application sent is lost, duplicated or reordered on the *)
(* way to the peer, for every application, every size of the kernel's buffer *)
(* and every peer, unless the peer resets the connection.                    *)
(* (TcpConnection.cpp:80-102, 134-166)                                       *)
THEOREM OutputCorrect == Spec => []OutputConserved
<1>1. Init => ObjectInv /\ OutputInv
  BY InitObject, InitOutput
<1>2. ObjectInv /\ OutputInv /\ [Next]_vars => (ObjectInv /\ OutputInv)'
  BY NextObject, NextOutput
<1>3. ObjectInv /\ OutputInv => OutputConserved
  BY OutputImplied
<1>4. QED
  BY <1>1, <1>2, <1>3, PTL DEF Spec

HIDE DEF ReadableEvent, WritableEvent, HangUp, Interest, Events, Faults

-----------------------------------------------------------------------------
(* A connection is owned by the map or by the callback that runs, and the    *)
(* channel that is handled waits in the batch no more.                       *)

Owned ==
    \A c \in Conns :
        /\ c \in tcpConnections => tcp[c].live
        /\ tcp[c].live => \/ c \in tcpConnections
                          \/ pc \in Callbacks /\ who = c
                          \/ pc = "dead"

(* The callback was called by a handler of the connection itself. *)
ByHandler == pc \in {"message", "down"} \/ (pc = "removed" /\ caller # "up")

Handling ==
    /\ pc \in {"handle"} \cup Callbacks => cur \notin active
    /\ ByHandler => who = cur
    /\ pc \in {"down", "removed"} => tcp[who].state # "CONNECTED"
    /\ pc = "removed" => who \notin tcpConnections
    /\ pc = "removed" /\ caller # "up" => "remove" \in OnMessage
    /\ pc = "message" /\ who \notin tcpConnections =>
          tcp[who].state # "CONNECTED" /\ "remove" \in OnMessage

LifeInv == Owned /\ Handling

LEMMA InitLife == Init => LifeInv
BY DEF Init, LifeInv, Owned, Handling, ByHandler, Callbacks

LEMMA DestroyedIs ==
    ASSUME ObjectInv, NEW c \in Conns
    PROVE  ~Destroyed(tcp[c]).live /\ Destroyed(tcp[c]).state = tcp[c].state
BY DEF Destroyed, ObjectInv, TypeOK, TcpType

(* A step that ends the process keeps the objects. *)
LEMMA DeadLife ==
    ASSUME LifeInv, pc' = "dead", tcpConnections' \subseteq tcpConnections,
           \A c \in Conns : tcp'[c].live = tcp[c].live
    PROVE  LifeInv'
BY DEF LifeInv, Owned, Handling, ByHandler, Callbacks

(* A step of the loop between callbacks keeps the objects. *)
LEMMA BetweenLife ==
    ASSUME LifeInv, pc \notin Callbacks, pc # "dead",
           pc' \notin Callbacks, tcpConnections' = tcpConnections,
           \A c \in Conns : tcp'[c].live = tcp[c].live,
           pc' = "handle" => cur' \notin active'
    PROVE  LifeInv'
BY DEF LifeInv, Owned, Handling, ByHandler, Callbacks

(* A step inside a callback keeps everything that matters here. *)
LEMMA InsideLife ==
    ASSUME LifeInv, UNCHANGED <<pc, who, cur, caller, active, tcpConnections>>,
           \A c \in Conns : tcp'[c].live = tcp[c].live /\ tcp'[c].state = tcp[c].state,
           who \in Conns
    PROVE  LifeInv'
BY DEF LifeInv, Owned, Handling, ByHandler

LEMMA AcceptLife == ASSUME ObjectInv, LifeInv, Accept PROVE LifeInv'
<1> DEFINE c == Head(backlog)
<1>1. /\ pc = "handle" /\ cur = Listener /\ backlog # <<>>
      /\ tcp' = [tcp EXCEPT ![c] = [state |-> "CONNECTED", live |-> TRUE,
                                    input |-> <<>>, output |-> <<>>]]
      /\ who' = c
      /\ pc' = "up" \/ pc' = "dead"
      /\ UNCHANGED <<tcpConnections, cur, active>>
  BY DEF Accept, At, Established, Goto
<1>2. c \in Conns
  BY <1>1, HeadTailProperties DEF ObjectInv, TypeOK
<1> HIDE DEF c
<1>3. tcp'[c].live /\ \A x \in Conns : x # c => tcp'[x] = tcp[x]
  BY <1>1, <1>2 DEF ObjectInv, TypeOK
<1>4. QED
  BY <1>1, <1>2, <1>3 DEF LifeInv, Owned, Handling, ByHandler, Callbacks

LEMMA HandleCloseLife ==
    ASSUME ObjectInv, LifeInv, cur \in Conns, pc = "handle", HandleClose(cur)
    PROVE  LifeInv'
<1>1. /\ tcp' = [tcp EXCEPT ![cur].state = "DISCONNECTED"]
      /\ who' = cur
      /\ pc' = "down" \/ pc' = "dead"
      /\ UNCHANGED <<tcpConnections, cur, active>>
  BY DEF HandleClose, Goto
<1>2. /\ tcp'[cur].state = "DISCONNECTED"
      /\ \A x \in Conns : tcp'[x].live = tcp[x].live
  BY <1>1 DEF ObjectInv, TypeOK, TcpType
<1>3. QED
  BY <1>1, <1>2 DEF LifeInv, Owned, Handling, ByHandler, Callbacks

LEMMA ReadBytesLife ==
    ASSUME ObjectInv, LifeInv, cur \in Conns, pc = "handle", tcp[cur].live,
           NEW n, ReadBytes(cur, n)
    PROVE  LifeInv'
<1>1. /\ who' = cur /\ pc' = "message"
      /\ UNCHANGED <<tcpConnections, cur, active>>
      /\ \A x \in Conns : tcp'[x].live = tcp[x].live
  BY DEF ReadBytes, ObjectInv, TypeOK, TcpType
<1>2. cur \in tcpConnections
  BY DEF LifeInv, Owned, Callbacks
<1>3. QED
  BY <1>1, <1>2 DEF LifeInv, Owned, Handling, ByHandler, Callbacks

(* The channel of the callback's connection is removed and the thread goes   *)
(* back.                                                                     *)
LEMMA RemoveChannelLife ==
    ASSUME ObjectInv, LifeInv, pc \in Callbacks,
           NEW back \in {"up", "message", "handle"}, RemoveChannel(who, back),
           back = "message" => ByHandler /\ "remove" \in OnMessage,
           tcp[who].state # "CONNECTED",
           tcpConnections' = tcpConnections \ {who},
           UNCHANGED <<cur, who, active>>
    PROVE  LifeInv'
<1>1. who \in Conns
  BY DEF ObjectInv, TypeOK
<1>2. /\ ~Destroyed(tcp[who]).live
      /\ Destroyed(tcp[who]).state = tcp[who].state
  BY <1>1, DestroyedIs
<1>3. /\ \A x \in Conns : x # who => tcp'[x] = tcp[x]
      /\ \/ back # "handle" /\ pc' = back /\ tcp' = tcp
         \/ back = "handle" /\ pc' \in {"dispatch", "handle"} /\ ~tcp'[who].live
         \/ pc' = "dead" /\ tcp' = tcp
  BY <1>1, <1>2 DEF RemoveChannel, Goto, AfterStage, ObjectInv, TypeOK
<1>4. CASE pc' = "dead" /\ tcp' = tcp
  BY <1>4, DeadLife
<1>5. CASE back # "handle" /\ pc' = back /\ tcp' = tcp
  BY <1>1, <1>5 DEF LifeInv, Owned, Handling, ByHandler, Callbacks
<1>6. CASE back = "handle" /\ pc' \in {"dispatch", "handle"} /\ ~tcp'[who].live
  BY <1>1, <1>3, <1>6 DEF LifeInv, Owned, Handling, ByHandler, Callbacks
<1>7. QED
  BY <1>3, <1>4, <1>5, <1>6

LEMMA RemoveConnectionLife ==
    ASSUME ObjectInv, LifeInv, pc \in {"up", "message", "down"},
           NEW back \in {"up", "message", "handle"}, RemoveConnection(who, back),
           IF pc = "down" THEN back = "handle" ELSE back = pc,
           back = "message" => "remove" \in OnMessage
    PROVE  LifeInv'
<1>1. who \in Conns /\ pc \in Callbacks
  BY DEF ObjectInv, TypeOK, Callbacks
<1>2. CASE tcp[who].state = "CONNECTED"
  <2>1. /\ tcp' = [tcp EXCEPT ![who].state = "DISCONNECTED"]
        /\ tcpConnections' = tcpConnections \ {who}
        /\ caller' = back
        /\ pc' = "removed" \/ pc' = "dead"
        /\ UNCHANGED <<cur, who, active>>
    BY <1>2 DEF RemoveConnection, ConnectionDestroy, Goto
  <2>2. /\ tcp'[who].state = "DISCONNECTED"
        /\ \A x \in Conns : tcp'[x].live = tcp[x].live
    BY <1>1, <2>1 DEF ObjectInv, TypeOK, TcpType
  <2>3. pc # "down"
    BY <1>2 DEF LifeInv, Handling
  <2>4. QED
    BY <1>1, <2>1, <2>2, <2>3 DEF LifeInv, Owned, Handling, ByHandler, Callbacks
<1>3. CASE tcp[who].state # "CONNECTED"
  BY <1>1, <1>3, RemoveChannelLife DEF RemoveConnection, ConnectionDestroy, ByHandler
<1>4. QED
  BY <1>2, <1>3

LEMMA ReturnRemovedLife == ASSUME ObjectInv, LifeInv, ReturnRemoved PROVE LifeInv'
<1>1. /\ pc = "removed" /\ pc \in Callbacks
      /\ caller \in {"up", "message", "handle"}
      /\ RemoveChannel(who, caller)
      /\ UNCHANGED <<tcpConnections, cur, who, active>>
  BY DEF ReturnRemoved, ObjectInv, TypeOK, Callbacks
<1>2. /\ tcp[who].state # "CONNECTED"
      /\ tcpConnections = tcpConnections \ {who}
      /\ caller = "message" => ByHandler /\ "remove" \in OnMessage
  BY <1>1 DEF LifeInv, Handling, ByHandler
<1>3. QED
  BY <1>1, <1>2, RemoveChannelLife

LEMMA ReturnUpLife ==
    ASSUME ObjectInv, OutputInv, LifeInv, ReturnUp PROVE LifeInv'
<1>1. /\ pc = "up" /\ who \in Conns /\ tcp[who].live
      /\ pc' \in {"dispatch", "handle"}
      /\ tcpConnections' = tcpConnections \cup {who}
      /\ UNCHANGED <<tcp, cur, who, active>>
  BY DEF ReturnUp, AfterStage, ObjectInv, TypeOK, OutputInv, CallbackLive, Callbacks
<1>2. QED
  BY <1>1 DEF LifeInv, Owned, Handling, ByHandler, Callbacks

LEMMA ReturnMessageLife == ASSUME ObjectInv, LifeInv, ReturnMessage PROVE LifeInv'
<1>1. /\ pc = "message" /\ who \in Conns
      /\ pc' \in {"dispatch", "handle"}
      /\ UNCHANGED <<tcpConnections, cur, who, active>>
      /\ \A x \in Conns : x # who => tcp'[x] = tcp[x]
      /\ IF who \in tcpConnections THEN tcp' = tcp ELSE ~tcp'[who].live
  BY DestroyedIs DEF ReturnMessage, AfterStage, ObjectInv, TypeOK
<1>2. QED
  BY <1>1 DEF LifeInv, Owned, Handling, ByHandler, Callbacks

(* A send in a callback keeps the object, or ends the process. *)
LEMMA SendBytesLife ==
    ASSUME ObjectInv, LifeInv, NEW b, NEW left, SendBytes(who, b, left)
    PROVE  LifeInv'
<1>1. who \in Conns
  BY DEF ObjectInv, TypeOK
<1>2. CASE Crash("sigpipe")
  BY <1>2, DeadLife DEF Crash, objects
<1>3. CASE ~Crash("sigpipe")
  <2> DEFINE rest == IF WritesDirectly(who) THEN Unwritten(sock[who], b) ELSE b
  <2>1. /\ UNCHANGED <<who, cur, caller, active, tcpConnections>>
        /\ tcp' = [tcp EXCEPT ![who].output = @ \o rest, ![who].input = left]
        /\ Goto(pc, Watching(who, rest))
    BY <1>3, Zenon DEF SendBytes
  <2>2. pc' = pc \/ pc' = "dead"
    BY <2>1 DEF Goto
  <2> HIDE DEF rest
  <2>3. \A x \in Conns : tcp'[x].live = tcp[x].live /\ tcp'[x].state = tcp[x].state
    BY <1>1, <2>1 DEF ObjectInv, TypeOK, TcpType
  <2>4. QED
    BY <1>1, <2>1, <2>2, <2>3, DeadLife, InsideLife
<1>4. QED
  BY <1>2, <1>3

LEMMA LoopLife ==
    ASSUME ObjectInv, OutputInv, LifeInv, LoopStep PROVE LifeInv'
<1> USE DEF Callbacks
<1>1. CASE Start
  BY <1>1, BetweenLife DEF Start, Goto
<1>2. CASE Poll
  BY <1>2, BetweenLife DEF Poll
<1>3. ASSUME NEW c \in Channels, StartHandle(c) PROVE LifeInv'
  BY <1>3, BetweenLife DEF StartHandle, objects
<1>4. CASE EndBatch
  BY <1>4, BetweenLife DEF EndBatch, objects
<1>5. CASE SkipStage
  BY <1>5, BetweenLife DEF SkipStage, AfterStage, objects, LifeInv, Handling
<1>6. CASE ReadFreedChannel \/ AcceptFails
  BY <1>6, DeadLife DEF ReadFreedChannel, AcceptFails, Crash, objects
<1>7. CASE Accept
  BY <1>7, AcceptLife
<1>8. CASE ReturnUp
  BY <1>8, ReturnUpLife
<1>9. CASE HangUpEvent
  BY <1>9, HandleCloseLife DEF HangUpEvent, At
<1>10. CASE HandleRead
  <2>1. cur \in Conns /\ tcp[cur].live /\ pc = "handle"
    BY <1>10, ConnIsNotListener DEF HandleRead, At, Freed
  <2>2. CASE ReadError(cur)
    BY <2>1, <2>2, BetweenLife DEF ReadError, AfterStage, objects, LifeInv, Handling
  <2>3. QED
    BY <1>10, <2>1, <2>2, ReadBytesLife, HandleCloseLife DEF HandleRead
<1>11. CASE ReturnMessage
  BY <1>11, ReturnMessageLife
<1>12. CASE HandleWrite
  <2>1. pc = "handle" /\ cur \notin active
    BY <1>12 DEF HandleWrite, At, LifeInv, Handling
  <2>2. CASE Crash("sigpipe") \/ Crash("write")
    BY <2>2, DeadLife DEF Crash, objects
  <2>3. CASE WritePending(cur)
    <3>1. \A x \in Conns : tcp'[x].live = tcp[x].live
      BY <2>3 DEF WritePending, ObjectInv, TypeOK, TcpType
    <3>2. pc' \in {"dead", "dispatch", "handle"} /\ UNCHANGED <<cur, active, tcpConnections>>
      BY <2>3 DEF WritePending, Goto, AfterStage
    <3>3. QED
      BY <2>1, <3>1, <3>2, BetweenLife
  <2>4. CASE ~IsWriting(chan[cur])
    BY <1>12, <2>1, <2>4, BetweenLife DEF HandleWrite, AfterStage, objects
  <2>5. QED
    BY <1>12, <2>2, <2>3, <2>4 DEF HandleWrite
<1>13. CASE ReturnDown
  BY <1>13, RemoveConnectionLife DEF ReturnDown
<1>14. CASE ReturnRemoved
  BY <1>14, ReturnRemovedLife
<1>15. QED
  BY <1>1, <1>2, <1>3, <1>4, <1>5, <1>6, <1>7, <1>8, <1>9, <1>10, <1>11, <1>12,
     <1>13, <1>14
     DEF LoopStep

LEMMA UserLife == ASSUME ObjectInv, LifeInv, UserStep PROVE LifeInv'
<1>1. who \in Conns
  BY DEF ObjectInv, TypeOK
<1>2. CASE UserSend \/ UserEcho
  BY <1>2, SendBytesLife DEF UserSend, UserEcho
<1>3. CASE UserRetrieve
  <2>1. \A x \in Conns : tcp'[x].live = tcp[x].live /\ tcp'[x].state = tcp[x].state
    BY <1>1, <1>3 DEF UserRetrieve, ObjectInv, TypeOK, TcpType
  <2>2. QED
    BY <1>1, <1>3, <2>1, InsideLife DEF UserRetrieve, loopVars
<1>4. CASE UserShutdown
  BY <1>1, <1>4, InsideLife, DeadLife DEF UserShutdown, objects
<1>5. CASE UserRemove
  <2>1. pc \in {"up", "message"} /\ (pc = "message" => "remove" \in OnMessage)
    BY <1>5, CallsAssumption DEF UserRemove, May
  <2>2. QED
    BY <1>5, <2>1, RemoveConnectionLife DEF UserRemove
<1>6. CASE UserQuit
  BY <1>1, <1>6, InsideLife DEF UserQuit, objects
<1>7. QED
  BY <1>2, <1>3, <1>4, <1>5, <1>6 DEF UserStep

(* The peers only touch the kernel's sockets. *)
LEMMA PeerKeeps ==
    ASSUME PeerStep
    PROVE  UNCHANGED <<objects, loopVars, log>>
BY DEF PeerStep, Connect, PeerSend, PeerRecv, PeerClose, PeerReset

LEMMA NextLife ==
    ObjectInv /\ OutputInv /\ LifeInv /\ [Next]_vars => LifeInv'
<1> SUFFICES ASSUME ObjectInv, OutputInv, LifeInv, [Next]_vars PROVE LifeInv'
  OBVIOUS
<1>1. who \in Conns
  BY DEF ObjectInv, TypeOK
<1>2. CASE UNCHANGED vars
  BY <1>1, <1>2, InsideLife DEF vars
<1>3. CASE PeerStep
  BY <1>1, <1>3, PeerKeeps, InsideLife DEF objects, loopVars
<1>4. QED
  BY <1>2, <1>3, LoopLife, UserLife DEF Next

-----------------------------------------------------------------------------
(* A freed Channel is out of epoll and out of the batch.  A channel that the *)
(* application had removed is out of epoll before its connection is freed,   *)
(* unless a send registers it again: then the theorem does not hold.  So the *)
(* application either looks at connected() first, or does not send where it  *)
(* may have removed.                                                         *)

AsksFirst ==
    \/ ChecksConnected
    \/ "remove" \notin OnMessage
    \/ OnMessage \cap {"send", "echo"} = {}

DetachedInv ==
    /\ NoDanglingChannel
    /\ pc = "message" /\ who \notin tcpConnections => ~chan[who].added

LEMMA InitDetached == Init => DetachedInv
BY DEF Init, DetachedInv, NoDanglingChannel, Channels, NewChannel

(* Channel::remove(), if its assertion holds, takes the channel out of epoll. *)
LEMMA RemovedIsOut ==
    ASSUME NEW ch, Good(ch), Remove(ch).fault = "none" PROVE ~Remove(ch).added
<1>1. ch \in ChannelType /\ (ch.added <=> ch.status = "ADDED")
  BY DEF Good, Mirrors
<1>2. CASE ~IsNoneEvent(ch)
  BY <1>1, <1>2 DEF Remove, ChannelType
<1>3. CASE IsNoneEvent(ch) /\ ch.added
  BY <1>1, <1>3 DEF Remove, EpollCtl, ChannelType
<1>4. CASE IsNoneEvent(ch) /\ ~ch.added
  BY <1>1, <1>4 DEF Remove, ChannelType
<1>5. QED
  BY <1>1, <1>2, <1>3, <1>4 DEF ChannelType

(* Most steps register no channel but that of a connection that lives. *)
LEMMA QuietDetached ==
    ASSUME DetachedInv, active' \subseteq active, pc' # "message",
           \A c \in Conns : ~tcp'[c].live =>
               ~tcp[c].live /\ chan'[c].added = chan[c].added
    PROVE  DetachedInv'
BY DEF DetachedInv, NoDanglingChannel

LEMMA MessageDetached ==
    ASSUME DetachedInv, who \in Conns,
           UNCHANGED <<active, pc, who, tcpConnections, chan>>,
           \A c \in Conns : tcp'[c].live = tcp[c].live
    PROVE  DetachedInv'
BY DEF DetachedInv, NoDanglingChannel

LEMMA PollDetached == ASSUME ObjectInv, DetachedInv, Poll PROVE DetachedInv'
<1>1. \A c \in Conns : chan'[c].added = chan[c].added
  BY ConnIsNotListener DEF Poll, ObjectInv, TypeOK, ChannelType
<1>2. \A c \in Conns : c \in active' => chan[c].added
  BY ConnIsNotListener DEF Poll, ReadyChannels, Reported
<1>3. QED
  BY <1>1, <1>2 DEF Poll, DetachedInv, NoDanglingChannel

LEMMA AcceptDetached == ASSUME ObjectInv, DetachedInv, Accept PROVE DetachedInv'
<1> DEFINE c == Head(backlog)
           ch == EnabledReadable(NewChannel)
<1>1. c \in Conns
  BY HeadTailProperties DEF ObjectInv, TypeOK, Accept
<1>2. /\ chan' = [chan EXCEPT ![c] = ch]
      /\ tcp' = [tcp EXCEPT ![c] = [state |-> "CONNECTED", live |-> TRUE,
                                    input |-> <<>>, output |-> <<>>]]
      /\ pc' # "message" /\ active' = active
  BY DEF Accept, Established, Goto
<1> HIDE DEF c, ch
<1>3. tcp'[c].live /\ \A x \in Conns : x # c => tcp'[x] = tcp[x] /\ chan'[x] = chan[x]
  BY <1>1, <1>2, ConnIsNotListener DEF ObjectInv, TypeOK
<1>4. QED
  BY <1>2, <1>3, QuietDetached

(* A call on the channel of a connection that lives. *)
LEMMA LivingDetached ==
    ASSUME ObjectInv, DetachedInv, NEW c \in Conns, tcp[c].live, NEW ch,
           chan' = [chan EXCEPT ![c] = ch], active' \subseteq active,
           \A x \in Conns : tcp'[x].live = tcp[x].live,
           \/ pc' # "message"
           \/ pc = "message" /\ c = who /\ UNCHANGED <<pc, who, tcpConnections>>
              /\ (who \notin tcpConnections => ch = chan[c])
    PROVE  DetachedInv'
BY ConnIsNotListener DEF DetachedInv, NoDanglingChannel, ObjectInv, TypeOK

LEMMA RemoveChannelDetached ==
    ASSUME ObjectInv, LifeInv, DetachedInv, who \in Conns, tcp[who].live,
           NEW back \in {"up", "message", "handle"}, RemoveChannel(who, back),
           pc \in Callbacks,
           back = "handle" => ByHandler,
           UNCHANGED <<cur, who, active>>
    PROVE  DetachedInv'
<1> DEFINE ch == Remove(chan[who])
<1>1. /\ chan' = [chan EXCEPT ![who] = ch]
      /\ tcp' = IF back = "handle" /\ ch.fault = "none"
                THEN [tcp EXCEPT ![who] = Destroyed(@)] ELSE tcp
      /\ pc' = IF ch.fault = "none"
               THEN IF back = "handle" THEN AfterStage(stage) ELSE back
               ELSE "dead"
  BY DEF RemoveChannel, Goto
<1>2. ch.fault = "none" => ~ch.added
  BY ConnIsNotListener, ChanGood, RemovedIsOut
<1> HIDE DEF ch
<1>3. /\ chan'[who] = ch
      /\ \A x \in Conns : x # who => chan'[x] = chan[x] /\ tcp'[x] = tcp[x]
  BY <1>1, ConnIsNotListener DEF ObjectInv, TypeOK
<1>4. CASE back = "handle" /\ ch.fault = "none"
  <2>1. who \notin active
    BY <1>4 DEF LifeInv, Handling
  <2>2. pc' # "message"
    BY <1>1, <1>4 DEF AfterStage
  <2>3. QED
    BY <1>2, <1>3, <1>4, <2>1, <2>2 DEF DetachedInv, NoDanglingChannel
<1>5. CASE ~(back = "handle" /\ ch.fault = "none")
  BY <1>1, <1>2, <1>3, <1>5 DEF DetachedInv, NoDanglingChannel
<1>6. QED
  BY <1>4, <1>5

LEMMA RemoveConnectionDetached ==
    ASSUME ObjectInv, LifeInv, DetachedInv, pc \in Callbacks,
           who \in Conns, tcp[who].live,
           NEW back \in {"up", "message", "handle"}, RemoveConnection(who, back),
           back = "handle" => ByHandler
    PROVE  DetachedInv'
<1>1. CASE tcp[who].state = "CONNECTED"
  <2>1. /\ chan' = [chan EXCEPT ![who] = DiabledAllEvents(chan[who])]
        /\ active' = active
        /\ tcp' = [tcp EXCEPT ![who].state = "DISCONNECTED"]
        /\ Goto("removed", DiabledAllEvents(chan[who]))
    BY <1>1 DEF RemoveConnection, ConnectionDestroy
  <2>2. pc' # "message"
    BY <2>1 DEF Goto
  <2>3. \A x \in Conns : tcp'[x].live = tcp[x].live
    BY <2>1 DEF ObjectInv, TypeOK, TcpType
  <2>4. QED
    BY <2>1, <2>2, <2>3, LivingDetached
<1>2. CASE tcp[who].state # "CONNECTED"
  BY <1>2, RemoveChannelDetached DEF RemoveConnection, ConnectionDestroy
<1>3. QED
  BY <1>1, <1>2

LEMMA SendBytesDetached ==
    ASSUME AsksFirst, ObjectInv, LifeInv, DetachedInv, pc \in Callbacks,
           who \in Conns, tcp[who].live, NEW b, NEW left, SendBytes(who, b, left),
           May("send") \/ May("echo")
    PROVE  DetachedInv'
<1>1. CASE Crash("sigpipe")
  BY <1>1, QuietDetached DEF Crash, objects
<1>2. CASE ~Crash("sigpipe")
  <2> DEFINE rest == IF WritesDirectly(who) THEN Unwritten(sock[who], b) ELSE b
             ch == Watching(who, rest)
  <2>1. /\ chan' = [chan EXCEPT ![who] = ch]
        /\ tcp' = [tcp EXCEPT ![who].output = @ \o rest, ![who].input = left]
        /\ Goto(pc, ch)
        /\ UNCHANGED <<tcpConnections, who, active>>
    BY <1>2, Zenon DEF SendBytes
  <2> HIDE DEF rest, ch
  <2>2. \A x \in Conns : tcp'[x].live = tcp[x].live
    BY <2>1 DEF ObjectInv, TypeOK, TcpType
  <2>3. pc = "message" => who \in tcpConnections
    BY DEF May, AsksFirst, LifeInv, Handling
  <2>4. pc' = pc \/ pc' = "dead"
    BY <2>1 DEF Goto
  <2>5. QED
    BY <2>1, <2>2, <2>3, <2>4, LivingDetached
<1>3. QED
  BY <1>1, <1>2

LEMMA LoopDetached ==
    ASSUME ObjectInv, OutputInv, LifeInv, DetachedInv, LoopStep PROVE DetachedInv'
<1>1. CASE Start
  <2>1. \A c \in Conns : chan'[c] = chan[c]
    BY <1>1, ConnIsNotListener DEF Start, ObjectInv, TypeOK
  <2>2. QED
    BY <1>1, <2>1, QuietDetached DEF Start, Goto
<1>2. CASE Poll
  BY <1>2, PollDetached
<1>3. ASSUME NEW c \in Channels, StartHandle(c) PROVE DetachedInv'
  BY <1>3, QuietDetached DEF StartHandle, objects
<1>4. CASE EndBatch \/ SkipStage
  BY <1>4, QuietDetached DEF EndBatch, SkipStage, AfterStage, objects
<1>5. CASE ReadFreedChannel \/ AcceptFails
  BY <1>5, QuietDetached DEF ReadFreedChannel, AcceptFails, Crash, objects
<1>6. CASE Accept
  BY <1>6, AcceptDetached
<1>7. CASE ReturnUp
  BY <1>7, QuietDetached DEF ReturnUp, AfterStage
<1>8. ASSUME HandleClose(cur), cur \in Conns, tcp[cur].live PROVE DetachedInv'
  <2>1. /\ chan' = [chan EXCEPT ![cur] = DiabledAllEvents(chan[cur])]
        /\ active' = active /\ pc' # "message"
        /\ \A x \in Conns : tcp'[x].live = tcp[x].live
    BY <1>8 DEF HandleClose, Goto, ObjectInv, TypeOK, TcpType
  <2>2. QED
    BY <1>8, <2>1, LivingDetached
<1>9. CASE HangUpEvent
  BY <1>8, <1>9, ConnIsNotListener DEF HangUpEvent, At, Freed
<1>10. CASE HandleRead
  <2>1. cur \in Conns /\ tcp[cur].live /\ pc = "handle"
    BY <1>10, ConnIsNotListener DEF HandleRead, At, Freed
  <2>2. CASE ReadError(cur)
    BY <2>2, QuietDetached DEF ReadError, AfterStage, objects
  <2>3. ASSUME NEW n, ReadBytes(cur, n) PROVE DetachedInv'
    <3>1. /\ who' = cur /\ UNCHANGED <<chan, active, tcpConnections>>
          /\ \A x \in Conns : tcp'[x].live = tcp[x].live
      BY <2>3 DEF ReadBytes, ObjectInv, TypeOK, TcpType
    <3>2. cur \in tcpConnections
      BY <2>1 DEF LifeInv, Owned, Callbacks
    <3>3. QED
      BY <3>1, <3>2 DEF DetachedInv, NoDanglingChannel
  <2>4. QED
    BY <1>8, <1>10, <2>1, <2>2, <2>3 DEF HandleRead
<1>11. CASE ReturnMessage
  <2>1. pc = "message" /\ who = cur /\ cur \notin active /\ who \in Conns
    BY <1>11 DEF ReturnMessage, LifeInv, Handling, ByHandler, Callbacks, ObjectInv, TypeOK
  <2>2. /\ UNCHANGED <<chan, active>> /\ pc' # "message"
        /\ \A x \in Conns : x # who => tcp'[x] = tcp[x]
        /\ who \in tcpConnections => tcp' = tcp
    BY <1>11, <2>1 DEF ReturnMessage, AfterStage, ObjectInv, TypeOK
  <2>3. QED
    BY <2>1, <2>2 DEF DetachedInv, NoDanglingChannel
<1>12. CASE HandleWrite
  <2>1. CASE Crash("sigpipe") \/ Crash("write")
    BY <2>1, QuietDetached DEF Crash, objects
  <2>2. CASE ~IsWriting(chan[cur])
    BY <1>12, <2>2, QuietDetached DEF HandleWrite, AfterStage, objects
  <2>3. CASE WritePending(cur) /\ IsWriting(chan[cur])
    <3>1. cur \in Conns /\ tcp[cur].live
      BY <1>12, <2>3, ConnsAssumption
         DEF HandleWrite, At, Freed, ObjectInv, TypeOK, ListenerReads, Channels
    <3>2. \A x \in Conns : tcp'[x].live = tcp[x].live
      BY <2>3 DEF WritePending, ObjectInv, TypeOK, TcpType
    <3>3. /\ pc' # "message" /\ active' = active
          /\ \E ch : chan' = [chan EXCEPT ![cur] = ch]
      BY <2>3 DEF WritePending, Goto, AfterStage
    <3>4. QED
      BY <3>1, <3>2, <3>3, LivingDetached
  <2>4. QED
    BY <1>12, <2>1, <2>2, <2>3 DEF HandleWrite
<1>13. CASE ReturnDown \/ ReturnRemoved
  <2>1. who \in Conns /\ tcp[who].live /\ pc \in Callbacks
    BY <1>13 DEF ReturnDown, ReturnRemoved, ObjectInv, TypeOK, OutputInv,
       CallbackLive, Callbacks
  <2>2. CASE ReturnDown
    BY <2>1, <2>2, RemoveConnectionDetached DEF ReturnDown, ByHandler
  <2>3. CASE ReturnRemoved
    BY <2>1, <2>3, RemoveChannelDetached DEF ReturnRemoved, ByHandler, ObjectInv, TypeOK
  <2>4. QED
    BY <1>13, <2>2, <2>3
<1>14. QED
  BY <1>1, <1>2, <1>3, <1>4, <1>5, <1>6, <1>7, <1>9, <1>10, <1>11, <1>12, <1>13
     DEF LoopStep

LEMMA UserDetached ==
    ASSUME AsksFirst, ObjectInv, OutputInv, LifeInv, DetachedInv, UserStep
    PROVE  DetachedInv'
<1>1. who \in Conns /\ tcp[who].live /\ pc \in Callbacks
  BY DEF UserStep, UserSend, UserEcho, UserRetrieve, UserShutdown, UserRemove,
     UserQuit, May, Callbacks, ObjectInv, TypeOK, OutputInv, CallbackLive
<1>2. CASE UserSend \/ UserEcho
  BY <1>1, <1>2, SendBytesDetached DEF UserSend, UserEcho
<1>3. CASE UserRetrieve
  <2>1. \A x \in Conns : tcp'[x].live = tcp[x].live
    BY <1>1, <1>3 DEF UserRetrieve, ObjectInv, TypeOK, TcpType
  <2>2. QED
    BY <1>1, <1>3, <2>1, MessageDetached DEF UserRetrieve, loopVars
<1>4. CASE UserShutdown
  BY <1>1, <1>4, MessageDetached, QuietDetached DEF UserShutdown, objects
<1>5. CASE UserRemove
  <2>1. pc \in {"up", "message"}
    BY <1>5, CallsAssumption DEF UserRemove, May
  <2>2. QED
    BY <1>1, <1>5, <2>1, RemoveConnectionDetached DEF UserRemove
<1>6. CASE UserQuit
  BY <1>1, <1>6, MessageDetached DEF UserQuit, objects
<1>7. QED
  BY <1>2, <1>3, <1>4, <1>5, <1>6 DEF UserStep

LEMMA NextDetached ==
    ASSUME AsksFirst
    PROVE  ObjectInv /\ OutputInv /\ LifeInv /\ DetachedInv /\ [Next]_vars => DetachedInv'
<1> SUFFICES ASSUME ObjectInv, OutputInv, LifeInv, DetachedInv, [Next]_vars
             PROVE  DetachedInv'
  OBVIOUS
<1>1. who \in Conns
  BY DEF ObjectInv, TypeOK
<1>2. CASE UNCHANGED vars
  BY <1>1, <1>2, MessageDetached DEF vars
<1>3. CASE PeerStep
  BY <1>1, <1>3, PeerKeeps, MessageDetached DEF objects, loopVars
<1>4. QED
  BY <1>2, <1>3, LoopDetached, UserDetached DEF Next

(* For every application that asks connected() before it sends, or does not  *)
(* both remove and send in the message callback: epoll never holds the       *)
(* pointer of a freed Channel, and none waits in activeChannels_.            *)
(* (TcpServer.cpp:48-53, TcpConnection.cpp:55-63)                            *)
THEOREM DanglingFree == ASSUME AsksFirst PROVE Spec => []NoDanglingChannel
<1> DEFINE Inv == ObjectInv /\ OutputInv /\ LifeInv /\ DetachedInv
<1>1. Init => Inv
  BY InitObject, InitOutput, InitLife, InitDetached
<1>2. Inv /\ [Next]_vars => Inv'
  BY NextObject, NextOutput, NextLife, NextDetached
<1>3. Inv => NoDanglingChannel
  BY DEF DetachedInv
<1> HIDE DEF Inv
<1>4. QED
  BY <1>1, <1>2, <1>3, PTL DEF Spec

-----------------------------------------------------------------------------
(* UP and DOWN, and the map.  What the application was told of a connection  *)
(* follows from its state.  newConnection() inserts a connection after the   *)
(* UP callback, so that one that was removed there stays in the map, down:   *)
(* as long as nothing registers its channel again it is never handled any    *)
(* more.  Nothing does if the application asks connected() before it sends,  *)
(* or does not both send and remove in that callback.                        *)

KeepsInUp == "remove" \notin OnUp
ChecksInUp == ChecksConnected \/ ~({"send", "remove"} \subseteq OnUp)

Told(c) ==
    /\ log[c].ups = IF sock[c].fd = "open" THEN 1 ELSE 0
    /\ log[c].downs = IF tcp[c].state \in {"CONNECTING", "CONNECTED"} THEN 0 ELSE 1
    /\ tcp[c].state = "CONNECTING" <=> sock[c].fd # "open"
    /\ tcp[c].state = "CONNECTED" => tcp[c].live

ToldInv == \A c \in Conns : Told(c)

Silent(c) == tcp[c].input = <<>> /\ ~chan[c].added /\ c \notin active

Placed(c) ==
    /\ tcp[c].state # "DISCONNECTING"
    /\ tcp[c].state = "CONNECTING" => ~chan[c].added /\ c \notin active
    /\ tcp[c].state = "CONNECTED" => chan[c].added /\ ReadableEvent \in chan[c].events
    /\ c \in tcpConnections /\ tcp[c].state # "CONNECTED" =>
          (pc = "down" /\ who = c) \/ ("remove" \in OnUp /\ Silent(c))

InUp == pc = "up" \/ (pc = "removed" /\ caller = "up")

Running ==
    /\ InUp =>
          /\ cur = Listener /\ who \notin active /\ who \notin tcpConnections
          /\ tcp[who].input = <<>>
          /\ tcp[who].state # "CONNECTED" => "remove" \in OnUp
    /\ pc = "up" /\ tcp[who].state # "CONNECTED" => ~chan[who].added
    /\ pc = "removed" => caller # "handle"
    /\ pc = "handle" /\ cur \in Conns /\ tcp[cur].live => tcp[cur].state = "CONNECTED"
    /\ pc = "message" /\ who \in tcpConnections => tcp[who].state = "CONNECTED"

MapInv == pc # "dead" => (\A c \in Conns : Placed(c)) /\ Running

LEMMA LiveIsOpen ==
    ASSUME OutputInv, NEW c \in Conns, tcp[c].live PROVE sock[c].fd = "open"
BY DEF OutputInv, FreshInv, Untouched

LEMMA InitTold == Init => ToldInv
BY DEF Init, ToldInv, Told

(* A step that changes no connection's state. *)
LEMMA SameTold ==
    ASSUME ToldInv,
           \A c \in Conns :
               /\ tcp'[c].state = tcp[c].state /\ tcp'[c].live = tcp[c].live
               /\ log'[c].ups = log[c].ups /\ log'[c].downs = log[c].downs
               /\ sock'[c].fd = "open" <=> sock[c].fd = "open"
    PROVE  ToldInv'
BY DEF ToldInv, Told

LEMMA CrashTold ==
    ASSUME ToldInv, NEW why, Crash(why) PROVE ToldInv'
BY SameTold DEF Crash, objects, network

(* No peer opens a socket of the server. *)
LEMMA PeerOpens ==
    ASSUME ObjectInv, PeerStep
    PROVE  \A x \in Conns : sock'[x].fd = "open" <=> sock[x].fd = "open"
<1>1. PICK c \in Conns : \/ Connect(c) \/ PeerSend(c) \/ PeerRecv(c)
                       \/ PeerClose(c) \/ PeerReset(c)
  BY DEF PeerStep
<1>2. sock \in [Conns -> SockType]
  BY DEF ObjectInv, TypeOK
<1>3. CASE Connect(c)
  BY <1>2, <1>3 DEF Connect, SockType
<1>4. CASE PeerSend(c)
  BY <1>2, <1>4 DEF PeerSend, SockType
<1>5. CASE PeerRecv(c)
  BY <1>2, <1>5 DEF PeerRecv, SockType
<1>6. CASE PeerClose(c)
  BY <1>2, <1>6 DEF PeerClose, SockType
<1>7. CASE PeerReset(c)
  BY <1>2, <1>7 DEF PeerReset, SockType
<1>8. QED
  BY <1>1, <1>3, <1>4, <1>5, <1>6, <1>7

LEMMA PeerTold == ASSUME ObjectInv, ToldInv, PeerStep PROVE ToldInv'
BY PeerOpens, PeerKeeps, SameTold DEF objects

LEMMA AcceptTold ==
    ASSUME ObjectInv, OutputInv, ToldInv, Accept PROVE ToldInv'
<1> DEFINE c == Head(backlog)
<1>1. c \in Conns /\ sock[c].fd = "queued"
  <2>1. backlog \in Seq(Conns) /\ backlog # <<>>
    BY DEF Accept, ObjectInv, TypeOK
  <2>2. c = backlog[1] /\ 1 \in 1..Len(backlog) /\ c \in Conns
    BY <2>1, HeadTailProperties, EmptySeq, LenProperties
  <2>3. QED
    BY <2>2 DEF OutputInv, QueueInv
<1>2. /\ tcp' = [tcp EXCEPT ![c] = [state |-> "CONNECTED", live |-> TRUE,
                                    input |-> <<>>, output |-> <<>>]]
      /\ sock' = [sock EXCEPT ![c].fd = "open"]
      /\ log' = [log EXCEPT ![c].ups = @ + 1]
  BY DEF Accept, Established
<1> HIDE DEF c
<1>3. /\ tcp'[c].state = "CONNECTED" /\ tcp'[c].live
      /\ sock'[c].fd = "open"
      /\ log'[c].ups = log[c].ups + 1 /\ log'[c].downs = log[c].downs
      /\ \A x \in Conns : x # c => tcp'[x] = tcp[x] /\ sock'[x] = sock[x] /\ log'[x] = log[x]
  BY <1>1, <1>2 DEF ObjectInv, TypeOK, SockType, LogType
<1>4. log[c].ups = 0 /\ log[c].downs = 0
  BY <1>1 DEF ToldInv, Told
<1>5. QED
  BY <1>1, <1>3, <1>4 DEF ToldInv, Told

(* A connected connection is told DOWN. *)
LEMMA DownTold ==
    ASSUME ObjectInv, ToldInv, NEW c \in Conns, tcp[c].state = "CONNECTED",
           tcp' = [tcp EXCEPT ![c].state = "DISCONNECTED"],
           log' = [log EXCEPT ![c].downs = @ + 1],
           sock' = sock
    PROVE  ToldInv'
<1>1. log[c].downs = 0
  BY DEF ToldInv, Told
<1>2. /\ tcp'[c].state = "DISCONNECTED"
      /\ log'[c].ups = log[c].ups /\ log'[c].downs = log[c].downs + 1
      /\ \A x \in Conns : x # c => tcp'[x] = tcp[x] /\ log'[x] = log[x]
  BY DEF ObjectInv, TypeOK, TcpType, LogType
<1>3. QED
  BY <1>1, <1>2 DEF ToldInv, Told

LEMMA HandleCloseTold ==
    ASSUME ObjectInv, MapInv, ToldInv, cur \in Conns, tcp[cur].live,
           pc = "handle", HandleClose(cur)
    PROVE  ToldInv'
BY DownTold DEF MapInv, Running, HandleClose, network

(* A connection that is not connected is freed, or is not. *)
LEMMA GoneTold ==
    ASSUME ObjectInv, ToldInv, NEW c \in Conns, tcp[c].state # "CONNECTED",
           tcp' = [tcp EXCEPT ![c] = Destroyed(@)] \/ tcp' = tcp,
           log' = log, sock' = sock
    PROVE  ToldInv'
<1>1. ~Destroyed(tcp[c]).live /\ Destroyed(tcp[c]).state = tcp[c].state
  BY DestroyedIs
<1>2. /\ tcp'[c].state = tcp[c].state
      /\ \A x \in Conns : x # c => tcp'[x] = tcp[x]
  BY <1>1 DEF ObjectInv, TypeOK
<1>3. QED
  BY <1>2 DEF ToldInv, Told

LEMMA RemoveConnectionTold ==
    ASSUME ObjectInv, ToldInv, NEW back, RemoveConnection(who, back)
    PROVE  ToldInv'
<1>1. who \in Conns
  BY DEF ObjectInv, TypeOK
<1>2. CASE tcp[who].state = "CONNECTED"
  BY <1>1, <1>2, DownTold DEF RemoveConnection, ConnectionDestroy, network
<1>3. CASE tcp[who].state # "CONNECTED"
  BY <1>1, <1>3, GoneTold DEF RemoveConnection, ConnectionDestroy, RemoveChannel, network
<1>4. QED
  BY <1>2, <1>3

LEMMA SendBytesTold ==
    ASSUME ObjectInv, ToldInv, NEW b, NEW left, SendBytes(who, b, left)
    PROVE  ToldInv'
<1>1. who \in Conns
  BY DEF ObjectInv, TypeOK
<1>2. CASE Crash("sigpipe")
  BY <1>2, CrashTold
<1>3. CASE ~Crash("sigpipe")
  <2> DEFINE rest == IF WritesDirectly(who) THEN Unwritten(sock[who], b) ELSE b
             s == AfterWrite(sock[who], b)
             all == log[who].asked \o b
  <2>1. /\ tcp' = [tcp EXCEPT ![who].output = @ \o rest, ![who].input = left]
        /\ log' = [log EXCEPT ![who].asked = all]
        /\ sock' = [sock EXCEPT ![who] = s] \/ sock' = sock
    BY <1>3, Zenon DEF SendBytes
  <2>2. s.fd = sock[who].fd
    BY <1>1 DEF AfterWrite, ObjectInv, TypeOK, SockType
  <2> HIDE DEF rest, s, all
  <2>3. \A x \in Conns : /\ tcp'[x].live = tcp[x].live /\ tcp'[x].state = tcp[x].state
                         /\ log'[x].ups = log[x].ups /\ log'[x].downs = log[x].downs
                         /\ sock'[x].fd = sock[x].fd
    BY <1>1, <2>1, <2>2 DEF ObjectInv, TypeOK, TcpType, LogType
  <2>4. QED
    BY <2>3, SameTold
<1>4. QED
  BY <1>2, <1>3

LEMMA LoopTold ==
    ASSUME ObjectInv, OutputInv, LifeInv, MapInv, ToldInv, LoopStep PROVE ToldInv'
<1>1. CASE Start \/ Poll \/ EndBatch \/ SkipStage \/ ReturnUp
  BY <1>1, SameTold DEF Start, Poll, EndBatch, SkipStage, ReturnUp, network, objects
<1>2. ASSUME NEW c \in Channels, StartHandle(c) PROVE ToldInv'
  BY <1>2, SameTold DEF StartHandle, network, objects
<1>3. CASE ReadFreedChannel \/ AcceptFails
  BY <1>3, CrashTold DEF ReadFreedChannel, AcceptFails
<1>4. CASE Accept
  BY <1>4, AcceptTold
<1>5. CASE HangUpEvent
  BY <1>5, HandleCloseTold, ConnIsNotListener DEF HangUpEvent, At, Freed
<1>6. CASE HandleRead
  <2>1. cur \in Conns /\ tcp[cur].live /\ pc = "handle"
    BY <1>6, ConnIsNotListener DEF HandleRead, At, Freed
  <2>2. ASSUME NEW n, ReadBytes(cur, n) PROVE ToldInv'
    <3>1. /\ \A x \in Conns : /\ tcp'[x].live = tcp[x].live /\ tcp'[x].state = tcp[x].state
                              /\ sock'[x].fd = sock[x].fd
          /\ log' = log
      BY <2>1, <2>2 DEF ReadBytes, ObjectInv, TypeOK, TcpType, SockType
    <3>2. QED
      BY <3>1, SameTold
  <2>3. CASE ReadError(cur)
    <3>1. /\ \A x \in Conns : sock'[x].fd = sock[x].fd
          /\ UNCHANGED <<tcp, log>>
      BY <2>1, <2>3 DEF ReadError, objects, ObjectInv, TypeOK, SockType
    <3>2. QED
      BY <3>1, SameTold
  <2>4. QED
    BY <1>6, <2>1, <2>2, <2>3, HandleCloseTold DEF HandleRead
<1>7. CASE ReturnMessage
  <2>1. /\ who \in Conns
        /\ UNCHANGED <<log, sock>>
        /\ tcp' = IF who \in tcpConnections THEN tcp
                  ELSE [tcp EXCEPT ![who] = Destroyed(@)]
    BY <1>7 DEF ReturnMessage, network, ObjectInv, TypeOK
  <2>2. CASE who \in tcpConnections
    BY <2>1, <2>2, SameTold
  <2>3. CASE who \notin tcpConnections
    BY <1>7, <2>1, <2>3, GoneTold DEF ReturnMessage, LifeInv, Handling
  <2>4. QED
    BY <2>2, <2>3
<1>8. CASE HandleWrite
  <2>1. CASE Crash("sigpipe") \/ Crash("write")
    BY <2>1, CrashTold
  <2>2. CASE ~IsWriting(chan[cur])
    BY <1>8, <2>2, SameTold DEF HandleWrite, network, objects
  <2>3. CASE WritePending(cur) /\ IsWriting(chan[cur])
    <3>1. cur \in Conns
      BY <1>8, <2>3 DEF HandleWrite, At, ObjectInv, TypeOK, ListenerReads, Channels
    <3> DEFINE s == AfterWrite(sock[cur], tcp[cur].output)
    <3>2. s.fd = sock[cur].fd
      BY <3>1 DEF AfterWrite, ObjectInv, TypeOK, SockType
    <3>3. sock' = [sock EXCEPT ![cur] = s] /\ log' = log
      BY <2>3 DEF WritePending
    <3> HIDE DEF s
    <3>4. \A x \in Conns : tcp'[x].live = tcp[x].live /\ tcp'[x].state = tcp[x].state
      BY <2>3, <3>1 DEF WritePending, ObjectInv, TypeOK, TcpType
    <3>5. \A x \in Conns : sock'[x].fd = sock[x].fd
      BY <3>1, <3>2, <3>3 DEF ObjectInv, TypeOK
    <3>6. QED
      BY <3>3, <3>4, <3>5, SameTold
  <2>4. QED
    BY <1>8, <2>1, <2>2, <2>3 DEF HandleWrite
<1>9. CASE ReturnDown
  BY <1>9, RemoveConnectionTold DEF ReturnDown
<1>10. CASE ReturnRemoved
  <2>1. who \in Conns /\ tcp[who].state # "CONNECTED"
    BY <1>10 DEF ReturnRemoved, LifeInv, Handling, ObjectInv, TypeOK
  <2>2. /\ tcp' = [tcp EXCEPT ![who] = Destroyed(@)] \/ tcp' = tcp
        /\ UNCHANGED <<log, sock>>
    BY <1>10 DEF ReturnRemoved, RemoveChannel, network
  <2>3. QED
    BY <2>1, <2>2, GoneTold
<1>11. QED
  BY <1>1, <1>2, <1>3, <1>4, <1>5, <1>6, <1>7, <1>8, <1>9, <1>10 DEF LoopStep

LEMMA UserTold ==
    ASSUME ObjectInv, ToldInv, UserStep PROVE ToldInv'
<1>1. who \in Conns
  BY DEF ObjectInv, TypeOK
<1>2. CASE UserSend \/ UserEcho
  BY <1>2, SendBytesTold DEF UserSend, UserEcho
<1>3. CASE UserRetrieve
  <2>1. \A x \in Conns : tcp'[x].live = tcp[x].live /\ tcp'[x].state = tcp[x].state
    BY <1>1, <1>3 DEF UserRetrieve, ObjectInv, TypeOK, TcpType
  <2>2. QED
    BY <1>3, <2>1, SameTold DEF UserRetrieve, network
<1>4. CASE UserShutdown
  <2>1. \A x \in Conns : log'[x].ups = log[x].ups /\ log'[x].downs = log[x].downs
    BY <1>1, <1>4 DEF UserShutdown, ObjectInv, TypeOK, LogType
  <2>2. QED
    BY <1>4, <2>1, SameTold DEF UserShutdown, objects, network
<1>5. CASE UserRemove
  BY <1>5, RemoveConnectionTold DEF UserRemove
<1>6. CASE UserQuit
  BY <1>6, SameTold DEF UserQuit, objects, network
<1>7. QED
  BY <1>2, <1>3, <1>4, <1>5, <1>6 DEF UserStep

LEMMA NextTold ==
    ObjectInv /\ OutputInv /\ LifeInv /\ MapInv /\ ToldInv /\ [Next]_vars => ToldInv'
<1> SUFFICES ASSUME ObjectInv, OutputInv, LifeInv, MapInv, ToldInv, [Next]_vars
             PROVE  ToldInv'
  OBVIOUS
<1>1. CASE UNCHANGED vars
  BY <1>1, SameTold DEF vars
<1>2. QED
  BY <1>1, PeerTold, LoopTold, UserTold DEF Next

LEMMA InitMap == Init => MapInv
<1> SUFFICES ASSUME Init PROVE MapInv
  OBVIOUS
<1>1. \A c \in Conns : Placed(c)
  BY ConnIsNotListener DEF Init, Placed, NewChannel
<1>2. Running
  BY DEF Init, Running, InUp
<1>3. QED
  BY <1>1, <1>2 DEF MapInv

(* A channel that watches something is registered, one that is told to watch *)
(* nothing any more is not.                                                  *)
LEMMA SetEventsAdded ==
    ASSUME NEW ch, Good(ch), NEW X \in SUBSET Interest
    PROVE  SetEvents(ch, X).added <=> (~ch.added \/ X # {})
<1> DEFINE d == [ch EXCEPT !.events = X]
           e == [d EXCEPT !.status = "ADDED"]
           f == [d EXCEPT !.status = "DEL"]
<1>1. /\ ch.added <=> ch.status = "ADDED"
      /\ ch \in ChannelType
  BY DEF Good, Mirrors
<1>2. /\ d \in ChannelType /\ d.added = ch.added /\ d.status = ch.status /\ d.events = X
      /\ e \in ChannelType /\ e.added = ch.added
      /\ f \in ChannelType /\ f.added = ch.added
  BY <1>1 DEF ChannelType
<1>3. SetEvents(ch, X) = IF ch.status \in {"NEW", "DEL"} THEN EpollCtl(e, "ADD")
                         ELSE IF X # {} THEN EpollCtl(d, "MOD") ELSE EpollCtl(f, "DEL")
  BY <1>2 DEF SetEvents, UpdateChannel, IsNoneEvent
<1> HIDE DEF d, e, f
<1>4. ASSUME NEW g \in ChannelType
      PROVE  /\ ~g.added => EpollCtl(g, "ADD").added
             /\ g.added => EpollCtl(g, "MOD").added /\ ~EpollCtl(g, "DEL").added
  BY DEF EpollCtl, ChannelType
<1>5. ch.status \in {"NEW", "ADDED", "DEL"}
  BY <1>1 DEF ChannelType
<1>6. QED
  BY <1>1, <1>2, <1>3, <1>4, <1>5

(* What a connected connection's channel stays, what a new one becomes, and  *)
(* that disabledAllEvents() takes it out.                                    *)
LEMMA AddedCalls ==
    ASSUME NEW ch, Good(ch)
    PROVE  /\ EnabledReadable(ch).added /\ ReadableEvent \in EnabledReadable(ch).events
           /\ EnabledWritable(ch).added
           /\ ReadableEvent \in ch.events =>
                 /\ ReadableEvent \in EnabledWritable(ch).events
                 /\ ReadableEvent \in DisabledWritable(ch).events
                 /\ DisabledWritable(ch).added
           /\ ch.added => ~DiabledAllEvents(ch).added
<1>1. ch.events \in SUBSET Interest
  BY DEF Good, ChannelType
<1>2. ASSUME NEW X \in SUBSET Interest
      PROVE  /\ SetEvents(ch, X).events = X
             /\ SetEvents(ch, X).added <=> (~ch.added \/ X # {})
  BY SetEventsGood, SetEventsAdded
<1> ch.events \cup {ReadableEvent} \in SUBSET Interest
    /\ ch.events \cup {WritableEvent} \in SUBSET Interest
  BY <1>1 DEF Interest, ReadableEvent, WritableEvent
<1>3. PICK A \in SUBSET Interest : A = ch.events \cup {ReadableEvent}
  OBVIOUS
<1>4. PICK B \in SUBSET Interest : B = ch.events \cup {WritableEvent}
  OBVIOUS
<1>5. PICK C \in SUBSET Interest : C = ch.events \ {WritableEvent}
  BY <1>1
<1>6. PICK D \in SUBSET Interest : D = {}
  BY <1>1
<1>7. /\ EnabledReadable(ch) = SetEvents(ch, A) /\ EnabledWritable(ch) = SetEvents(ch, B)
      /\ DisabledWritable(ch) = SetEvents(ch, C) /\ DiabledAllEvents(ch) = SetEvents(ch, D)
  BY <1>3, <1>4, <1>5, <1>6
     DEF EnabledReadable, EnabledWritable, DisabledWritable, DiabledAllEvents
<1>8. ReadableEvent \in A /\ A # {} /\ B # {} /\ D = {}
      /\ (ReadableEvent \in ch.events => ReadableEvent \in B /\ ReadableEvent \in C /\ C # {})
  BY <1>3, <1>4, <1>5, <1>6 DEF ReadableEvent, WritableEvent
<1>9. QED
  BY <1>2, <1>7, <1>8

(* A step on one connection leaves the others alone. *)
LEMMA OthersMap ==
    ASSUME MapInv, pc # "dead", NEW c, active' \subseteq active,
           pc = "down" => who = c,
           \A x \in Conns : x # c =>
               /\ tcp'[x].state = tcp[x].state /\ tcp'[x].live = tcp[x].live
               /\ tcp'[x].input = tcp[x].input
               /\ chan'[x].added = chan[x].added /\ chan'[x].events = chan[x].events
               /\ x \in tcpConnections' <=> x \in tcpConnections
    PROVE  \A x \in Conns : x # c => Placed(x)'
BY DEF MapInv, Placed, Silent

(* A step that changes nothing here. *)
LEMMA SameMap ==
    ASSUME MapInv, pc # "dead", active' \subseteq active, Running',
           pc = "down" => pc' = "down" /\ who' = who,
           UNCHANGED tcpConnections,
           \A x \in Conns :
               /\ tcp'[x].state = tcp[x].state /\ tcp'[x].live = tcp[x].live
               /\ tcp'[x].input = tcp[x].input \/ tcp'[x].input = <<>>
               /\ chan'[x].added = chan[x].added /\ chan'[x].events = chan[x].events
    PROVE  MapInv'
<1>1. \A x \in Conns : Placed(x)'
  BY DEF MapInv, Placed, Silent
<1>2. QED
  BY <1>1 DEF MapInv

LEMMA PeersMap == ASSUME MapInv, PeerStep PROVE MapInv'
<1>1. UNCHANGED <<objects, loopVars>> /\ pc # "dead"
  BY PeerKeeps DEF PeerStep, Connect, PeerSend, PeerRecv, PeerClose, PeerReset, Serving
<1>2. Running'
  BY <1>1 DEF MapInv, Running, InUp, objects, loopVars
<1>3. QED
  BY <1>1, <1>2, SameMap DEF objects, loopVars

LEMMA PollMap == ASSUME ObjectInv, MapInv, Poll PROVE MapInv'
<1>1. /\ pc # "dead" /\ pc # "down" /\ pc' = "dispatch" /\ UNCHANGED <<tcp, tcpConnections, log, sock>>
      /\ \A x \in Conns : chan'[x].added = chan[x].added /\ chan'[x].events = chan[x].events
      /\ \A x \in Conns : x \in active' => chan[x].added
  BY ConnIsNotListener
     DEF Poll, ReadyChannels, Reported, network, ObjectInv, TypeOK, ChannelType
<1>2. \A x \in Conns : Placed(x)'
  BY <1>1 DEF MapInv, Placed, Silent
<1>3. Running'
  BY <1>1 DEF Running, InUp
<1>4. QED
  BY <1>2, <1>3 DEF MapInv

(* A channel that is handled was registered, so that its connection is up.   *)
LEMMA StartHandleMap ==
    ASSUME LifeInv, MapInv, NEW c \in Channels, StartHandle(c) PROVE MapInv'
<1>1. /\ pc = "dispatch" /\ c \in active /\ cur' = c /\ active' \subseteq active
      /\ pc' = "handle" /\ UNCHANGED <<objects, network, log, who>>
  BY DEF StartHandle
<1>2. ASSUME c \in Conns, tcp[c].live PROVE tcp[c].state = "CONNECTED"
  BY <1>1, <1>2 DEF LifeInv, Owned, Callbacks, MapInv, Placed, Silent
<1>3. Running'
  BY <1>1, <1>2 DEF Running, InUp, objects
<1>4. QED
  BY <1>1, <1>3, SameMap DEF objects, network

LEMMA AcceptMap ==
    ASSUME ObjectInv, OutputInv, LifeInv, ToldInv, MapInv, Accept, pc' # "dead"
    PROVE  MapInv'
<1> DEFINE ch == EnabledReadable(NewChannel)
<1>1. PICK c \in Conns : c = Head(backlog) /\ sock[c].fd = "queued"
  <2>1. backlog \in Seq(Conns) /\ backlog # <<>>
    BY DEF Accept, ObjectInv, TypeOK
  <2>2. Head(backlog) = backlog[1] /\ 1 \in 1..Len(backlog) /\ Head(backlog) \in Conns
    BY <2>1, HeadTailProperties, EmptySeq, LenProperties
  <2>3. QED
    BY <2>2 DEF OutputInv, QueueInv
<1>2. /\ tcp' = [tcp EXCEPT ![c] = [state |-> "CONNECTED", live |-> TRUE,
                                    input |-> <<>>, output |-> <<>>]]
      /\ chan' = [chan EXCEPT ![c] = ch]
      /\ sock' = [sock EXCEPT ![c].fd = "open"]
      /\ log' = [log EXCEPT ![c].ups = @ + 1]
      /\ who' = c /\ pc = "handle" /\ pc' = "up" /\ cur = Listener
      /\ UNCHANGED <<tcpConnections, cur, active>>
  BY <1>1 DEF Accept, At, Established, Goto
<1>3. ch.added /\ ReadableEvent \in ch.events
  BY AddedCalls, NewChannelGood
<1> HIDE DEF ch
<1>4. /\ tcp'[c].state = "CONNECTED" /\ tcp'[c].live /\ tcp'[c].input = <<>>
      /\ sock'[c].fd = "open" /\ chan'[c] = ch
      /\ log'[c].ups = log[c].ups + 1 /\ log'[c].downs = log[c].downs
      /\ \A x \in Conns : x # c => /\ tcp'[x] = tcp[x] /\ sock'[x] = sock[x]
                                   /\ log'[x] = log[x] /\ chan'[x] = chan[x]
  BY <1>1, <1>2, ConnIsNotListener DEF ObjectInv, TypeOK, SockType, LogType
<1>5. /\ log[c].ups = 0 /\ log[c].downs = 0 /\ tcp[c].state = "CONNECTING"
      /\ c \notin active
  BY <1>1, <1>2 DEF MapInv, Placed, ToldInv, Told
<1>6. c \notin tcpConnections
  BY <1>1 DEF OutputInv, FreshInv, Untouched, LifeInv, Owned
<1>7. Placed(c)'
  BY <1>3, <1>4, <1>5 DEF Placed
<1>8. \A x \in Conns : x # c => Placed(x)'
  BY <1>2, <1>4, OthersMap
<1>9. Running'
  BY <1>1, <1>2, <1>4, <1>5, <1>6 DEF Running, InUp
<1>10. QED
  BY <1>7, <1>8, <1>9 DEF MapInv

LEMMA ReturnUpMap ==
    ASSUME ObjectInv, MapInv, ReturnUp PROVE MapInv'
<1>1. /\ pc = "up" /\ who \in Conns /\ pc' \in {"dispatch", "handle"}
      /\ tcpConnections' = tcpConnections \cup {who}
      /\ UNCHANGED <<tcp, log, sock, chan, active, cur, who>>
  BY DEF ReturnUp, AfterStage, network, ObjectInv, TypeOK
<1>2. Placed(who) /\ Running
  BY <1>1 DEF MapInv
<1>3. Placed(who)'
  BY <1>1, <1>2 DEF Placed, Silent, Running, InUp
<1>4. \A x \in Conns : x # who => Placed(x)'
  BY <1>1, OthersMap
<1>5. Running'
  BY <1>1, <1>2, ConnIsNotListener DEF Running, InUp
<1>6. QED
  BY <1>1, <1>3, <1>4, <1>5 DEF MapInv

(* Steps that change nothing here. *)
LEMMA QuietMap ==
    ASSUME ObjectInv, LifeInv, MapInv,
           Start \/ EndBatch \/ SkipStage \/ UserRetrieve \/ UserShutdown \/ UserQuit
    PROVE  MapInv'
<1>1. CASE pc' = "dead"
  BY <1>1 DEF MapInv
<1>2. CASE pc' # "dead" /\ (Start \/ EndBatch \/ SkipStage)
  <2>1. /\ pc \in {"setup", "dispatch", "handle"} /\ pc' \in {"poll", "exit", "dispatch", "handle"}
        /\ pc' = "handle" => pc = "handle" /\ cur' = cur
        /\ UNCHANGED <<tcp, tcpConnections, log, sock, active>>
    BY <1>2 DEF Start, EndBatch, SkipStage, Goto, AfterStage, objects, network
  <2>2. \A x \in Conns : chan'[x].added = chan[x].added /\ chan'[x].events = chan[x].events
    BY <1>2, ConnIsNotListener
       DEF Start, EndBatch, SkipStage, objects, ObjectInv, TypeOK
  <2>3. Running'
    BY <2>1 DEF MapInv, Running, InUp
  <2>4. QED
    BY <2>1, <2>2, <2>3, SameMap
<1>3. CASE pc' # "dead" /\ (UserRetrieve \/ UserShutdown \/ UserQuit)
  <2>1. /\ pc # "dead" /\ UNCHANGED <<pc, who, cur, caller, active, tcpConnections, sock, chan>>
        /\ \A x \in Conns : /\ tcp'[x].state = tcp[x].state /\ tcp'[x].live = tcp[x].live
                            /\ tcp'[x].input = tcp[x].input \/ tcp'[x].input = <<>>
                            /\ log'[x].ups = log[x].ups /\ log'[x].downs = log[x].downs
    <3>1. who \in Conns /\ tcp \in [Conns -> TcpType] /\ log \in [Conns -> LogType]
      BY DEF ObjectInv, TypeOK
    <3>2. CASE UserRetrieve
      BY <3>1, <3>2 DEF UserRetrieve, May, network, loopVars, TcpType
    <3>3. CASE UserShutdown
      BY <1>3, <3>1, <3>3 DEF UserShutdown, May, objects, network, LogType
    <3>4. CASE UserQuit
      BY <3>4 DEF UserQuit, May, objects, network
    <3>5. QED
      BY <1>3, <3>2, <3>3, <3>4, Zenon
  <2>2. who \in Conns
    BY DEF ObjectInv, TypeOK
  <2>3. Running'
    BY <2>1, <2>2 DEF MapInv, Running, InUp
  <2>4. QED
    BY <2>1, <2>3, SameMap
<1>4. QED
  BY <1>1, <1>2, <1>3

LEMMA HandleCloseMap ==
    ASSUME ObjectInv, MapInv, cur \in Conns, tcp[cur].live, pc = "handle",
           HandleClose(cur), pc' # "dead"
    PROVE  MapInv'
<1>1. Placed(cur) /\ tcp[cur].state = "CONNECTED"
  BY DEF MapInv, Running
<1>2. /\ who' = cur /\ pc' = "down"
      /\ UNCHANGED <<tcpConnections, sock, cur, active>>
  BY DEF HandleClose, Goto, network
<1>3. /\ tcp'[cur].state = "DISCONNECTED" /\ tcp'[cur].live
      /\ log'[cur].ups = log[cur].ups /\ log'[cur].downs = log[cur].downs + 1
      /\ \A x \in Conns : x # cur => /\ tcp'[x] = tcp[x] /\ log'[x] = log[x]
                                     /\ chan'[x] = chan[x]
  BY ConnIsNotListener DEF HandleClose, ObjectInv, TypeOK, TcpType, LogType
<1>4. PICK c \in Conns : c = cur
  OBVIOUS
<1>5. Placed(c)'
  BY <1>1, <1>2, <1>3, <1>4 DEF Placed
<1>6. \A x \in Conns : x # c => Placed(x)'
  BY <1>2, <1>3, <1>4, OthersMap
<1>7. Running'
  BY <1>2 DEF Running, InUp
<1>8. QED
  BY <1>5, <1>6, <1>7 DEF MapInv

LEMMA ReadBytesMap ==
    ASSUME ObjectInv, MapInv, cur \in Conns, tcp[cur].live, pc = "handle",
           NEW n, ReadBytes(cur, n)
    PROVE  MapInv'
<1>1. Placed(cur) /\ tcp[cur].state = "CONNECTED"
  BY DEF MapInv, Running
<1>2. /\ who' = cur /\ pc' = "message"
      /\ UNCHANGED <<tcpConnections, chan, cur, active, log>>
  BY DEF ReadBytes
<1>3. /\ \A x \in Conns : /\ tcp'[x].state = tcp[x].state /\ tcp'[x].live = tcp[x].live
                          /\ sock'[x].fd = sock[x].fd
      /\ \A x \in Conns : x # cur => tcp'[x] = tcp[x]
  BY DEF ReadBytes, ObjectInv, TypeOK, TcpType, SockType
<1>4. PICK c \in Conns : c = cur
  OBVIOUS
<1>5. Placed(c)'
  BY <1>1, <1>2, <1>3, <1>4 DEF Placed
<1>6. \A x \in Conns : x # c => Placed(x)'
  BY <1>2, <1>3, <1>4, OthersMap
<1>7. Running'
  BY <1>1, <1>2, <1>3 DEF Running, InUp
<1>8. QED
  BY <1>5, <1>6, <1>7 DEF MapInv

LEMMA ReadErrorMap ==
    ASSUME ObjectInv, MapInv, cur \in Conns, pc = "handle", ReadError(cur)
    PROVE  MapInv'
<1>1. /\ UNCHANGED <<tcp, chan, tcpConnections, log, active, cur>>
      /\ pc' \in {"dispatch", "handle"}
      /\ \A x \in Conns : sock'[x].fd = sock[x].fd
  BY DEF ReadError, AfterStage, objects, ObjectInv, TypeOK, SockType
<1>2. Running'
  BY <1>1 DEF MapInv, Running, InUp
<1>3. QED
  BY <1>1, <1>2, SameMap

LEMMA ReturnMessageMap ==
    ASSUME ObjectInv, LifeInv, MapInv, ReturnMessage PROVE MapInv'
<1>1. /\ pc = "message" /\ who \in Conns /\ who = cur
      /\ pc' \in {"dispatch", "handle"}
      /\ UNCHANGED <<tcpConnections, cur, who, active, log, chan, sock>>
      /\ \A x \in Conns : x # who => tcp'[x] = tcp[x]
      /\ IF who \in tcpConnections THEN tcp' = tcp
         ELSE ~tcp'[who].live /\ tcp'[who].state = tcp[who].state
  BY DestroyedIs
     DEF ReturnMessage, AfterStage, network, ObjectInv, TypeOK, LifeInv, Handling, ByHandler
<1>2. Placed(who) /\ Running
  BY <1>1 DEF MapInv
<1>3. who \notin tcpConnections => tcp[who].state # "CONNECTED"
  BY <1>1 DEF LifeInv, Handling
<1>4. PICK c \in Conns : c = who
  BY <1>1
<1>5. Placed(c)'
  BY <1>1, <1>2, <1>3, <1>4 DEF Placed, Silent, Running
<1>6. \A x \in Conns : x # c => Placed(x)'
  BY <1>1, <1>4, OthersMap
<1>7. Running'
  BY <1>1, <1>2 DEF Running, InUp
<1>8. QED
  BY <1>1, <1>5, <1>6, <1>7 DEF MapInv

LEMMA WritePendingMap ==
    ASSUME ObjectInv, MapInv, cur \in Conns, tcp[cur].live, pc = "handle",
           WritePending(cur), pc' # "dead"
    PROVE  MapInv'
<1> DEFINE s == AfterWrite(sock[cur], tcp[cur].output)
           rest == Unwritten(sock[cur], tcp[cur].output)
           ch == Drained(cur, rest)
<1>1. /\ Placed(cur) /\ tcp[cur].state = "CONNECTED"
      /\ chan[cur].added /\ ReadableEvent \in chan[cur].events
  BY DEF MapInv, Running, Placed
<1>2. s.fd = sock[cur].fd
  BY DEF AfterWrite, ObjectInv, TypeOK, SockType
<1>3. /\ sock' = [sock EXCEPT ![cur] = s]
      /\ tcp' = [tcp EXCEPT ![cur].output = rest]
      /\ chan' = [chan EXCEPT ![cur] = ch]
      /\ pc' \in {"dispatch", "handle"}
      /\ UNCHANGED <<tcpConnections, cur, log, active>>
  BY DEF WritePending, Goto, AfterStage
<1>4. ch.added /\ ReadableEvent \in ch.events
  BY <1>1, ConnIsNotListener, ChanGood, AddedCalls DEF Drained
<1> HIDE DEF s, rest, ch
<1>5. /\ \A x \in Conns : /\ tcp'[x].state = tcp[x].state /\ tcp'[x].live = tcp[x].live
                          /\ tcp'[x].input = tcp[x].input
                          /\ sock'[x].fd = sock[x].fd
      /\ chan'[cur] = ch
      /\ \A x \in Conns : x # cur => chan'[x] = chan[x]
  BY <1>2, <1>3, ConnIsNotListener DEF ObjectInv, TypeOK, TcpType, SockType
<1>6. PICK c \in Conns : c = cur
  OBVIOUS
<1>7. Placed(c)'
  BY <1>1, <1>3, <1>4, <1>5, <1>6 DEF Placed
<1>8. \A x \in Conns : x # c => Placed(x)'
  BY <1>3, <1>5, <1>6, OthersMap
<1>9. Running'
  BY <1>1, <1>3, <1>5 DEF Running, InUp
<1>10. QED
  BY <1>7, <1>8, <1>9 DEF MapInv

(* The channel of the callback's connection, which is in the map no more, is *)
(* removed and the thread goes back.                                         *)
LEMMA RemoveChannelMap ==
    ASSUME ObjectInv, LifeInv, MapInv, pc \in Callbacks,
           NEW back \in {"up", "message", "handle"}, RemoveChannel(who, back),
           back = "up" => InUp, back = "handle" => ByHandler,
           tcp[who].state # "CONNECTED",
           tcpConnections' = tcpConnections \ {who},
           UNCHANGED <<cur, who, active, log, sock>>, pc' # "dead"
    PROVE  MapInv'
<1>1. who \in Conns /\ Placed(who) /\ Running
  BY DEF MapInv, ObjectInv, TypeOK, Callbacks
<1>2. /\ ~Destroyed(tcp[who]).live
      /\ Destroyed(tcp[who]).state = tcp[who].state
  BY <1>1, DestroyedIs
<1>3. /\ tcp'[who].state = tcp[who].state
      /\ \A x \in Conns : x # who => tcp'[x] = tcp[x]
      /\ \/ back # "handle" /\ pc' = back /\ tcp' = tcp
         \/ back = "handle" /\ pc' \in {"dispatch", "handle"} /\ ~tcp'[who].live
  BY <1>1, <1>2 DEF RemoveChannel, Goto, AfterStage, ObjectInv, TypeOK
<1>4. Remove(chan[who]).fault = "none"
  BY DEF RemoveChannel, Goto
<1>5. /\ ~chan'[who].added
      /\ \A x \in Conns : x # who => chan'[x] = chan[x]
  BY <1>1, <1>4, ConnIsNotListener, ChanGood, RemovedIsOut
     DEF RemoveChannel, ObjectInv, TypeOK
<1>6. PICK c \in Conns : c = who
  BY <1>1
<1>7. Placed(c)'
  BY <1>1, <1>3, <1>5, <1>6 DEF Placed
<1>8. \A x \in Conns : x # c => Placed(x)'
  BY <1>3, <1>5, <1>6, OthersMap DEF MapInv, Callbacks
<1>9. Running'
  BY <1>1, <1>3, <1>5 DEF Running, InUp, LifeInv, Handling, ByHandler
<1>10. QED
  BY <1>6, <1>7, <1>8, <1>9 DEF MapInv

LEMMA RemoveConnectionMap ==
    ASSUME ObjectInv, LifeInv, MapInv, pc \in {"up", "message", "down"},
           NEW back \in {"up", "message", "handle"}, RemoveConnection(who, back),
           IF pc = "down" THEN back = "handle" ELSE back = pc,
           pc = "up" => "remove" \in OnUp, pc' # "dead"
    PROVE  MapInv'
<1>1. who \in Conns /\ Placed(who) /\ Running
  BY DEF MapInv, ObjectInv, TypeOK
<1>2. CASE tcp[who].state = "CONNECTED"
  <2>1. /\ tcp' = [tcp EXCEPT ![who].state = "DISCONNECTED"]
        /\ log' = [log EXCEPT ![who].downs = @ + 1]
        /\ chan' = [chan EXCEPT ![who] = DiabledAllEvents(chan[who])]
        /\ tcpConnections' = tcpConnections \ {who}
        /\ caller' = back /\ pc' = "removed"
        /\ UNCHANGED <<cur, who, active, sock>>
    BY <1>2 DEF RemoveConnection, ConnectionDestroy, Goto, network
  <2>2. /\ tcp'[who].state = "DISCONNECTED" /\ tcp'[who].live = tcp[who].live
        /\ tcp'[who].input = tcp[who].input
        /\ log'[who].ups = log[who].ups /\ log'[who].downs = log[who].downs + 1
        /\ \A x \in Conns : x # who => /\ tcp'[x] = tcp[x] /\ log'[x] = log[x]
                                       /\ chan'[x] = chan[x]
    BY <1>1, <2>1, ConnIsNotListener DEF ObjectInv, TypeOK, TcpType, LogType
  <2>3. back = pc /\ pc # "down"
    BY <1>2 DEF LifeInv, Handling
  <2>4. PICK c \in Conns : c = who
    BY <1>1
  <2>5. Placed(c)'
    BY <1>1, <1>2, <2>1, <2>2, <2>4 DEF Placed
  <2>6. \A x \in Conns : x # c => Placed(x)'
    BY <2>1, <2>2, <2>3, <2>4, OthersMap
  <2>7. Running'
    BY <1>1, <2>1, <2>2, <2>3 DEF Running, InUp
  <2>8. QED
    BY <2>4, <2>5, <2>6, <2>7 DEF MapInv
<1>3. CASE tcp[who].state # "CONNECTED"
  BY <1>3, RemoveChannelMap
     DEF RemoveConnection, ConnectionDestroy, ByHandler, InUp, Callbacks, network
<1>4. QED
  BY <1>2, <1>3

LEMMA ReturnRemovedMap ==
    ASSUME ObjectInv, LifeInv, MapInv, ReturnRemoved, pc' # "dead" PROVE MapInv'
<1>1. /\ pc = "removed" /\ pc \in Callbacks
      /\ caller \in {"up", "message", "handle"}
      /\ RemoveChannel(who, caller)
      /\ UNCHANGED <<tcpConnections, cur, who, active, log, sock>>
  BY DEF ReturnRemoved, ObjectInv, TypeOK, Callbacks, network
<1>2. /\ tcp[who].state # "CONNECTED"
      /\ tcpConnections' = tcpConnections \ {who}
      /\ caller # "handle" /\ (caller = "up" => InUp)
  BY <1>1 DEF LifeInv, Handling, MapInv, Running, InUp
<1>3. QED
  BY <1>1, <1>2, RemoveChannelMap

(* A send keeps a connected channel registered, and meets one that is not    *)
(* connected only where its connection is about to go.                       *)
LEMMA SendBytesMap ==
    ASSUME ObjectInv, OutputInv, LifeInv, ToldInv, MapInv, pc \in Callbacks,
           pc = "up" => tcp[who].state = "CONNECTED",
           NEW b, NEW left, SendBytes(who, b, left),
           left = tcp[who].input \/ left = <<>>, pc' # "dead"
    PROVE  MapInv'
<1> DEFINE rest == IF WritesDirectly(who) THEN Unwritten(sock[who], b) ELSE b
           s == AfterWrite(sock[who], b)
           all == log[who].asked \o b
           ch == Watching(who, rest)
<1>1. who \in Conns /\ Placed(who) /\ Running
  BY DEF MapInv, ObjectInv, TypeOK, Callbacks
<1>2. /\ UNCHANGED <<who, cur, caller, active, tcpConnections>>
      /\ tcp' = [tcp EXCEPT ![who].output = @ \o rest, ![who].input = left]
      /\ chan' = [chan EXCEPT ![who] = ch]
      /\ Goto(pc, ch)
      /\ log' = [log EXCEPT ![who].asked = all]
      /\ sock' = [sock EXCEPT ![who] = s] \/ sock' = sock
  <2>1. ~Crash("sigpipe")
    BY DEF Crash
  <2>2. QED
    BY <2>1, Zenon DEF SendBytes
<1>3. UNCHANGED <<pc, who, cur, caller, active, tcpConnections>>
  BY <1>2 DEF Goto
<1>4. s.fd = sock[who].fd
  BY <1>1 DEF AfterWrite, ObjectInv, TypeOK, SockType
<1>5. tcp[who].state = "CONNECTED" => ch.added /\ ReadableEvent \in ch.events
  BY <1>1, ConnIsNotListener, ChanGood, AddedCalls DEF Watching, Placed
<1> HIDE DEF rest, s, all, ch
<1>6. \A x \in Conns : /\ tcp'[x].live = tcp[x].live /\ tcp'[x].state = tcp[x].state
                       /\ log'[x].ups = log[x].ups /\ log'[x].downs = log[x].downs
                       /\ sock'[x].fd = sock[x].fd
                       /\ x # who => /\ tcp'[x].input = tcp[x].input
                                     /\ chan'[x] = chan[x]
  BY <1>1, <1>2, <1>4, ConnIsNotListener DEF ObjectInv, TypeOK, TcpType, LogType, SockType
<1>7. tcp'[who].input = left /\ chan'[who] = ch
  BY <1>1, <1>2, ConnIsNotListener DEF ObjectInv, TypeOK, TcpType
<1>8. tcp[who].state # "CONNECTING"
  <2>1. tcp[who].live
    BY DEF OutputInv, CallbackLive
  <2>2. sock[who].fd = "open"
    BY <1>1, <2>1, LiveIsOpen
  <2>3. QED
    BY <1>1, <2>2 DEF ToldInv, Told
<1>9. tcp[who].state # "CONNECTED" /\ who \in tcpConnections => pc = "down"
  BY <1>1 DEF Running, LifeInv, Handling, Callbacks
<1>10. PICK c \in Conns : c = who
  BY <1>1
<1>11. Placed(c)'
  BY <1>1, <1>3, <1>5, <1>6, <1>7, <1>8, <1>9, <1>10 DEF Placed
<1>12. \A x \in Conns : x # c => Placed(x)'
  BY <1>3, <1>6, <1>10, OthersMap DEF Callbacks
<1>13. Running'
  BY <1>1, <1>3, <1>6, <1>7 DEF Running, InUp
<1>14. QED
  BY <1>10, <1>11, <1>12, <1>13 DEF MapInv

LEMMA LoopMap ==
    ASSUME ObjectInv, OutputInv, LifeInv, ToldInv, MapInv, LoopStep, pc' # "dead"
    PROVE  MapInv'
<1>1. CASE Start \/ EndBatch \/ SkipStage
  BY <1>1, QuietMap
<1>2. CASE Poll
  BY <1>2, PollMap
<1>3. ASSUME NEW c \in Channels, StartHandle(c) PROVE MapInv'
  BY <1>3, StartHandleMap
<1>4. CASE ReadFreedChannel \/ AcceptFails
  BY <1>4 DEF ReadFreedChannel, AcceptFails, Crash
<1>5. CASE Accept
  BY <1>5, AcceptMap
<1>6. CASE ReturnUp
  BY <1>6, ReturnUpMap
<1>7. CASE HangUpEvent
  BY <1>7, HandleCloseMap, ConnIsNotListener DEF HangUpEvent, At, Freed
<1>8. CASE HandleRead
  <2>1. cur \in Conns /\ tcp[cur].live /\ pc = "handle"
    BY <1>8, ConnIsNotListener DEF HandleRead, At, Freed
  <2>2. QED
    BY <1>8, <2>1, ReadBytesMap, ReadErrorMap, HandleCloseMap DEF HandleRead
<1>9. CASE ReturnMessage
  BY <1>9, ReturnMessageMap
<1>10. CASE HandleWrite
  <2>1. pc = "handle" /\ ~Freed(cur) /\ cur \in Channels
    BY <1>10 DEF HandleWrite, At, ObjectInv, TypeOK
  <2>2. CASE ~IsWriting(chan[cur])
    <3>1. /\ pc' \in {"dispatch", "handle"}
          /\ UNCHANGED <<tcp, tcpConnections, log, sock, chan, active, cur>>
      BY <1>10, <2>2 DEF HandleWrite, AfterStage, objects, network
    <3>2. Running'
      BY <2>1, <3>1 DEF MapInv, Running, InUp
    <3>3. QED
      BY <2>1, <3>1, <3>2, SameMap
  <2>3. CASE IsWriting(chan[cur]) /\ WritePending(cur)
    <3>1. cur \in Conns
      BY <2>1, <2>3 DEF ObjectInv, ListenerReads, Channels
    <3>2. QED
      BY <2>1, <2>3, <3>1, WritePendingMap, ConnIsNotListener DEF Freed
  <2>4. QED
    BY <1>10, <2>2, <2>3 DEF HandleWrite, Crash
<1>11. CASE ReturnDown
  BY <1>11, RemoveConnectionMap DEF ReturnDown
<1>12. CASE ReturnRemoved
  BY <1>12, ReturnRemovedMap
<1>13. QED
  BY <1>1, <1>2, <1>3, <1>4, <1>5, <1>6, <1>7, <1>8, <1>9, <1>10, <1>11, <1>12
     DEF LoopStep

LEMMA UserMap ==
    ASSUME ChecksInUp, ObjectInv, OutputInv, LifeInv, ToldInv, MapInv, UserStep,
           pc' # "dead"
    PROVE  MapInv'
<1>1. CASE UserRetrieve \/ UserShutdown \/ UserQuit
  BY <1>1, QuietMap
<1>2. CASE UserSend
  <2>1. pc \in Callbacks /\ May("send")
    BY <1>2 DEF UserSend, May, Callbacks
  <2>2. pc = "up" => tcp[who].state = "CONNECTED"
    BY <2>1 DEF ChecksInUp, May, MapInv, Running, InUp
  <2>3. QED
    BY <1>2, <2>1, <2>2, SendBytesMap DEF UserSend
<1>3. CASE UserEcho
  <2>1. pc \in Callbacks /\ tcp[who].input # <<>>
    BY <1>3 DEF UserEcho, May, Callbacks
  <2>2. pc # "up"
    BY <2>1 DEF MapInv, Running, InUp
  <2>3. QED
    BY <1>3, <2>1, <2>2, SendBytesMap DEF UserEcho
<1>4. CASE UserRemove
  <2>1. pc \in {"up", "message"} /\ (pc = "up" => "remove" \in OnUp)
    BY <1>4, CallsAssumption DEF UserRemove, May
  <2>2. QED
    BY <1>4, <2>1, RemoveConnectionMap DEF UserRemove
<1>5. QED
  BY <1>1, <1>2, <1>3, <1>4 DEF UserStep

LEMMA NextMap ==
    ASSUME ChecksInUp
    PROVE  ObjectInv /\ OutputInv /\ LifeInv /\ ToldInv /\ MapInv /\ [Next]_vars => MapInv'
<1> SUFFICES ASSUME ObjectInv, OutputInv, LifeInv, ToldInv, MapInv, [Next]_vars
             PROVE  MapInv'
  OBVIOUS
<1>1. CASE UNCHANGED vars
  BY <1>1 DEF vars, MapInv, Placed, Silent, Running, InUp
<1>2. CASE pc' = "dead"
  BY <1>2 DEF MapInv
<1>3. CASE PeerStep
  BY <1>3, PeersMap
<1>4. QED
  BY <1>1, <1>2, <1>3, LoopMap, UserMap DEF Next

LEMMA MapInductive ==
    ASSUME ChecksInUp
    PROVE  Spec => [](ObjectInv /\ OutputInv /\ LifeInv /\ MapInv /\ ToldInv)
<1> DEFINE Inv == ObjectInv /\ OutputInv /\ LifeInv /\ MapInv /\ ToldInv
<1>1. Init => Inv
  BY InitObject, InitOutput, InitLife, InitMap, InitTold
<1>2. Inv /\ [Next]_vars => Inv'
  BY NextObject, NextOutput, NextLife, NextMap, NextTold
<1> HIDE DEF Inv
<1>3. Spec => []Inv
  BY <1>1, <1>2, PTL DEF Spec
<1>4. QED
  BY <1>3 DEF Inv

(* For every application that does not remove a connection in its UP         *)
(* callback: between two callbacks tcpConnections_ holds exactly the         *)
(* connections that live, that are CONNECTED, and that the application was   *)
(* told are UP and not yet DOWN.  (TcpServer.cpp:43-52)                      *)
THEOREM MapCorrect == ASSUME KeepsInUp PROVE Spec => []MapIsConnected
<1>1. Spec => [](ObjectInv /\ OutputInv /\ LifeInv /\ MapInv /\ ToldInv)
  BY MapInductive DEF KeepsInUp, ChecksInUp
<1>2. ASSUME ObjectInv, LifeInv, MapInv, ToldInv PROVE MapIsConnected
  <2> SUFFICES ASSUME pc \in {"poll", "dispatch", "handle"}, NEW c \in Conns
               PROVE  /\ c \in tcpConnections <=> tcp[c].live
                      /\ c \in tcpConnections <=> tcp[c].live /\ tcp[c].state = "CONNECTED"
                      /\ c \in tcpConnections <=> log[c].ups = 1 /\ log[c].downs = 0
    BY DEF MapIsConnected
  <2>1. c \in tcpConnections <=> tcp[c].live
    BY <1>2 DEF LifeInv, Owned, Callbacks
  <2>2. c \in tcpConnections => tcp[c].state = "CONNECTED"
    BY <1>2 DEF KeepsInUp, MapInv, Placed
  <2>3. tcp[c].state = "CONNECTED" <=> log[c].ups = 1 /\ log[c].downs = 0
    BY <1>2 DEF ToldInv, Told
  <2>4. tcp[c].state = "CONNECTED" => tcp[c].live
    BY <1>2 DEF ToldInv, Told
  <2>5. QED
    BY <2>1, <2>2, <2>3, <2>4
<1>3. QED
  BY <1>1, <1>2, PTL

(* For an application that may remove a connection in the UP callback, and   *)
(* that there either sends nothing or asks connected() first: what the map   *)
(* holds between two callbacks is connected and watched, or was removed      *)
(* before it was inserted, told DOWN, never read and out of epoll; and every *)
(* connection that lives is in the map.  (TcpServer.cpp:44-45, 48-53)        *)
THEOREM EarlyRemovalCorrect ==
    ASSUME ChecksInUp PROVE Spec => []MapAfterEarlyRemoval
<1>1. Spec => [](ObjectInv /\ OutputInv /\ LifeInv /\ MapInv /\ ToldInv)
  BY MapInductive
<1>2. ASSUME ObjectInv, OutputInv, LifeInv, MapInv, ToldInv PROVE MapAfterEarlyRemoval
  <2> SUFFICES ASSUME pc \in {"poll", "dispatch", "handle"}, NEW c \in Conns
               PROVE  /\ c \in tcpConnections <=> tcp[c].live
                      /\ c \in tcpConnections =>
                            \/ tcp[c].state = "CONNECTED" /\ chan[c].added /\ log[c].downs = 0
                            \/ RemovedInUp(c)
    BY DEF MapAfterEarlyRemoval
  <2>1. c \in tcpConnections <=> tcp[c].live
    BY <1>2 DEF LifeInv, Owned, Callbacks
  <2>2. Placed(c) /\ Told(c)
    BY <1>2 DEF MapInv, ToldInv
  <2>3. tcp[c].live => tcp[c].state # "CONNECTING"
    BY <1>2, <2>2, LiveIsOpen DEF Told
  <2>4. tcp[c].state \in States
    BY <1>2 DEF ObjectInv, TypeOK, TcpType
  <2>5. QED
    BY <2>1, <2>2, <2>3, <2>4 DEF Placed, Told, Silent, RemovedInUp, States
<1>3. QED
  BY <1>1, <1>2, PTL

(* For the same applications: UP is told once, DOWN at most once, and no     *)
(* message comes before UP or after a DOWN that the application did not ask  *)
(* for itself.  (TcpConnection.cpp:43-78, 115-123)                           *)
THEOREM OnceCorrect == ASSUME ChecksInUp PROVE Spec => []ToldOnce
<1>1. Spec => [](ObjectInv /\ OutputInv /\ LifeInv /\ MapInv /\ ToldInv)
  BY MapInductive
<1>2. ASSUME ObjectInv, OutputInv, LifeInv, MapInv, ToldInv PROVE ToldOnce
  <2>1. \A c \in Conns : log[c].ups <= 1 /\ log[c].downs <= log[c].ups
    BY <1>2 DEF ToldInv, Told
  <2>2. ASSUME pc = "message"
        PROVE  log[who].ups = 1 /\ ("remove" \notin OnMessage => log[who].downs = 0)
    <3>1. who \in Conns /\ tcp[who].live
      BY <1>2, <2>2 DEF ObjectInv, TypeOK, OutputInv, CallbackLive, Callbacks
    <3>2. "remove" \notin OnMessage => tcp[who].state = "CONNECTED"
      BY <1>2, <2>2 DEF LifeInv, Handling, MapInv, Running
    <3>3. QED
      BY <1>2, <3>1, <3>2, LiveIsOpen DEF ToldInv, Told
  <2>3. QED
    BY <2>1, <2>2 DEF ToldOnce
<1>3. QED
  BY <1>1, <1>2, PTL

-----------------------------------------------------------------------------
(* What epoll watches.  The accepting channel is readable from start() on,   *)
(* and the channel of a connected connection as long as it is connected:     *)
(* what handlers and application enable and disable besides leaves that, for *)
(* every application.  With the mirror of epoll's records and with           *)
(* WritingIffPending it follows that the thread never waits for what is      *)
(* there.                                                                    *)

Watched(c) == chan[c].added /\ ReadableEvent \in chan[c].events

WatchedInv ==
    /\ pc \notin {"setup", "dead"} => Watched(Listener)
    /\ \A c \in Conns : tcp[c].state = "CONNECTED" => tcp[c].live /\ Watched(c)

LEMMA InitWatched == Init => WatchedInv
BY DEF Init, WatchedInv

(* Only the first step of the thread leaves the setup, and none leaves the   *)
(* end.                                                                      *)
LEMMA StepsAwake ==
    ASSUME ObjectInv, LoopStep \/ UserStep, ~Start
    PROVE  pc \notin {"setup", "dead"}
<1>1. CASE LoopStep
  BY <1>1
     DEF LoopStep, Poll, StartHandle, EndBatch, SkipStage, ReadFreedChannel,
         AcceptFails, Accept, ReturnUp, HangUpEvent, HandleRead, ReturnMessage,
         HandleWrite, ReturnDown, ReturnRemoved, At
<1>2. CASE UserStep
  BY <1>2
     DEF UserStep, UserSend, UserEcho, UserRetrieve, UserShutdown, UserRemove,
         UserQuit, May
<1>3. QED
  BY <1>1, <1>2

(* A step that changes no registration and connects nothing. *)
LEMMA SameWatched ==
    ASSUME WatchedInv,
           pc' = pc \/ pc \notin {"setup", "dead"},
           \A c \in Channels :
               chan'[c].added = chan[c].added /\ chan'[c].events = chan[c].events,
           \A c \in Conns :
               tcp'[c].state = "CONNECTED" =>
                   tcp[c].state = "CONNECTED" /\ tcp'[c].live = tcp[c].live
    PROVE  WatchedInv'
BY DEF WatchedInv, Watched, Channels

(* A step on one connection. *)
LEMMA OneWatched ==
    ASSUME ObjectInv, WatchedInv, pc \notin {"setup", "dead"}, NEW c \in Conns,
           NEW ch, chan' = [chan EXCEPT ![c] = ch],
           \A x \in Conns : x # c => tcp'[x] = tcp[x],
           tcp'[c].state = "CONNECTED" =>
               tcp'[c].live /\ ch.added /\ ReadableEvent \in ch.events
    PROVE  WatchedInv'
<1>1. /\ chan'[c] = ch /\ c # Listener
      /\ \A x \in Channels : x # c => chan'[x] = chan[x]
  BY ConnIsNotListener DEF ObjectInv, TypeOK
<1>2. Watched(Listener)'
  BY <1>1 DEF WatchedInv, Watched, Channels
<1>3. ASSUME NEW x \in Conns, tcp'[x].state = "CONNECTED"
      PROVE  tcp'[x].live /\ Watched(x)'
  BY <1>1, <1>3 DEF WatchedInv, Watched, Channels
<1>4. QED
  BY <1>2, <1>3 DEF WatchedInv

LEMMA CrashWatched ==
    ASSUME WatchedInv, NEW why, Crash(why) PROVE WatchedInv'
BY DEF Crash, objects, WatchedInv, Watched

LEMMA StartWatched == ASSUME ObjectInv, WatchedInv, Start PROVE WatchedInv'
<1> DEFINE ch == EnabledReadable(chan[Listener])
<1>1. chan' = [chan EXCEPT ![Listener] = ch] /\ tcp' = tcp
  BY DEF Start
<1>2. ch.added /\ ReadableEvent \in ch.events
  BY ChanGood, AddedCalls DEF Channels
<1> HIDE DEF ch
<1>3. chan'[Listener] = ch /\ \A x \in Conns : chan'[x] = chan[x]
  BY <1>1, ConnIsNotListener DEF ObjectInv, TypeOK, Channels
<1>4. QED
  BY <1>1, <1>2, <1>3 DEF WatchedInv, Watched

LEMMA AcceptWatched == ASSUME ObjectInv, WatchedInv, Accept PROVE WatchedInv'
<1> DEFINE ch == EnabledReadable(NewChannel)
<1>1. PICK c \in Conns : c = Head(backlog)
  BY HeadTailProperties DEF Accept, ObjectInv, TypeOK
<1>2. /\ chan' = [chan EXCEPT ![c] = ch]
      /\ tcp' = [tcp EXCEPT ![c] = [state |-> "CONNECTED", live |-> TRUE,
                                    input |-> <<>>, output |-> <<>>]]
      /\ pc = "handle"
  BY <1>1 DEF Accept, At, Established
<1>3. ch.added /\ ReadableEvent \in ch.events
  BY AddedCalls, NewChannelGood
<1> HIDE DEF ch
<1>4. tcp'[c].live /\ \A x \in Conns : x # c => tcp'[x] = tcp[x]
  BY <1>2 DEF ObjectInv, TypeOK
<1>5. QED
  BY <1>2, <1>3, <1>4, OneWatched

(* A connection that is told DOWN. *)
LEMMA DownWatched ==
    ASSUME ObjectInv, WatchedInv, pc \notin {"setup", "dead"}, NEW c \in Conns, NEW ch,
           chan' = [chan EXCEPT ![c] = ch],
           tcp' = [tcp EXCEPT ![c].state = "DISCONNECTED"]
    PROVE  WatchedInv'
<1>1. /\ tcp'[c].state = "DISCONNECTED"
      /\ \A x \in Conns : x # c => tcp'[x] = tcp[x]
  BY DEF ObjectInv, TypeOK, TcpType
<1>2. QED
  BY <1>1, OneWatched

LEMMA HandleCloseWatched ==
    ASSUME ObjectInv, WatchedInv, cur \in Conns, pc = "handle", HandleClose(cur)
    PROVE  WatchedInv'
BY DownWatched DEF HandleClose

(* The channel of a connection that is down, and perhaps the connection, go. *)
LEMMA RemoveChannelWatched ==
    ASSUME ObjectInv, WatchedInv, pc \notin {"setup", "dead"}, NEW back,
           RemoveChannel(who, back), tcp[who].state # "CONNECTED"
    PROVE  WatchedInv'
<1>1. who \in Conns
  BY DEF ObjectInv, TypeOK
<1>2. /\ chan' = [chan EXCEPT ![who] = Remove(chan[who])]
      /\ tcp' = [tcp EXCEPT ![who] = Destroyed(@)] \/ tcp' = tcp
  BY DEF RemoveChannel
<1>3. /\ tcp'[who].state # "CONNECTED"
      /\ \A x \in Conns : x # who => tcp'[x] = tcp[x]
  BY <1>1, <1>2, DestroyedIs DEF ObjectInv, TypeOK
<1>4. QED
  BY <1>1, <1>2, <1>3, OneWatched

LEMMA RemoveConnectionWatched ==
    ASSUME ObjectInv, WatchedInv, pc \notin {"setup", "dead"}, NEW back,
           RemoveConnection(who, back)
    PROVE  WatchedInv'
<1>1. CASE tcp[who].state = "CONNECTED"
  BY <1>1, DownWatched DEF RemoveConnection, ConnectionDestroy, ObjectInv, TypeOK
<1>2. CASE tcp[who].state # "CONNECTED"
  BY <1>2, RemoveChannelWatched DEF RemoveConnection, ConnectionDestroy
<1>3. QED
  BY <1>1, <1>2

LEMMA WritePendingWatched ==
    ASSUME ObjectInv, WatchedInv, cur \in Conns, pc = "handle", WritePending(cur)
    PROVE  WatchedInv'
<1> DEFINE rest == Unwritten(sock[cur], tcp[cur].output)
           ch == Drained(cur, rest)
<1>1. /\ chan' = [chan EXCEPT ![cur] = ch]
      /\ tcp' = [tcp EXCEPT ![cur].output = rest]
  BY DEF WritePending
<1>2. Watched(cur) => ch.added /\ ReadableEvent \in ch.events
  BY ConnIsNotListener, ChanGood, AddedCalls DEF Drained, Watched
<1> HIDE DEF rest, ch
<1>3. /\ tcp'[cur].state = tcp[cur].state /\ tcp'[cur].live = tcp[cur].live
      /\ \A x \in Conns : x # cur => tcp'[x] = tcp[x]
  BY <1>1 DEF ObjectInv, TypeOK, TcpType
<1>4. QED
  BY <1>1, <1>2, <1>3, OneWatched DEF WatchedInv

LEMMA SendBytesWatched ==
    ASSUME ObjectInv, WatchedInv, pc \in Callbacks, NEW b, NEW left,
           SendBytes(who, b, left)
    PROVE  WatchedInv'
<1> DEFINE rest == IF WritesDirectly(who) THEN Unwritten(sock[who], b) ELSE b
           ch == Watching(who, rest)
<1>1. who \in Conns
  BY DEF ObjectInv, TypeOK
<1>2. CASE Crash("sigpipe")
  BY <1>2, CrashWatched
<1>3. CASE ~Crash("sigpipe")
  <2>1. /\ chan' = [chan EXCEPT ![who] = ch]
        /\ tcp' = [tcp EXCEPT ![who].output = @ \o rest, ![who].input = left]
    BY <1>3, Zenon DEF SendBytes
  <2>2. Watched(who) => ch.added /\ ReadableEvent \in ch.events
    BY <1>1, ConnIsNotListener, ChanGood, AddedCalls DEF Watching, Watched
  <2> HIDE DEF rest, ch
  <2>3. /\ tcp'[who].state = tcp[who].state /\ tcp'[who].live = tcp[who].live
        /\ \A x \in Conns : x # who => tcp'[x] = tcp[x]
    BY <1>1, <2>1 DEF ObjectInv, TypeOK, TcpType
  <2>4. QED
    BY <1>1, <2>1, <2>2, <2>3, OneWatched DEF WatchedInv, Callbacks
<1>4. QED
  BY <1>2, <1>3

LEMMA LoopWatched ==
    ASSUME ObjectInv, LifeInv, WatchedInv, LoopStep PROVE WatchedInv'
<1>1. CASE Start
  BY <1>1, StartWatched
<1>2. CASE ~Start
  <2> pc \notin {"setup", "dead"}
    BY <1>2, StepsAwake
  <2>1. CASE Poll
    <3>1. \A c \in Channels :
              chan'[c].added = chan[c].added /\ chan'[c].events = chan[c].events
      BY <2>1 DEF Poll, ObjectInv, TypeOK, ChannelType
    <3>2. QED
      BY <2>1, <3>1, SameWatched DEF Poll
  <2>2. ASSUME NEW c \in Channels, StartHandle(c) PROVE WatchedInv'
    BY <2>2, SameWatched DEF StartHandle, objects
  <2>3. CASE EndBatch \/ SkipStage \/ ReturnUp
    BY <2>3, SameWatched DEF EndBatch, SkipStage, ReturnUp, objects
  <2>4. CASE ReadFreedChannel \/ AcceptFails
    BY <2>4, CrashWatched DEF ReadFreedChannel, AcceptFails
  <2>5. CASE Accept
    BY <2>5, AcceptWatched
  <2>6. CASE HangUpEvent
    BY <2>6, HandleCloseWatched DEF HangUpEvent, At
  <2>7. CASE HandleRead
    <3>1. cur \in Conns /\ pc = "handle"
      BY <2>7 DEF HandleRead, At
    <3>2. ASSUME NEW n, ReadBytes(cur, n) PROVE WatchedInv'
      <4>1. \A x \in Conns : tcp'[x].state = tcp[x].state /\ tcp'[x].live = tcp[x].live
        BY <3>1, <3>2 DEF ReadBytes, ObjectInv, TypeOK, TcpType
      <4>2. QED
        BY <3>2, <4>1, SameWatched DEF ReadBytes
    <3>3. CASE ReadError(cur)
      BY <3>3, SameWatched DEF ReadError, objects
    <3>4. QED
      BY <2>7, <3>1, <3>2, <3>3, HandleCloseWatched DEF HandleRead
  <2>8. CASE ReturnMessage
    <3>1. /\ who \in Conns /\ chan' = chan
          /\ who \notin tcpConnections => tcp[who].state # "CONNECTED"
      BY <2>8 DEF ReturnMessage, LifeInv, Handling, ObjectInv, TypeOK
    <3>2. \A x \in Conns : tcp'[x].state = "CONNECTED" => tcp'[x] = tcp[x]
      BY <2>8, <3>1, DestroyedIs DEF ReturnMessage, ObjectInv, TypeOK
    <3>3. QED
      BY <3>1, <3>2, SameWatched
  <2>9. CASE HandleWrite
    <3>1. CASE Crash("sigpipe") \/ Crash("write")
      BY <3>1, CrashWatched
    <3>2. CASE ~IsWriting(chan[cur])
      BY <2>9, <3>2, SameWatched DEF HandleWrite, objects
    <3>3. CASE WritePending(cur) /\ IsWriting(chan[cur])
      <4>1. cur \in Conns
        BY <3>3 DEF ObjectInv, TypeOK, ListenerReads, Channels
      <4>2. QED
        BY <2>9, <3>3, <4>1, WritePendingWatched DEF HandleWrite, At
    <3>4. QED
      BY <2>9, <3>1, <3>2, <3>3 DEF HandleWrite
  <2>10. CASE ReturnDown
    BY <2>10, RemoveConnectionWatched DEF ReturnDown
  <2>11. CASE ReturnRemoved
    BY <2>11, RemoveChannelWatched DEF ReturnRemoved, LifeInv, Handling
  <2>12. QED
    BY <1>2, <2>1, <2>2, <2>3, <2>4, <2>5, <2>6, <2>7, <2>8, <2>9, <2>10, <2>11
       DEF LoopStep
<1>3. QED
  BY <1>1, <1>2

LEMMA UserWatched ==
    ASSUME ObjectInv, WatchedInv, UserStep PROVE WatchedInv'
<1>1. who \in Conns
  BY DEF ObjectInv, TypeOK
<1>2. \A call : May(call) => pc \in Callbacks
  BY DEF May, Callbacks
<1>3. CASE UserSend \/ UserEcho
  BY <1>2, <1>3, SendBytesWatched DEF UserSend, UserEcho
<1>4. CASE UserRetrieve
  <2>1. \A x \in Conns : tcp'[x].state = tcp[x].state /\ tcp'[x].live = tcp[x].live
    BY <1>1, <1>4 DEF UserRetrieve, ObjectInv, TypeOK, TcpType
  <2>2. QED
    BY <1>4, <2>1, SameWatched DEF UserRetrieve, loopVars
<1>5. CASE UserShutdown \/ UserQuit
  BY <1>2, <1>5, SameWatched DEF UserShutdown, UserQuit, objects, Callbacks
<1>6. CASE UserRemove
  BY <1>2, <1>6, RemoveConnectionWatched DEF UserRemove, Callbacks
<1>7. QED
  BY <1>3, <1>4, <1>5, <1>6 DEF UserStep

LEMMA NextWatched == ObjectInv /\ LifeInv /\ WatchedInv /\ [Next]_vars => WatchedInv'
<1> SUFFICES ASSUME ObjectInv, LifeInv, WatchedInv, [Next]_vars PROVE WatchedInv'
  OBVIOUS
<1>1. CASE UNCHANGED vars
  BY <1>1, SameWatched DEF vars
<1>2. CASE PeerStep
  BY <1>2, PeerKeeps, SameWatched DEF objects, loopVars
<1>3. QED
  BY <1>1, <1>2, LoopWatched, UserWatched DEF Next

(* For every application: the thread never sleeps on work.  When it waits in *)
(* epoll_wait() it is woken for whoever waits to be accepted, for what a     *)
(* connected peer sent, for its end, and for room for pending output.        *)
(* (Acceptor.cpp:25, TcpConnection.cpp:43-112, 141-165, Epoller.cpp:28-53)   *)
THEOREM NothingMissed == Spec => []NobodyWaits
<1> DEFINE Inv == /\ ObjectInv /\ WritingIffPending /\ OutputInv
                  /\ LifeInv /\ WatchedInv
<1>1. Init => Inv
  BY InitObject, InitWriting, InitOutput, InitLife, InitWatched
<1>2. Inv /\ [Next]_vars => Inv'
  BY NextObject, NextWriting, NextOutput, NextLife, NextWatched
<1>3. Inv => NobodyWaits
  <2> SUFFICES ASSUME Inv, pc = "poll" PROVE NobodyWaits
    BY DEF NobodyWaits
  <2>1. ASSUME NEW c \in Channels, Watched(c), ReadableEvent \in Ready(c)
        PROVE  c \in ReadyChannels
    BY <2>1 DEF ObjectInv, EpollMirror, Mirrors, Watched, Reported, ReadyChannels
  <2>2. backlog # <<>> => Listener \in ReadyChannels
    BY <2>1 DEF WatchedInv, Ready, Channels
  <2>3. ASSUME NEW c \in Conns, tcp[c].state = "CONNECTED"
        PROVE  /\ c \in Channels /\ Watched(c) /\ tcp[c].live
               /\ Ready(c) = SocketEvents(sock[c])
    BY <2>3, ConnIsNotListener, LiveIsOpen DEF WatchedInv, Ready
  <2>4. ASSUME NEW c \in Conns, tcp[c].state = "CONNECTED",
               sock[c].rcv # <<>> \/ sock[c].fin \/ sock[c].rst
        PROVE  c \in ReadyChannels
    BY <2>1, <2>3, <2>4 DEF SocketEvents
  <2>5. ASSUME NEW c \in Conns, tcp[c].state = "CONNECTED",
               tcp[c].output # <<>>, Len(sock[c].snd) < SndBuf
        PROVE  c \in ReadyChannels
    <3>1. WritableEvent \in Ready(c)
      BY <2>3, <2>5 DEF SocketEvents
    <3>2. WritableEvent \in chan[c].mask
      BY <2>3, <2>5 DEF WritingIffPending, IsWriting, ObjectInv, EpollMirror, Mirrors, Watched
    <3>3. QED
      BY <2>3, <2>5, <3>1, <3>2 DEF Reported, ReadyChannels, Watched
  <2>6. QED
    BY <2>2, <2>4, <2>5 DEF NobodyWaits
<1> HIDE DEF Inv
<1>4. QED
  BY <1>1, <1>2, <1>3, PTL DEF Spec

-----------------------------------------------------------------------------
(* The ways to die.  While the process lives no call on a channel failed;    *)
(* a report that waits or is handled still holds: there is a connection to   *)
(* accept, or output to write and room for it; and the channel of a          *)
(* connection that is down watches nothing.                                  *)

Sending == {"send", "echo", "shutdown"}

CallsConnected ==
    \/ ChecksConnected
    \/ /\ OnDown \cap Sending = {}
       /\ \A calls \in {OnUp, OnMessage} :
             "remove" \notin calls \/ calls \cap Sending = {}

NoFaults == \A c \in Channels : chan[c].fault = "none"

ListenerDue ==
    /\ Listener \in active \/ (pc = "handle" /\ cur = Listener /\ stage # "OUT")
    /\ ReadableEvent \in chan[Listener].revents

WriteDue(c) ==
    /\ c \in active \/ (pc \in {"handle"} \cup Callbacks /\ cur = c)
    /\ WritableEvent \in chan[c].revents
    /\ tcp[c].live

HasRoom(s) == Len(s.snd) < SndBuf \/ s.rst

CanWrite(c) == WriteDue(c) => tcp[c].output # <<>> /\ HasRoom(sock[c])

DownIsSilent ==
    pc \in Callbacks /\ tcp[who].state # "CONNECTED" => IsNoneEvent(chan[who])

Alive ==
    /\ cause = "none"
    /\ NoFaults
    /\ ListenerDue => backlog # <<>>
    /\ \A c \in Conns : CanWrite(c)
    /\ DownIsSilent
    /\ InUp => stage = "IN"

DeathInv == IF pc = "dead" THEN DeathCauses ELSE Alive

LEMMA InitDeath == Init => DeathInv
BY DEF Init, DeathInv, Alive, NoFaults, ListenerDue, CanWrite, WriteDue, DownIsSilent,
   NewChannel, Callbacks, InUp

(* No call but Remove() fails on a channel that is in order. *)
LEMMA CtlFault ==
    ASSUME NEW ch \in ChannelType, NEW op
    PROVE  EpollCtl(ch, op).fault \in {ch.fault, "epoll_ctl"}
BY DEF EpollCtl, ChannelType

LEMMA SetEventsFault ==
    ASSUME NEW ch, Good(ch), ch.fault = "none", NEW E \in SUBSET Interest
    PROVE  SetEvents(ch, E).fault = "none"
<1> DEFINE d == [ch EXCEPT !.events = E]
           e == [d EXCEPT !.status = "ADDED"]
           f == [d EXCEPT !.status = "DEL"]
<1>1. d \in ChannelType /\ e \in ChannelType /\ f \in ChannelType
      /\ d.fault = "none" /\ e.fault = "none" /\ f.fault = "none"
  BY DEF Good, ChannelType
<1>2. \E g \in {d, e, f}, op \in {"ADD", "MOD", "DEL"} : SetEvents(ch, E) = EpollCtl(g, op)
  BY DEF SetEvents, UpdateChannel
<1> HIDE DEF d, e, f
<1>3. SetEvents(ch, E).fault \in {"none", "epoll_ctl"}
  BY <1>1, <1>2, CtlFault
<1>4. SetEvents(ch, E).fault # "epoll_ctl"
  BY SetEventsGood DEF Good, Mirrors
<1>5. QED
  BY <1>3, <1>4

LEMMA CallsFault ==
    ASSUME NEW ch, Good(ch), ch.fault = "none"
    PROVE  \A d \in {EnabledReadable(ch), EnabledWritable(ch), DisabledWritable(ch),
                     DiabledAllEvents(ch)} :
               d.fault = "none" /\ d.revents = ch.revents
<1>1. ch.events \in SUBSET Interest
  BY DEF Good, ChannelType
<1>2. ASSUME NEW E \in SUBSET Interest
      PROVE  SetEvents(ch, E).fault = "none" /\ SetEvents(ch, E).revents = ch.revents
  BY SetEventsFault, SetEventsGood
<1>3. /\ ch.events \cup {ReadableEvent} \in SUBSET Interest
      /\ ch.events \cup {WritableEvent} \in SUBSET Interest
      /\ ch.events \ {WritableEvent} \in SUBSET Interest
      /\ {} \in SUBSET Interest
  BY <1>1 DEF Interest, ReadableEvent, WritableEvent
<1>4. EnabledReadable(ch).fault = "none" /\ EnabledReadable(ch).revents = ch.revents
  BY <1>2, <1>3, Zenon DEF EnabledReadable
<1>5. EnabledWritable(ch).fault = "none" /\ EnabledWritable(ch).revents = ch.revents
  BY <1>2, <1>3, Zenon DEF EnabledWritable
<1>6. DisabledWritable(ch).fault = "none" /\ DisabledWritable(ch).revents = ch.revents
  BY <1>2, <1>3, Zenon DEF DisabledWritable
<1>7. DiabledAllEvents(ch).fault = "none" /\ DiabledAllEvents(ch).revents = ch.revents
  BY <1>2, <1>3, Zenon DEF DiabledAllEvents
<1>8. QED
  BY <1>4, <1>5, <1>6, <1>7, Zenon

LEMMA DisabledIsSilent ==
    ASSUME NEW ch, Good(ch) PROVE IsNoneEvent(DiabledAllEvents(ch))
BY SetEventsGood DEF DiabledAllEvents, IsNoneEvent

LEMMA RemoveFault ==
    ASSUME NEW ch, Good(ch), ch.fault = "none", IsNoneEvent(ch)
    PROVE  /\ Remove(ch).fault = "none"
           /\ Remove(ch).revents = ch.revents
           /\ IsNoneEvent(Remove(ch))
<1>1. ch \in ChannelType /\ (ch.added <=> ch.status = "ADDED")
  BY DEF Good, Mirrors
<1>2. Remove(ch).fault = "none"
  BY <1>1 DEF Remove, EpollCtl, ChannelType
<1>3. QED
  BY <1>2, RemoveGood DEF IsNoneEvent

(* A call on one channel. *)
LEMMA CallStep ==
    ASSUME ObjectInv, NoFaults, NEW c \in Channels, NEW ch, ch.fault = "none",
           ch.revents = chan[c].revents, chan' = [chan EXCEPT ![c] = ch]
    PROVE  /\ NoFaults'
           /\ \A x \in Channels : chan'[x].revents = chan[x].revents
           /\ chan'[c] = ch
BY DEF NoFaults, ObjectInv, TypeOK

(* A step that takes no connection, writes nothing and reports nothing. *)
LEMMA AliveStep ==
    ASSUME ObjectInv, Alive, pc' # "dead", cause' = cause, NoFaults', DownIsSilent',
           \A x \in Channels : chan'[x].revents = chan[x].revents,
           backlog # <<>> => backlog' # <<>>,
           active' \subseteq active,
           pc' = "handle" /\ cur' = Listener /\ stage' # "OUT" =>
               \/ Listener \in active
               \/ pc = "handle" /\ cur = Listener /\ stage # "OUT",
           pc' \in {"handle"} \cup Callbacks =>
               \/ cur' \in active
               \/ pc \in {"handle"} \cup Callbacks /\ cur' = cur,
           InUp' => InUp /\ stage' = stage,
           \A c \in Conns : /\ tcp'[c].live => /\ tcp[c].live
                                               /\ tcp'[c].output = tcp[c].output
                            /\ HasRoom(sock[c]) => HasRoom(sock'[c])
    PROVE  DeathInv'
<1>1. Listener \in Channels /\ Conns \subseteq Channels
  BY DEF Channels
<1>2. ListenerDue' => backlog' # <<>>
  BY <1>1 DEF Alive, ListenerDue
<1>3. ASSUME NEW c \in Conns PROVE CanWrite(c)'
  BY <1>1 DEF Alive, CanWrite, WriteDue
<1>4. QED
  BY <1>2, <1>3 DEF DeathInv, Alive

(* The process ends. *)
LEMMA CrashDeath ==
    ASSUME NEW why, Crash(why), why \notin {"assert", "epoll_ctl", "shutdown"},
           why \in {"write", "sigpipe"} => \E c \in Conns : sock[c].rst,
           why \in {"accept", "socket"} => FdsInUse + 1 >= MaxFds,
           why = "wild" => Freed(cur)
    PROVE  DeathInv'
<1>1. pc' = "dead" /\ cause' = why /\ UNCHANGED <<sock, tcp, cur>>
  BY DEF Crash, objects, network
<1>2. FdsInUse' = FdsInUse /\ Freed(cur)' = Freed(cur)
  BY <1>1 DEF FdsInUse, Freed
<1>3. QED
  BY <1>1, <1>2 DEF DeathInv, DeathCauses

(* Where a handler runs, its connection is connected. *)
LEMMA HandledIsConnected ==
    ASSUME MapInv, pc = "handle", cur \in Conns, tcp[cur].live
    PROVE  tcp[cur].state = "CONNECTED"
BY DEF MapInv, Running

LEMMA PollDeath ==
    ASSUME ObjectInv, WritingIffPending, LifeInv, MapInv, Alive, Poll PROVE DeathInv'
<1>1. /\ pc = "poll" /\ pc' = "dispatch" /\ active' = ReadyChannels
      /\ UNCHANGED <<tcp, sock, backlog, cause, cur, stage>>
  BY DEF Poll, network
<1>2. \A c \in Channels :
        /\ chan'[c].fault = chan[c].fault
        /\ c \in active' => chan'[c].revents = Reported(chan[c], Ready(c))
  BY DEF Poll, ObjectInv, TypeOK, ChannelType
<1>3. ASSUME NEW c \in Conns, WriteDue(c)'
      PROVE  tcp[c].output # <<>> /\ HasRoom(sock[c])
  <2>1. /\ c \in Channels /\ c # Listener /\ tcp[c].live
        /\ WritableEvent \in Reported(chan[c], Ready(c))
    BY <1>1, <1>2, <1>3, ConnIsNotListener DEF WriteDue, Callbacks
  <2>2. chan[c].added /\ IsWriting(chan[c]) /\ WritableEvent \in Ready(c)
    <3>1. Mirrors(chan[c])
      BY <2>1 DEF ObjectInv, EpollMirror
    <3>2. chan[c].added /\ WritableEvent \in Ready(c) /\ WritableEvent \in chan[c].mask
      BY <2>1 DEF Reported, WritableEvent, HangUp
    <3>3. QED
      BY <3>1, <3>2 DEF Mirrors, IsWriting
  <2>3. tcp[c].state = "CONNECTED"
    BY <1>1, <2>1, <2>2 DEF LifeInv, Owned, Callbacks, MapInv, Placed, Silent
  <2>4. HasRoom(sock[c])
    <3>1. WritableEvent \in SocketEvents(sock[c])
      BY <2>1, <2>2 DEF Ready
    <3>2. CASE ~(Len(sock[c].snd) < SndBuf \/ sock[c].rst)
      BY <3>1, <3>2 DEF SocketEvents, ReadableEvent, WritableEvent, HangUp
    <3>3. QED
      BY <3>2 DEF HasRoom
  <2>5. QED
    BY <2>1, <2>2, <2>3, <2>4 DEF WritingIffPending
<1>4. ListenerDue' => backlog # <<>>
  BY <1>1, <1>2 DEF ListenerDue, Reported, Ready, Channels
<1>5. QED
  BY <1>1, <1>2, <1>3, <1>4
     DEF DeathInv, Alive, NoFaults, CanWrite, DownIsSilent, Callbacks, InUp

LEMMA AcceptDeath ==
    ASSUME ObjectInv, LifeInv, Alive, Accept PROVE DeathInv'
<1> DEFINE c == Head(backlog)
           ch == EnabledReadable(NewChannel)
<1>1. c \in Conns
  BY HeadTailProperties DEF ObjectInv, TypeOK, Accept
<1>2. ch.fault = "none" /\ ch.revents = {}
  BY NewChannelGood, CallsFault DEF NewChannel
<1>3. /\ chan' = [chan EXCEPT ![c] = ch]
      /\ tcp' = [tcp EXCEPT ![c] = [state |-> "CONNECTED", live |-> TRUE,
                                    input |-> <<>>, output |-> <<>>]]
      /\ sock' = [sock EXCEPT ![c].fd = "open"]
      /\ who' = c /\ pc' = "up" /\ cause' = cause
      /\ pc = "handle" /\ cur = Listener /\ stage = "IN"
      /\ UNCHANGED <<active, cur, stage>>
  BY <1>2 DEF Accept, At, Established, Goto
<1> HIDE DEF c, ch
<1>4. /\ chan'[c] = ch /\ tcp'[c].state = "CONNECTED"
      /\ c \in Channels /\ c # Listener
      /\ \A x \in Channels : x # c => chan'[x] = chan[x]
      /\ \A x \in Conns : x # c => tcp'[x] = tcp[x] /\ sock'[x] = sock[x]
  BY <1>1, <1>3, ConnIsNotListener DEF ObjectInv, TypeOK
<1>5. NoFaults'
  BY <1>2, <1>4 DEF Alive, NoFaults
<1>6. ~ListenerDue'
  BY <1>3 DEF ListenerDue, LifeInv, Handling
<1>7. ASSUME NEW x \in Conns PROVE CanWrite(x)'
  <2>1. CASE x = c
    BY <1>2, <1>4, <2>1 DEF CanWrite, WriteDue
  <2>2. CASE x # c
    BY <1>3, <1>4, <2>2, ConnIsNotListener DEF Alive, CanWrite, WriteDue, Callbacks
  <2>3. QED
    BY <2>1, <2>2
<1>8. QED
  BY <1>3, <1>4, <1>5, <1>6, <1>7 DEF DeathInv, Alive, DownIsSilent

LEMMA HandleCloseDeath ==
    ASSUME ObjectInv, Alive, cur \in Conns, pc = "handle", HandleClose(cur)
    PROVE  DeathInv'
<1> DEFINE ch == DiabledAllEvents(chan[cur])
<1>1. cur \in Channels /\ cur # Listener
  BY ConnIsNotListener
<1>2. ch.fault = "none" /\ ch.revents = chan[cur].revents /\ IsNoneEvent(ch)
  BY <1>1, ChanGood, CallsFault, DisabledIsSilent DEF Alive, NoFaults
<1>3. /\ chan' = [chan EXCEPT ![cur] = ch]
      /\ who' = cur /\ pc' = "down" /\ cause' = cause
      /\ UNCHANGED <<sock, backlog, cur, active>>
      /\ \A x \in Conns : tcp'[x].live = tcp[x].live /\ tcp'[x].output = tcp[x].output
  BY <1>2 DEF HandleClose, Goto, network, ObjectInv, TypeOK, TcpType
<1> HIDE DEF ch
<1>4. /\ NoFaults' /\ chan'[cur] = ch
      /\ \A x \in Channels : chan'[x].revents = chan[x].revents
  BY <1>1, <1>2, <1>3, CallStep DEF Alive
<1>5. DownIsSilent'
  BY <1>2, <1>3, <1>4 DEF DownIsSilent
<1>6. QED
  BY <1>3, <1>4, <1>5, AliveStep DEF InUp

LEMMA HandleReadDeath ==
    ASSUME ObjectInv, MapInv, Alive, HandleRead PROVE DeathInv'
<1>1. cur \in Conns /\ tcp[cur].live /\ pc = "handle" /\ cur # Listener
  BY ConnIsNotListener DEF HandleRead, At, Freed
<1>2. ASSUME NEW n, ReadBytes(cur, n) PROVE DeathInv'
  <2>1. /\ who' = cur /\ pc' = "message"
        /\ UNCHANGED <<chan, backlog, cur, active, cause>>
    BY <1>2 DEF ReadBytes
  <2>2. \A x \in Conns : /\ tcp'[x].live = tcp[x].live /\ tcp'[x].output = tcp[x].output
                         /\ tcp'[x].state = tcp[x].state
    BY <1>1, <1>2 DEF ReadBytes, ObjectInv, TypeOK, TcpType
  <2>3. \A x \in Conns : sock'[x].snd = sock[x].snd /\ sock'[x].rst = sock[x].rst
    BY <1>1, <1>2 DEF ReadBytes, ObjectInv, TypeOK, SockType
  <2>4. DownIsSilent'
    BY <1>1, <2>1, <2>2, HandledIsConnected DEF DownIsSilent
  <2>5. NoFaults'
    BY <2>1 DEF Alive, NoFaults
  <2>6. QED
    BY <1>1, <2>1, <2>2, <2>3, <2>4, <2>5, AliveStep DEF HasRoom, InUp
<1>3. CASE ReadError(cur)
  <2>1. /\ pc' \in {"handle", "dispatch"}
        /\ UNCHANGED <<chan, tcp, backlog, cur, active, cause>>
    BY <1>3 DEF ReadError, AfterStage, objects
  <2>2. \A x \in Conns : sock'[x].snd = sock[x].snd /\ sock'[x].rst = sock[x].rst
    BY <1>1, <1>3 DEF ReadError, ObjectInv, TypeOK, SockType
  <2>3. DownIsSilent' /\ NoFaults'
    BY <2>1 DEF DownIsSilent, Callbacks, Alive, NoFaults
  <2>4. QED
    BY <1>1, <2>1, <2>2, <2>3, AliveStep DEF HasRoom, Callbacks, InUp
<1>4. QED
  BY <1>1, <1>2, <1>3, HandleCloseDeath DEF HandleRead

LEMMA HandleWriteDeath ==
    ASSUME ObjectInv, LifeInv, MapInv, Alive, HandleWrite PROVE DeathInv'
<1>a. pc = "handle" /\ stage = "OUT" /\ ~Freed(cur) /\ "OUT" \in chan[cur].revents
  BY DEF HandleWrite, At
<1>b. cur \notin active
  BY <1>a DEF LifeInv, Handling
<1>1. pc = "handle" /\ stage = "OUT" /\ cur \notin active
      /\ ~Freed(cur) /\ WritableEvent \in chan[cur].revents
  BY <1>a, <1>b DEF WritableEvent
<1>2. CASE ~IsWriting(chan[cur])
  <2>1. /\ pc' = "dispatch"
        /\ UNCHANGED <<chan, tcp, sock, backlog, active, cause>>
    BY <1>1, <1>2 DEF HandleWrite, AfterStage, objects, network
  <2>2. DownIsSilent' /\ NoFaults'
    BY <2>1 DEF DownIsSilent, Callbacks, Alive, NoFaults
  <2>3. QED
    BY <2>1, <2>2, AliveStep DEF Callbacks, InUp
<1>3. CASE IsWriting(chan[cur])
  <2>1. cur \in Conns /\ cur # Listener /\ cur \in Channels
    BY <1>3, ConnsAssumption DEF ObjectInv, TypeOK, ListenerReads, Channels
  <2>2. tcp[cur].live /\ tcp[cur].state = "CONNECTED"
    BY <1>1, <2>1, HandledIsConnected DEF Freed
  <2>3. tcp[cur].output # <<>> /\ HasRoom(sock[cur])
    BY <1>1, <2>1, <2>2 DEF Alive, CanWrite, WriteDue
  <2>4. CASE Crash("sigpipe") /\ RaisesSigpipe(sock[cur])
    BY <2>1, <2>4, CrashDeath DEF RaisesSigpipe
  <2>5. CASE Crash("write") /\ Accepts(sock[cur], Len(tcp[cur].output)) = 0
    <3>1. /\ Len(tcp[cur].output) \in Nat \ {0} /\ Len(sock[cur].snd) \in Nat
          /\ SndBuf \in Nat
      BY <2>1, <2>3, LenProperties, EmptySeq, BoundsAssumption
         DEF ObjectInv, TypeOK, TcpType, SockType, Bytes
    <3>2. sock[cur].rst
      <4> SUFFICES ASSUME ~sock[cur].rst PROVE FALSE
        OBVIOUS
      <4> DEFINE n == Len(tcp[cur].output)
                 k == Len(sock[cur].snd)
      <4>1. k < SndBuf
        BY <2>3 DEF HasRoom
      <4>2. (IF n <= SndBuf - k THEN n ELSE SndBuf - k) = 0
        BY <2>5 DEF Accepts
      <4>3. n \in Nat \ {0} /\ k \in Nat /\ SndBuf \in Nat
        BY <3>1
      <4> HIDE DEF n, k
      <4>4. QED
        BY <4>1, <4>2, <4>3
    <3>3. QED
      BY <2>1, <2>5, <3>2, CrashDeath
  <2>6. CASE WritePending(cur)
    <3> DEFINE rest == Unwritten(sock[cur], tcp[cur].output)
               ch == Drained(cur, rest)
    <3>1. ch.fault = "none" /\ ch.revents = chan[cur].revents
      BY <2>1, ChanGood, CallsFault DEF Drained, Alive, NoFaults
    <3>2. /\ chan' = [chan EXCEPT ![cur] = ch]
          /\ pc' = "dispatch" /\ cause' = cause
          /\ UNCHANGED <<backlog, cur, active>>
      BY <1>1, <2>2, <2>6, <3>1 DEF WritePending, Goto, AfterStage
    <3> HIDE DEF rest, ch
    <3>3. /\ NoFaults'
          /\ \A x \in Channels : chan'[x].revents = chan[x].revents
      BY <2>1, <3>1, <3>2, CallStep DEF Alive
    <3>4. \A x \in Conns : x # cur => tcp'[x] = tcp[x] /\ sock'[x] = sock[x]
      BY <2>1, <2>6 DEF WritePending, ObjectInv, TypeOK
    <3>5. ASSUME NEW x \in Conns PROVE CanWrite(x)'
      BY <1>1, <3>2, <3>3, <3>4, ConnIsNotListener DEF Alive, CanWrite, WriteDue, Callbacks
    <3>6. ListenerDue' => backlog' # <<>>
      BY <3>2, <3>3 DEF Alive, ListenerDue, Channels
    <3>7. QED
      BY <3>2, <3>3, <3>5, <3>6 DEF DeathInv, Alive, DownIsSilent, Callbacks, InUp
  <2>7. QED
    BY <1>3, <2>4, <2>5, <2>6 DEF HandleWrite
<1>4. QED
  BY <1>2, <1>3

(* Channel::remove() of a connection that is down does not fail. *)
LEMMA RemoveChannelDeath ==
    ASSUME ObjectInv, LifeInv, Alive, pc \in Callbacks,
           NEW back \in {"up", "message", "handle"}, RemoveChannel(who, back),
           back = "up" => InUp, back = "handle" => ByHandler,
           tcp[who].state # "CONNECTED",
           UNCHANGED <<network, cur, who, active>>
    PROVE  DeathInv'
<1> DEFINE ch == Remove(chan[who])
<1>1. /\ who \in Conns /\ who \in Channels /\ who # Listener
      /\ back = "handle" => cur = who
  BY ConnIsNotListener DEF ObjectInv, TypeOK, LifeInv, Handling
<1>2. ch.fault = "none" /\ ch.revents = chan[who].revents /\ IsNoneEvent(ch)
  BY <1>1, ChanGood, RemoveFault DEF Alive, NoFaults, DownIsSilent
<1>3. /\ chan' = [chan EXCEPT ![who] = ch]
      /\ cause' = cause
      /\ IF back = "handle" THEN pc' \in {"handle", "dispatch"}
         ELSE pc' = back /\ stage' = stage
      /\ tcp' = [tcp EXCEPT ![who] = Destroyed(@)] \/ tcp' = tcp
  BY <1>2 DEF RemoveChannel, Goto, AfterStage
<1> HIDE DEF ch
<1>4. /\ NoFaults' /\ chan'[who] = ch
      /\ \A x \in Channels : chan'[x].revents = chan[x].revents
  BY <1>1, <1>2, <1>3, CallStep DEF Alive
<1>5. \A x \in Conns : tcp'[x].live => tcp[x].live /\ tcp'[x].output = tcp[x].output
  BY <1>1, <1>3, DestroyedIs DEF ObjectInv, TypeOK
<1>6. DownIsSilent'
  BY <1>2, <1>4 DEF DownIsSilent
<1>7. QED
  BY <1>1, <1>3, <1>4, <1>5, <1>6, AliveStep DEF network, InUp, Callbacks

LEMMA RemoveConnectionDeath ==
    ASSUME ObjectInv, LifeInv, Alive, pc \in {"up", "message", "down"},
           NEW back \in {"up", "message", "handle"}, RemoveConnection(who, back),
           IF pc = "down" THEN back = "handle" ELSE back = pc
    PROVE  DeathInv'
<1> DEFINE ch == DiabledAllEvents(chan[who])
<1>1. CASE tcp[who].state = "CONNECTED"
  <2>1. who \in Conns /\ who \in Channels /\ who # Listener /\ pc \in Callbacks
    BY ConnIsNotListener DEF ObjectInv, TypeOK, Callbacks
  <2>2. ch.fault = "none" /\ ch.revents = chan[who].revents /\ IsNoneEvent(ch)
    BY <2>1, ChanGood, CallsFault, DisabledIsSilent DEF Alive, NoFaults
  <2>a. /\ chan' = [chan EXCEPT ![who] = ch]
        /\ tcp' = [tcp EXCEPT ![who].state = "DISCONNECTED"]
        /\ Goto("removed", ch) /\ caller' = back
        /\ UNCHANGED <<sock, backlog, stage, cur, who, active>>
    BY <1>1 DEF RemoveConnection, ConnectionDestroy, network
  <2>b. pc' = "removed" /\ cause' = cause
    BY <2>a, <2>2 DEF Goto
  <2>c. \A x \in Conns : tcp'[x].live = tcp[x].live /\ tcp'[x].output = tcp[x].output
    BY <2>1, <2>a DEF ObjectInv, TypeOK, TcpType
  <2>3. /\ chan' = [chan EXCEPT ![who] = ch]
        /\ pc' = "removed" /\ cause' = cause /\ caller' = back
        /\ UNCHANGED <<sock, backlog, stage, cur, who, active>>
        /\ \A x \in Conns : tcp'[x].live = tcp[x].live /\ tcp'[x].output = tcp[x].output
    BY <2>a, <2>b, <2>c
  <2> HIDE DEF ch
  <2>4. /\ NoFaults' /\ chan'[who] = ch
        /\ \A x \in Channels : chan'[x].revents = chan[x].revents
    BY <2>1, <2>2, <2>3, CallStep DEF Alive
  <2>5. DownIsSilent'
    BY <2>2, <2>3, <2>4 DEF DownIsSilent
  <2>6. InUp' => InUp
    BY <2>3 DEF InUp
  <2>7. QED
    BY <2>1, <2>3, <2>4, <2>5, <2>6, AliveStep DEF Callbacks
<1>2. CASE tcp[who].state # "CONNECTED"
  BY <1>2, RemoveChannelDeath
     DEF RemoveConnection, ConnectionDestroy, Callbacks, InUp, ByHandler
<1>3. QED
  BY <1>1, <1>2

(* The assumption on the application: it sends and shuts down only what is    *)
(* connected.                                                                 *)
LEMMA CallsAreConnected ==
    ASSUME CallsConnected, LifeInv, MapInv, NEW call \in Sending, May(call)
    PROVE  tcp[who].state = "CONNECTED"
<1>1. CASE ChecksConnected
  BY <1>1 DEF May, Sending
<1>2. CASE ~ChecksConnected
  <2>1. pc \in {"up", "message"}
    BY <1>2 DEF CallsConnected, May
  <2>2. pc = "up" => "remove" \notin OnUp
    BY <1>2 DEF CallsConnected, May
  <2>3. pc = "message" => "remove" \notin OnMessage
    BY <1>2 DEF CallsConnected, May
  <2>4. QED
    BY <2>1, <2>2, <2>3 DEF MapInv, Running, InUp, LifeInv, Handling
<1>3. QED
  BY <1>1, <1>2

LEMMA SendBytesDeath ==
    ASSUME ObjectInv, LifeInv, Alive, pc \in Callbacks, tcp[who].state = "CONNECTED",
           NEW b, b \in Bytes, NEW left, SendBytes(who, b, left)
    PROVE  DeathInv'
<1>1. who \in Conns /\ who \in Channels /\ who # Listener
  BY ConnIsNotListener DEF ObjectInv, TypeOK
<1>2. CASE Crash("sigpipe") /\ RaisesSigpipe(sock[who])
  BY <1>1, <1>2, CrashDeath DEF RaisesSigpipe
<1>3. CASE ~(Crash("sigpipe") /\ RaisesSigpipe(sock[who]))
  <2> DEFINE direct == WritesDirectly(who)
             rest == IF direct THEN Unwritten(sock[who], b) ELSE b
             ch == Watching(who, rest)
             out == tcp[who].output \o rest
  <2>1. ch.fault = "none" /\ ch.revents = chan[who].revents
    BY <1>1, ChanGood, CallsFault DEF Watching, Alive, NoFaults
  <2>2. /\ chan' = [chan EXCEPT ![who] = ch]
        /\ tcp' = [tcp EXCEPT ![who].output = out, ![who].input = left]
        /\ Goto(pc, ch)
        /\ ~direct => sock' = sock
        /\ \A x \in Conns : x # who => sock'[x] = sock[x]
        /\ UNCHANGED <<backlog, stage, cur, who, caller, active>>
    BY <1>1, <1>3 DEF SendBytes, ObjectInv, TypeOK
  <2>3. direct => tcp[who].output = <<>>
    BY DEF WritesDirectly
  <2>4. ~direct => (tcp[who].output # <<>> => out # <<>>)
    <3>1. \A x, y \in Bytes : x \o y = <<>> <=> x = <<>> /\ y = <<>>
      BY ConcatEqualIffEmpty DEF Bytes
    <3>2. tcp[who].output \in Bytes
      BY <1>1, BytesTyped
    <3>3. QED
      BY <3>1, <3>2, Zenon
  <2>5. pc' = pc /\ cause' = cause
    BY <2>1, <2>2 DEF Goto
  <2> HIDE DEF direct, rest, ch, out
  <2>6. /\ NoFaults'
        /\ \A x \in Channels : chan'[x].revents = chan[x].revents
    BY <1>1, <2>1, <2>2, CallStep DEF Alive
  <2>7. /\ tcp'[who].live = tcp[who].live /\ tcp'[who].output = out
        /\ tcp'[who].state = "CONNECTED"
        /\ \A x \in Conns : x # who => tcp'[x] = tcp[x]
    BY <1>1, <2>2 DEF ObjectInv, TypeOK, TcpType
  <2>8. ASSUME NEW x \in Conns PROVE CanWrite(x)'
    <3>1. CASE x # who
      <4>1. x \in Channels /\ CanWrite(x)
        BY ConnIsNotListener DEF Alive
      <4>2. /\ tcp'[x] = tcp[x] /\ sock'[x] = sock[x]
            /\ chan'[x].revents = chan[x].revents
        BY <2>2, <2>6, <2>7, <3>1, <4>1
      <4>3. UNCHANGED <<active, cur, pc>>
        BY <2>2, <2>5
      <4>4. QED
        BY <4>1, <4>2, <4>3 DEF CanWrite, WriteDue
    <3>2. CASE x = who
      <4>1. UNCHANGED <<active, cur, pc>> /\ chan'[x].revents = chan[x].revents
        BY <1>1, <2>2, <2>5, <2>6, <3>2
      <4>2. tcp'[x].live = tcp[x].live /\ tcp'[x].output = out
        BY <2>7, <3>2
      <4>3. ASSUME WriteDue(x)' PROVE tcp'[x].output # <<>> /\ HasRoom(sock'[x])
        <5>1. WriteDue(x)
          BY <4>1, <4>2, <4>3 DEF WriteDue
        <5>2. tcp[x].output # <<>> /\ HasRoom(sock[x])
          BY <5>1 DEF Alive, CanWrite
        <5>3. ~direct
          BY <2>3, <3>2, <5>2
        <5>4. QED
          BY <2>2, <2>4, <3>2, <4>2, <5>2, <5>3
      <4>4. QED
        BY <4>3 DEF CanWrite
    <3>3. QED
      BY <3>1, <3>2
  <2>9. ListenerDue' => backlog' # <<>>
    BY <2>2, <2>5, <2>6 DEF Alive, ListenerDue, Channels
  <2>10. QED
    BY <2>2, <2>5, <2>6, <2>7, <2>8, <2>9
       DEF DeathInv, Alive, DownIsSilent, Callbacks, InUp
<1>4. QED
  BY <1>2, <1>3

LEMMA StartDeath == ASSUME ObjectInv, Alive, Start PROVE DeathInv'
<1> DEFINE ch == EnabledReadable(chan[Listener])
<1>1. Listener \in Channels
  BY DEF Channels
<1>2. ch.fault = "none" /\ ch.revents = chan[Listener].revents
  BY <1>1, ChanGood, CallsFault DEF Alive, NoFaults
<1>3. /\ chan' = [chan EXCEPT ![Listener] = ch]
      /\ pc' = "poll" /\ cause' = cause
      /\ UNCHANGED <<tcp, sock, backlog, cur, active>>
  BY <1>2 DEF Start, Goto, network
<1> HIDE DEF ch
<1>4. /\ NoFaults'
      /\ \A x \in Channels : chan'[x].revents = chan[x].revents
  BY <1>1, <1>2, <1>3, CallStep DEF Alive
<1>5. DownIsSilent'
  BY <1>3 DEF DownIsSilent, Callbacks
<1>6. QED
  BY <1>3, <1>4, <1>5, AliveStep DEF Callbacks, InUp

(* A step of the loop that only goes on in the batch. *)
LEMMA MoveDeath ==
    ASSUME ObjectInv, Alive, UNCHANGED <<chan, tcp, sock, backlog, cause>>,
           pc' \in {"poll", "dispatch", "handle", "exit"}, active' \subseteq active,
           pc' = "handle" /\ cur' = Listener /\ stage' # "OUT" =>
               \/ Listener \in active
               \/ pc = "handle" /\ cur = Listener /\ stage # "OUT",
           pc' = "handle" =>
               \/ cur' \in active
               \/ pc \in {"handle"} \cup Callbacks /\ cur' = cur
    PROVE  DeathInv'
<1>1. NoFaults' /\ DownIsSilent'
  BY DEF Alive, NoFaults, DownIsSilent, Callbacks
<1>2. QED
  BY <1>1, AliveStep DEF Callbacks, InUp

(* newConnection() ends the handler of the accepting channel. *)
LEMMA ReturnUpDeath == ASSUME ObjectInv, Alive, ReturnUp PROVE DeathInv'
<1>1. /\ pc = "up" /\ stage = "IN" /\ stage' = "OUT" /\ pc' = "handle"
      /\ UNCHANGED <<chan, tcp, sock, backlog, cause, cur, active>>
  BY DEF Alive, InUp, ReturnUp, NextStage, AfterStage, network
<1>2. QED
  BY <1>1, MoveDeath DEF Callbacks

LEMMA SkipStageDeath == ASSUME ObjectInv, Alive, SkipStage PROVE DeathInv'
<1>1. /\ pc = "handle" /\ pc' \in {"handle", "dispatch"}
      /\ pc' = "handle" => stage # "OUT"
      /\ UNCHANGED <<chan, tcp, sock, backlog, cause, cur, active>>
  BY DEF SkipStage, AfterStage, objects, network
<1>2. QED
  BY <1>1, MoveDeath

LEMMA ReturnMessageDeath ==
    ASSUME ObjectInv, LifeInv, Alive, ReturnMessage PROVE DeathInv'
<1>1. /\ pc = "message" /\ pc' \in {"handle", "dispatch"} /\ who \in Conns
      /\ cur = who /\ cur # Listener
      /\ UNCHANGED <<chan, sock, backlog, cause, cur, active>>
  BY ConnIsNotListener
     DEF ReturnMessage, AfterStage, network, ObjectInv, TypeOK, LifeInv, Handling, ByHandler
<1>2. \A x \in Conns : tcp'[x].live => tcp[x].live /\ tcp'[x].output = tcp[x].output
  BY <1>1, DestroyedIs DEF ReturnMessage, ObjectInv, TypeOK
<1>3. NoFaults' /\ DownIsSilent'
  BY <1>1 DEF Alive, NoFaults, DownIsSilent, Callbacks
<1>4. QED
  BY <1>1, <1>2, <1>3, AliveStep DEF Callbacks, InUp

(* The accepting channel is only reported when a connection waits, and       *)
(* accept4() and socket() then only fail for want of descriptors.            *)
LEMMA AcceptFailsDeath ==
    ASSUME ObjectInv, Alive, AcceptFails PROVE DeathInv'
<1>1. backlog # <<>>
  BY DEF AcceptFails, At, Alive, ListenerDue, ReadableEvent
<1>2. FdsInUse + 1 >= MaxFds
  BY <1>1 DEF AcceptFails
<1>3. PICK why \in {"accept", "socket"} : Crash(why)
  BY DEF AcceptFails
<1>4. QED
  BY <1>2, <1>3, CrashDeath

LEMMA LoopDeath ==
    ASSUME ObjectInv, WritingIffPending, LifeInv, MapInv, Alive, LoopStep
    PROVE  DeathInv'
<1>1. CASE Start
  BY <1>1, StartDeath
<1>2. CASE Poll
  BY <1>2, PollDeath
<1>3. ASSUME NEW c \in Channels, StartHandle(c) PROVE DeathInv'
  BY <1>3, MoveDeath DEF StartHandle, objects, network
<1>4. CASE EndBatch
  BY <1>4, MoveDeath DEF EndBatch, objects, network
<1>5. CASE SkipStage
  BY <1>5, SkipStageDeath
<1>6. CASE ReadFreedChannel
  BY <1>6, CrashDeath DEF ReadFreedChannel
<1>7. CASE AcceptFails
  BY <1>7, AcceptFailsDeath
<1>8. CASE Accept
  BY <1>8, AcceptDeath
<1>9. CASE ReturnUp
  BY <1>9, ReturnUpDeath
<1>10. CASE HangUpEvent
  BY <1>10, HandleCloseDeath DEF HangUpEvent, At
<1>11. CASE HandleRead
  BY <1>11, HandleReadDeath
<1>12. CASE ReturnMessage
  BY <1>12, ReturnMessageDeath
<1>13. CASE HandleWrite
  BY <1>13, HandleWriteDeath
<1>14. CASE ReturnDown
  BY <1>14, RemoveConnectionDeath DEF ReturnDown
<1>15. CASE ReturnRemoved
  <2>1. /\ pc = "removed" /\ caller \in {"up", "message", "handle"}
        /\ tcp[who].state # "CONNECTED"
    BY <1>15 DEF ReturnRemoved, LifeInv, Handling, ObjectInv, TypeOK
  <2>2. QED
    BY <1>15, <2>1, RemoveChannelDeath DEF ReturnRemoved, InUp, ByHandler, Callbacks
<1>16. QED
  BY <1>1, <1>2, <1>3, <1>4, <1>5, <1>6, <1>7, <1>8, <1>9, <1>10, <1>11, <1>12,
     <1>13, <1>14, <1>15
     DEF LoopStep

(* A call that leaves the channels and the sockets alone. *)
LEMMA QuietDeath ==
    ASSUME ObjectInv, Alive, pc' = pc, pc # "dead",
           UNCHANGED <<chan, sock, backlog, cause, cur, who, caller, stage, active>>,
           \A x \in Conns : /\ tcp'[x].live = tcp[x].live
                            /\ tcp'[x].state = tcp[x].state
                            /\ tcp'[x].output = tcp[x].output
    PROVE  DeathInv'
<1>1. who \in Conns
  BY DEF ObjectInv, TypeOK
<1>2. NoFaults' /\ DownIsSilent'
  BY <1>1 DEF Alive, NoFaults, DownIsSilent, IsNoneEvent
<1>3. QED
  BY <1>2, AliveStep DEF InUp

LEMMA UserDeath ==
    ASSUME CallsConnected, ObjectInv, LifeInv, MapInv, Alive, UserStep
    PROVE  DeathInv'
<1>1. who \in Conns /\ tcp[who].input \in Bytes /\ Message \in Bytes
  BY BoundsAssumption, BytesTyped DEF ObjectInv, TypeOK, TcpType, Bytes
<1>2. \A call : May(call) => pc \in Callbacks /\ pc # "dead"
  BY DEF May, Callbacks
<1>3. CASE UserSend
  BY <1>1, <1>2, <1>3, CallsAreConnected, SendBytesDeath DEF UserSend, Sending
<1>4. CASE UserEcho
  BY <1>1, <1>2, <1>4, CallsAreConnected, SendBytesDeath DEF UserEcho, Sending
<1>5. CASE UserRetrieve
  <2>1. \A x \in Conns : /\ tcp'[x].live = tcp[x].live
                         /\ tcp'[x].state = tcp[x].state
                         /\ tcp'[x].output = tcp[x].output
    BY <1>1, <1>5 DEF UserRetrieve, ObjectInv, TypeOK, TcpType
  <2>2. QED
    BY <1>2, <1>5, <2>1, QuietDeath DEF UserRetrieve, network, loopVars
<1>6. CASE UserShutdown
  <2>1. ~ShutsDown(who)
    BY <1>6, CallsAreConnected DEF UserShutdown, ShutsDown, Sending
  <2>2. QED
    BY <1>2, <1>6, <2>1, QuietDeath DEF UserShutdown, objects, network
<1>7. CASE UserRemove
  <2>1. pc \in {"up", "message"}
    BY <1>7, CallsAssumption DEF UserRemove, May
  <2>2. QED
    BY <1>7, <2>1, RemoveConnectionDeath DEF UserRemove
<1>8. CASE UserQuit
  BY <1>2, <1>8, QuietDeath DEF UserQuit, objects, network
<1>9. QED
  BY <1>3, <1>4, <1>5, <1>6, <1>7, <1>8 DEF UserStep

(* The peers leave room where there is room, and take nobody off the queue. *)
LEMMA PeerDeath == ASSUME ObjectInv, Alive, pc # "dead", PeerStep PROVE DeathInv'
<1>1. UNCHANGED <<objects, loopVars, log>>
  BY PeerKeeps
<1>2. PICK c \in Conns : \/ Connect(c) \/ PeerSend(c) \/ PeerRecv(c)
                       \/ PeerClose(c) \/ PeerReset(c)
  BY DEF PeerStep
<1>3. sock \in [Conns -> SockType] /\ backlog \in Seq(Conns)
  BY DEF ObjectInv, TypeOK
<1>4. backlog # <<>> => backlog' # <<>>
  <2>1. CASE Connect(c)
    BY <1>3, <2>1 DEF Connect
  <2>2. CASE ~Connect(c)
    BY <1>2, <2>2 DEF PeerSend, PeerRecv, PeerClose, PeerReset
  <2>3. QED
    BY <2>1, <2>2
<1>5. \A x \in Conns : HasRoom(sock[x]) => HasRoom(sock'[x])
  <2>1. CASE PeerRecv(c)
    <3> DEFINE s == sock[c].snd
    <3>1. s \in Seq(Nat) /\ s # <<>>
      BY <1>3, <2>1 DEF PeerRecv, SockType, Bytes
    <3>2. sock' = [sock EXCEPT ![c].snd = Tail(s)]
      BY <2>1 DEF PeerRecv
    <3> HIDE DEF s
    <3>3. Len(Tail(s)) \in Nat /\ Len(s) \in Nat /\ Len(Tail(s)) < Len(s)
      BY <3>1, HeadTailProperties, LenProperties
    <3>4. /\ sock'[c].snd = Tail(s) /\ sock'[c].rst = sock[c].rst
          /\ \A x \in Conns : x # c => sock'[x] = sock[x]
      BY <1>3, <3>2 DEF SockType
    <3>5. SndBuf \in Nat
      BY BoundsAssumption
    <3>6. HasRoom(sock[c]) => HasRoom(sock'[c])
      <4>1. Len(s) < SndBuf => Len(sock'[c].snd) < SndBuf
        BY <3>3, <3>4, <3>5
      <4>2. s = sock[c].snd
        BY DEF s
      <4>3. QED
        BY <3>4, <4>1, <4>2 DEF HasRoom
    <3>7. QED
      BY <3>4, <3>6
  <2>2. CASE PeerReset(c)
    <3>1. sock'[c].rst /\ \A x \in Conns : x # c => sock'[x] = sock[x]
      BY <1>3, <2>2 DEF PeerReset, SockType
    <3>2. QED
      BY <3>1 DEF HasRoom
  <2>3. CASE Connect(c) \/ PeerSend(c) \/ PeerClose(c)
    <3>1. \A x \in Conns : sock'[x].snd = sock[x].snd /\ sock'[x].rst = sock[x].rst
      <4>1. CASE Connect(c)
        BY <1>3, <4>1 DEF Connect, SockType
      <4>2. CASE PeerSend(c)
        BY <1>3, <4>2 DEF PeerSend, SockType
      <4>3. CASE PeerClose(c)
        BY <1>3, <4>3 DEF PeerClose, SockType
      <4>4. QED
        BY <2>3, <4>1, <4>2, <4>3
    <3>2. QED
      BY <3>1 DEF HasRoom
  <2>4. QED
    BY <1>2, <2>1, <2>2, <2>3
<1>6. NoFaults' /\ DownIsSilent'
  BY <1>1 DEF objects, loopVars, Alive, NoFaults, DownIsSilent, IsNoneEvent
<1>7. QED
  BY <1>1, <1>4, <1>5, <1>6, AliveStep DEF objects, loopVars, InUp

(* Nothing happens any more to a process that died. *)
LEMMA DeadStops == ASSUME ObjectInv, pc = "dead", Next PROVE FALSE
<1>1. ~PeerStep
  BY DEF PeerStep, Connect, PeerSend, PeerRecv, PeerClose, PeerReset, Serving
<1>2. ~UserStep
  BY DEF UserStep, UserSend, UserEcho, UserRetrieve, UserShutdown, UserRemove,
     UserQuit, May
<1>3. ~LoopStep
  BY DEF LoopStep, Start, Poll, StartHandle, EndBatch, SkipStage, ReadFreedChannel,
     AcceptFails, Accept, ReturnUp, HangUpEvent, HandleRead, ReturnMessage,
     HandleWrite, ReturnDown, ReturnRemoved, At
<1>4. QED
  BY <1>1, <1>2, <1>3 DEF Next

LEMMA NextDeath ==
    ASSUME CallsConnected
    PROVE  ObjectInv /\ WritingIffPending /\ LifeInv /\ MapInv /\ DeathInv
             /\ [Next]_vars => DeathInv'
<1> SUFFICES ASSUME ObjectInv, WritingIffPending, LifeInv, MapInv, DeathInv,
                    [Next]_vars
             PROVE  DeathInv'
  OBVIOUS
<1>1. CASE UNCHANGED vars
  <2>1. UNCHANGED <<chan, tcp, sock, backlog, pc, stage, cur, who, caller, active, cause>>
    BY <1>1 DEF vars
  <2>2. CASE pc = "dead"
    <3>1. FdsInUse' = FdsInUse /\ (Freed(cur))' = Freed(cur)
      BY <2>1 DEF FdsInUse, Freed
    <3>2. QED
      BY <2>1, <2>2, <3>1 DEF DeathInv, DeathCauses
  <2>3. CASE pc # "dead"
    BY <2>1, <2>3, QuietDeath DEF DeathInv
  <2>4. QED
    BY <2>2, <2>3
<1>2. CASE Next
  <2>1. pc # "dead" /\ Alive
    BY <1>2, DeadStops DEF DeathInv
  <2>2. QED
    BY <1>2, <2>1, LoopDeath, UserDeath, PeerDeath DEF Next
<1>3. QED
  BY <1>1, <1>2

(* For every application that sends and shuts down only what is connected,   *)
(* also one that removes connections in the UP callback: the process dies    *)
(* only of a peer's reset, of a want of descriptors, or of the freed Channel *)
(* that handleEvents() goes on reading.  No assertion fails, no epoll_ctl()  *)
(* does, and handleWrite() never meets a full socket or an empty buffer.     *)
(* (Channel.cpp:59, Epoller.cpp:93, TcpConnection.cpp:105, 130)              *)
THEOREM DeathCorrect == ASSUME CallsConnected PROVE Spec => []DeathCauses
<1> DEFINE Inv == /\ ObjectInv /\ WritingIffPending /\ OutputInv
                  /\ LifeInv /\ ToldInv /\ MapInv /\ DeathInv
<1>1. ChecksInUp
  BY DEF CallsConnected, ChecksInUp, Sending
<1>2. Init => Inv
  BY InitObject, InitWriting, InitOutput, InitLife, InitTold, InitMap, InitDeath
<1>3. Inv /\ [Next]_vars => Inv'
  BY <1>1, NextObject, NextWriting, NextOutput, NextLife, NextTold, NextMap, NextDeath
<1>4. Inv => DeathCauses
  BY DEF DeathInv, Alive, DeathCauses
<1> HIDE DEF Inv
<1>5. QED
  BY <1>2, <1>3, <1>4, PTL DEF Spec

-----------------------------------------------------------------------------
(* Echo.  What the application sent, the input that waits for it and what    *)
(* the kernel holds are together what the peer sent; for a connection that   *)
(* waits in the queue the kernel holds all of it.                            *)

EchoesOnly == (OnUp \cup OnMessage \cup OnDown) \cap {"send", "retrieve"} = {}

Sent(n) == [k \in 1..n |-> k]
Passed(c) == (log[c].asked \o tcp[c].input) \o sock[c].rcv

EchoInv ==
    \A c \in Conns :
        /\ tcp[c].live => Passed(c) = Sent(peer[c].sent)
        /\ sock[c].fd # "open" => sock[c].rcv = Sent(peer[c].sent)

LEMMA SentSeq == \A n \in Nat : Sent(n) \in Bytes /\ Len(Sent(n)) = n
<1> TAKE n \in Nat
<1>1. Sent(n) \in [1..n -> Nat]
  BY DEF Sent
<1>2. QED
  BY <1>1, FunctionIsSeq DEF Bytes

LEMMA SentNone == Sent(0) = <<>>
BY SentSeq, EmptySeq DEF Bytes

LEMMA SentNext == \A n \in Nat : Append(Sent(n), n + 1) = Sent(n + 1)
<1> TAKE n \in Nat
<1> DEFINE a == Append(Sent(n), n + 1)
<1>1. Sent(n) \in Seq(Nat) /\ Len(Sent(n)) = n /\ n + 1 \in Nat
  BY SentSeq DEF Bytes
<1>2. /\ a \in Seq(Nat) /\ Len(a) = n + 1
      /\ \A i \in 1..n : a[i] = Sent(n)[i]
      /\ a[n + 1] = n + 1
  BY <1>1, AppendProperties
<1>3. Sent(n + 1) \in Seq(Nat) /\ Len(Sent(n + 1)) = n + 1
  BY SentSeq DEF Bytes
<1> HIDE DEF a
<1>4. \A i \in 1..(n + 1) : a[i] = Sent(n + 1)[i]
  BY <1>2 DEF Sent
<1>5. a = Sent(n + 1)
  BY <1>2, <1>3, <1>4, SeqEqual
<1>6. QED
  BY <1>5 DEF a

LEMMA BytesAppend ==
    \A x, y \in Bytes : \A v \in Nat : x \o Append(y, v) = Append(x \o y, v)
<1> TAKE x, y \in Bytes
<1> TAKE v \in Nat
<1>1. x \in Seq(Nat) /\ y \in Seq(Nat) /\ x \o y \in Seq(Nat) /\ <<v>> \in Seq(Nat)
  BY BytesConcat DEF Bytes
<1>2. Append(y, v) = y \o <<v>> /\ Append(x \o y, v) = (x \o y) \o <<v>>
  BY <1>1, AppendIsConcat
<1>3. PICK z \in Seq(Nat) : z = <<v>>
  BY <1>1
<1>4. (x \o y) \o z = x \o (y \o z)
  BY ONLY <1>1, <1>3, ConcatAssociative, SMTT(30)
<1>5. QED
  BY <1>2, <1>3, <1>4, Zenon

LEMMA InBytesTyped ==
    ASSUME ObjectInv, NEW c \in Conns
    PROVE  /\ log[c].asked \in Bytes
           /\ tcp[c].input \in Bytes
           /\ sock[c].rcv \in Bytes
           /\ peer[c].sent \in Nat
BY DEF ObjectInv, TypeOK, LogType, PeerType, SockType, TcpType

(* A step that moves no byte of c. *)
Still(c) ==
    /\ tcp'[c].live => tcp[c].live /\ tcp'[c].input = tcp[c].input
    /\ log'[c].asked = log[c].asked
    /\ sock'[c].rcv = sock[c].rcv
    /\ sock'[c].fd # "open" => sock[c].fd # "open"
    /\ peer'[c].sent = peer[c].sent

LEMMA StillEcho ==
    ASSUME EchoInv,
           \A c \in Conns :
               \/ Still(c)
               \/ /\ tcp'[c].live => Passed(c)' = Sent(peer'[c].sent)
                  /\ sock'[c].fd # "open" => sock'[c].rcv = Sent(peer'[c].sent)
    PROVE  EchoInv'
<1> SUFFICES ASSUME NEW c \in Conns, Still(c)
             PROVE  /\ tcp'[c].live => Passed(c)' = Sent(peer'[c].sent)
                    /\ sock'[c].fd # "open" => sock'[c].rcv = Sent(peer'[c].sent)
  BY DEF EchoInv
<1>1. QED
  BY DEF Still, EchoInv, Passed

LEMMA InitEcho == Init => EchoInv
BY SentNone DEF Init, EchoInv

(* The kernel's bytes of one connection move into its input. *)
LEMMA ReadBytesEcho ==
    ASSUME ObjectInv, EchoInv, NEW c \in Conns, tcp[c].live, sock[c].fd = "open",
           NEW n \in 1..Len(sock[c].rcv), ReadBytes(c, n)
    PROVE  EchoInv'
<1> DEFINE r == sock[c].rcv
           x == SubSeq(r, 1, n)
           y == SubSeq(r, n + 1, Len(r))
           a == log[c].asked
           i == tcp[c].input
<1>1. a \in Bytes /\ i \in Bytes /\ r \in Seq(Nat) /\ Len(r) \in Nat
  BY InBytesTyped, LenProperties DEF Bytes
<1>2. x \in Bytes /\ y \in Bytes /\ x \o y = r
  <2>1. n \in 0..Len(r)
    BY <1>1
  <2> HIDE DEF r
  <2>2. QED
    BY <1>1, <2>1, CutSeq DEF Bytes
<1>3. /\ sock' = [sock EXCEPT ![c].rcv = y]
      /\ tcp' = [tcp EXCEPT ![c].input = i \o x]
      /\ UNCHANGED <<log, peer>>
  BY DEF ReadBytes
<1> HIDE DEF x, y
<1>4. /\ sock'[c].rcv = y /\ sock'[c].fd = "open" /\ tcp'[c].input = i \o x
      /\ \A z \in Conns : z # c => sock'[z] = sock[z] /\ tcp'[z] = tcp[z]
  BY <1>3 DEF ObjectInv, TypeOK, SockType, TcpType
<1>5. (a \o (i \o x)) \o y = (a \o i) \o r
  <2>1. Regroups(a, i, x, y)
    BY <1>1, <1>2, BytesRegroup, Zenon
  <2> HIDE DEF a, i, r
  <2>2. QED
    BY <1>2, <2>1, Zenon DEF Regroups
<1>6. Passed(c)' = Sent(peer'[c].sent)
  BY <1>3, <1>4, <1>5 DEF Passed, EchoInv
<1>7. \A z \in Conns : z # c => Still(z)
  BY <1>3, <1>4 DEF Still
<1>8. QED
  BY <1>4, <1>6, <1>7, StillEcho

(* The input is sent back. *)
LEMMA UserEchoEcho ==
    ASSUME ObjectInv, EchoInv, tcp[who].live, sock[who].fd = "open", UserEcho
    PROVE  EchoInv'
<1> DEFINE a == log[who].asked
           i == tcp[who].input
           rest == IF WritesDirectly(who) THEN Unwritten(sock[who], i) ELSE i
           s == AfterWrite(sock[who], i)
<1>1. who \in Conns
  BY DEF ObjectInv, TypeOK
<1>2. CASE Crash("sigpipe")
  BY <1>2, StillEcho DEF Crash, Still, objects, network
<1>3. CASE ~Crash("sigpipe")
  <2>1. /\ tcp' = [tcp EXCEPT ![who].output = @ \o rest, ![who].input = <<>>]
        /\ log' = [log EXCEPT ![who].asked = a \o i]
        /\ sock' = [sock EXCEPT ![who] = s] \/ sock' = sock
        /\ peer' = peer /\ who' = who
    BY <1>3, Zenon DEF UserEcho, SendBytes
  <2>2. s.rcv = sock[who].rcv /\ s.fd = sock[who].fd
    BY <1>1 DEF AfterWrite, ObjectInv, TypeOK, SockType
  <2> HIDE DEF rest, s
  <2>3. /\ tcp'[who].input = <<>> /\ log'[who].asked = a \o i
        /\ sock'[who].rcv = sock[who].rcv /\ sock'[who].fd = "open"
        /\ \A x \in Conns :
              x # who => tcp'[x] = tcp[x] /\ log'[x] = log[x] /\ sock'[x] = sock[x]
    BY <1>1, <2>1, <2>2 DEF ObjectInv, TypeOK, TcpType, LogType
  <2>4. (a \o i) \o <<>> = a \o i
    <3>1. a \in Bytes /\ i \in Bytes
      BY <1>1, InBytesTyped
    <3>2. a \o i \in Bytes
      BY <3>1, BytesConcat, Zenon
    <3>3. QED
      BY <3>2, BytesEmpty, Zenon
  <2>5. \A x \in Conns : x = who => Passed(x)' = Sent(peer'[x].sent)
    <3>1. Passed(who) = Sent(peer[who].sent)
      BY <1>1 DEF EchoInv
    <3>2. \A x \in Conns : x = who => Passed(x)' = ((a \o i) \o <<>>) \o sock[who].rcv
      BY <2>3 DEF Passed
    <3>3. Passed(who) = (a \o i) \o sock[who].rcv
      BY DEF Passed
    <3>4. QED
      BY <2>1, <2>4, <3>1, <3>2, <3>3
  <2>6. \A x \in Conns : x # who => Still(x)
    BY <2>1, <2>3 DEF Still
  <2>7. QED
    BY <2>1, <2>3, <2>5, <2>6, StillEcho
<1>4. QED
  BY <1>2, <1>3

(* The peer sends one more byte. *)
LEMMA PeerSendEcho ==
    ASSUME ObjectInv, OutputInv, EchoInv, NEW c \in Conns, PeerSend(c) PROVE EchoInv'
<1> DEFINE r == sock[c].rcv
           n == peer[c].sent
           a == log[c].asked \o tcp[c].input
<1>1. r \in Bytes /\ n \in Nat /\ a \in Bytes /\ n + 1 \in Nat
  BY InBytesTyped, BytesConcat
<1>2. /\ peer' = [peer EXCEPT ![c].sent = n + 1]
      /\ sock' = [sock EXCEPT ![c].rcv = Append(r, n + 1)]
      /\ UNCHANGED <<tcp, log>>
  BY DEF PeerSend, objects
<1>3. /\ peer'[c].sent = n + 1
      /\ sock'[c].rcv = Append(r, n + 1) /\ sock'[c].fd = sock[c].fd
      /\ \A x \in Conns : x # c => peer'[x] = peer[x] /\ sock'[x] = sock[x]
  BY <1>2 DEF ObjectInv, TypeOK, PeerType, SockType
<1>4. a \o Append(r, n + 1) = Append(a \o r, n + 1)
  BY <1>1, BytesAppend
<1>5. tcp'[c].live => Passed(c)' = Sent(n + 1)
  <2> SUFFICES ASSUME tcp[c].live PROVE Passed(c)' = Sent(n + 1)
    BY <1>2
  <2>1. a \o r = Sent(n)
    BY DEF EchoInv, Passed
  <2>2. Passed(c)' = a \o Append(r, n + 1)
    BY <1>2, <1>3 DEF Passed
  <2>3. QED
    BY <1>1, <1>4, <2>1, <2>2, SentNext
<1>6. sock'[c].fd # "open" => sock'[c].rcv = Sent(n + 1)
  BY <1>1, <1>3, SentNext DEF EchoInv
<1>7. \A x \in Conns : x # c => Still(x)
  BY <1>2, <1>3 DEF Still
<1>8. QED
  BY <1>3, <1>5, <1>6, <1>7, StillEcho

LEMMA PeerEcho ==
    ASSUME ObjectInv, OutputInv, EchoInv, PeerStep PROVE EchoInv'
<1>1. PICK c \in Conns : \/ Connect(c) \/ PeerSend(c) \/ PeerRecv(c)
                       \/ PeerClose(c) \/ PeerReset(c)
  BY DEF PeerStep
<1>2. UNCHANGED <<objects, loopVars, log>>
  BY PeerKeeps
<1>3. CASE ~PeerSend(c)
  <2>1. sock \in [Conns -> SockType] /\ peer \in [Conns -> PeerType]
    BY DEF ObjectInv, TypeOK
  <2>2. \A x \in Conns : /\ sock'[x].rcv = sock[x].rcv
                         /\ sock'[x].fd # "open" => sock[x].fd # "open"
                         /\ peer'[x].sent = peer[x].sent
    <3>1. CASE Connect(c)
      BY <2>1, <3>1 DEF Connect, SockType
    <3>2. CASE PeerRecv(c)
      BY <2>1, <3>2 DEF PeerRecv, SockType, PeerType
    <3>3. CASE PeerClose(c)
      BY <2>1, <3>3 DEF PeerClose, SockType
    <3>4. CASE PeerReset(c)
      BY <2>1, <3>4 DEF PeerReset, SockType
    <3>5. QED
      BY <1>1, <1>3, <3>1, <3>2, <3>3, <3>4
  <2>3. \A x \in Conns : Still(x)
    BY <1>2, <2>2 DEF Still, objects
  <2>4. QED
    BY <2>3, StillEcho
<1>4. QED
  BY <1>1, <1>3, PeerSendEcho

LEMMA AcceptEcho ==
    ASSUME ObjectInv, OutputInv, EchoInv, Accept PROVE EchoInv'
<1>1. PICK c \in Conns : c = Head(backlog)
  BY HeadTailProperties DEF ObjectInv, TypeOK, Accept
<1>2. backlog # <<>> /\ backlog \in Seq(Conns)
  BY DEF ObjectInv, TypeOK, Accept
<1>3. sock[c].fd = "queued" /\ log[c].asked = <<>>
  <2>1. 1 \in 1..Len(backlog) /\ backlog[1] = c
    BY <1>1, <1>2, HeadTailProperties, EmptySeq, LenProperties
  <2>2. QED
    BY <2>1 DEF OutputInv, QueueInv, FreshInv, Untouched
<1>4. /\ sock'[c].fd = "open" /\ sock'[c].rcv = sock[c].rcv
      /\ tcp'[c].input = <<>> /\ log'[c].asked = log[c].asked /\ peer' = peer
      /\ \A x \in Conns :
            x # c => tcp'[x] = tcp[x] /\ sock'[x] = sock[x] /\ log'[x] = log[x]
  BY <1>1 DEF Accept, Established, ObjectInv, TypeOK, SockType, LogType
<1>5. Passed(c)' = sock[c].rcv
  <2>1. (<<>> \o <<>>) \o sock[c].rcv = sock[c].rcv
    BY InBytesTyped, BytesEmpty, Zenon
  <2>2. QED
    BY <1>3, <1>4, <2>1 DEF Passed
<1>6. \A x \in Conns : x # c => Still(x)
  BY <1>4 DEF Still
<1>7. QED
  BY <1>3, <1>4, <1>5, <1>6, StillEcho DEF EchoInv

LEMMA CrashEcho == ASSUME EchoInv, NEW why, Crash(why) PROVE EchoInv'
BY StillEcho DEF Crash, Still, objects, network

LEMMA HandleCloseEcho ==
    ASSUME ObjectInv, EchoInv, NEW c \in Conns, HandleClose(c) PROVE EchoInv'
<1>1. \A x \in Conns : /\ tcp'[x].live = tcp[x].live /\ tcp'[x].input = tcp[x].input
                       /\ log'[x].asked = log[x].asked
  BY DEF HandleClose, ObjectInv, TypeOK, TcpType, LogType
<1>2. UNCHANGED <<sock, peer>>
  BY DEF HandleClose, network
<1>3. QED
  BY <1>1, <1>2, StillEcho DEF Still

(* The end of a connection, or none. *)
LEMMA EndEcho ==
    ASSUME ObjectInv, EchoInv, UNCHANGED <<sock, peer>>,
           \A x \in Conns : log'[x].asked = log[x].asked,
           tcp' = [tcp EXCEPT ![who] = Destroyed(@)] \/ tcp' = tcp
    PROVE  EchoInv'
<1>1. who \in Conns
  BY DEF ObjectInv, TypeOK
<1>2. \A x \in Conns : tcp'[x].live => tcp[x].live /\ tcp'[x].input = tcp[x].input
  BY <1>1, DestroyedIs DEF ObjectInv, TypeOK
<1>3. QED
  BY <1>2, StillEcho DEF Still

LEMMA RemoveConnectionEcho ==
    ASSUME ObjectInv, EchoInv, NEW back, RemoveConnection(who, back) PROVE EchoInv'
<1>1. who \in Conns
  BY DEF ObjectInv, TypeOK
<1>2. UNCHANGED <<sock, peer>>
  BY DEF RemoveConnection, network
<1>3. CASE tcp[who].state = "CONNECTED"
  <2>1. /\ tcp' = [tcp EXCEPT ![who].state = "DISCONNECTED"]
        /\ log' = [log EXCEPT ![who].downs = @ + 1]
    BY <1>3 DEF RemoveConnection, ConnectionDestroy
  <2>2. \A x \in Conns : /\ tcp'[x].live = tcp[x].live /\ tcp'[x].input = tcp[x].input
                         /\ log'[x].asked = log[x].asked
    BY <1>1, <2>1 DEF ObjectInv, TypeOK, TcpType, LogType
  <2>3. QED
    BY <1>2, <2>2, StillEcho DEF Still
<1>4. CASE tcp[who].state # "CONNECTED"
  BY <1>2, <1>4, EndEcho DEF RemoveConnection, ConnectionDestroy, RemoveChannel
<1>5. QED
  BY <1>3, <1>4

LEMMA LoopEcho ==
    ASSUME ObjectInv, OutputInv, EchoInv, LoopStep PROVE EchoInv'
<1>1. CASE Start \/ Poll \/ EndBatch \/ SkipStage \/ ReturnUp
  BY <1>1, StillEcho
     DEF Start, Poll, EndBatch, SkipStage, ReturnUp, Still, objects, network
<1>2. ASSUME NEW c \in Channels, StartHandle(c) PROVE EchoInv'
  BY <1>2, StillEcho DEF StartHandle, Still, objects, network
<1>3. CASE ReadFreedChannel \/ AcceptFails
  BY <1>3, CrashEcho DEF ReadFreedChannel, AcceptFails
<1>4. CASE Accept
  BY <1>4, AcceptEcho
<1>5. CASE HangUpEvent
  BY <1>5, HandleCloseEcho DEF HangUpEvent
<1>6. CASE HandleRead
  <2>1. cur \in Conns /\ tcp[cur].live
    BY <1>6, ConnIsNotListener DEF HandleRead, At, Freed
  <2>2. PICK n \in ReadResults(sock[cur]) :
            IF n > 0 THEN ReadBytes(cur, n)
            ELSE IF n = 0 THEN HandleClose(cur)
            ELSE ReadError(cur)
    BY <1>6 DEF HandleRead
  <2>3. CASE n > 0
    BY <2>1, <2>2, <2>3, ReadResultsRange, LiveIsOpen, ReadBytesEcho
  <2>4. CASE ReadError(cur)
    <3>1. \A x \in Conns : sock'[x].rcv = sock[x].rcv /\ sock'[x].fd = sock[x].fd
      BY <2>1, <2>4 DEF ReadError, ObjectInv, TypeOK, SockType
    <3>2. QED
      BY <2>4, <3>1, StillEcho DEF ReadError, Still, objects
  <2>5. QED
    BY <2>1, <2>2, <2>3, <2>4, HandleCloseEcho
<1>7. CASE ReturnMessage
  BY <1>7, EndEcho DEF ReturnMessage, network
<1>8. CASE HandleWrite
  <2>1. CASE Crash("sigpipe") \/ Crash("write")
    BY <2>1, CrashEcho
  <2>2. CASE ~IsWriting(chan[cur])
    BY <1>8, <2>2, StillEcho DEF HandleWrite, Still, objects, network
  <2>3. CASE WritePending(cur) /\ IsWriting(chan[cur])
    <3>1. cur \in Conns
      BY <2>3 DEF ObjectInv, TypeOK, ListenerReads, Channels
    <3> DEFINE s == AfterWrite(sock[cur], tcp[cur].output)
    <3>2. s.fd = sock[cur].fd /\ s.rcv = sock[cur].rcv
      BY <3>1 DEF AfterWrite, ObjectInv, TypeOK, SockType
    <3>3. sock' = [sock EXCEPT ![cur] = s] /\ UNCHANGED <<log, peer>>
      BY <2>3 DEF WritePending
    <3> HIDE DEF s
    <3>4. \A x \in Conns : sock'[x].fd = sock[x].fd /\ sock'[x].rcv = sock[x].rcv
      BY <3>1, <3>2, <3>3 DEF ObjectInv, TypeOK
    <3>5. \A x \in Conns : tcp'[x].live = tcp[x].live /\ tcp'[x].input = tcp[x].input
      BY <2>3, <3>1 DEF WritePending, ObjectInv, TypeOK, TcpType
    <3>6. QED
      BY <3>3, <3>4, <3>5, StillEcho DEF Still
  <2>4. QED
    BY <1>8, <2>1, <2>2, <2>3 DEF HandleWrite
<1>9. CASE ReturnDown
  BY <1>9, RemoveConnectionEcho DEF ReturnDown
<1>10. CASE ReturnRemoved
  BY <1>10, EndEcho DEF ReturnRemoved, RemoveChannel, network
<1>11. QED
  BY <1>1, <1>2, <1>3, <1>4, <1>5, <1>6, <1>7, <1>8, <1>9, <1>10 DEF LoopStep

LEMMA UserEchoes ==
    ASSUME EchoesOnly, ObjectInv, OutputInv, EchoInv, UserStep PROVE EchoInv'
<1>1. ~May("send") /\ ~May("retrieve")
  BY DEF May, EchoesOnly
<1>2. CASE UserEcho
  <2>1. who \in Conns /\ tcp[who].live
    BY <1>2 DEF UserEcho, May, ObjectInv, TypeOK, OutputInv, CallbackLive, Callbacks
  <2>2. QED
    BY <1>2, <2>1, LiveIsOpen, UserEchoEcho
<1>3. CASE UserShutdown
  <2>1. \A x \in Conns : log'[x].asked = log[x].asked
    BY <1>3 DEF UserShutdown, ObjectInv, TypeOK, LogType
  <2>2. QED
    BY <1>3, <2>1, StillEcho DEF UserShutdown, Still, objects, network
<1>4. CASE UserRemove
  BY <1>4, RemoveConnectionEcho DEF UserRemove
<1>5. CASE UserQuit
  BY <1>5, StillEcho DEF UserQuit, Still, objects, network
<1>6. QED
  BY <1>1, <1>2, <1>3, <1>4, <1>5 DEF UserStep, UserSend, UserRetrieve

LEMMA NextEcho ==
    ASSUME EchoesOnly
    PROVE  ObjectInv /\ OutputInv /\ EchoInv /\ [Next]_vars => EchoInv'
<1> SUFFICES ASSUME ObjectInv, OutputInv, EchoInv, [Next]_vars PROVE EchoInv'
  OBVIOUS
<1>1. CASE UNCHANGED vars
  BY <1>1, StillEcho DEF vars, Still
<1>2. QED
  BY <1>1, PeerEcho, LoopEcho, UserEchoes DEF Next

(* For every application whose only way to send or to take input is to echo  *)
(* it: what a living connection sent, what waits in its input buffer and     *)
(* what waits in the kernel are together the peer's bytes, in order, however *)
(* they were cut into reads.  (EchoServerTest.cpp:35, TcpConnection.cpp:66)  *)
THEOREM EchoCorrect == ASSUME EchoesOnly PROVE Spec => []EchoInOrder
<1> DEFINE Inv == ObjectInv /\ OutputInv /\ EchoInv
<1>1. Init => Inv
  BY InitObject, InitOutput, InitEcho
<1>2. Inv /\ [Next]_vars => Inv'
  BY NextObject, NextOutput, NextEcho
<1>3. Inv => EchoInOrder
  BY DEF EchoInv, EchoInOrder, Passed, Sent
<1> HIDE DEF Inv
<1>4. QED
  BY <1>1, <1>2, <1>3, PTL DEF Spec

-----------------------------------------------------------------------------
(* The promise of Connection.  The peer's bytes in the kernel are the last   *)
(* ones that it sent, so that the number of bytes read says which byte comes *)
(* next; a freed connection holds no input.                                  *)

Read(c) == peer[c].sent - Len(sock[c].rcv)
Coming(c) ==
    /\ peer[c].sent <= MaxIn
    /\ Len(sock[c].rcv) <= peer[c].sent
    /\ \A k \in 1..Len(sock[c].rcv) : sock[c].rcv[k] = Read(c) + k
    /\ ~tcp[c].live => tcp[c].input = <<>>

ComingInv == \A c \in Conns : Coming(c)

LEMMA InitComing == Init => ComingInv
<1>1. Len(<<>>) = 0
  BY EmptySeq
<1>2. QED
  BY <1>1, BoundsAssumption DEF Init, ComingInv, Coming, Read

(* Nothing that the promise is about happens to c. *)
Quiet(c) ==
    /\ log'[c].ups = log[c].ups /\ log'[c].downs = log[c].downs
    /\ log'[c].asked = log[c].asked
    /\ tcp'[c].input = tcp[c].input /\ tcp'[c].live = tcp[c].live
    /\ sock'[c].rcv = sock[c].rcv
    /\ peer'[c].sent = peer[c].sent /\ peer'[c].got = peer[c].got

(* The bytes in the kernel stay, the input stays or goes. *)
SameComing(c) ==
    /\ sock'[c].rcv = sock[c].rcv /\ peer'[c].sent = peer[c].sent
    /\ ~tcp'[c].live => tcp'[c].input = <<>>

PromiseStep == [Promise!Next]_(Promise!promiseVars)
Goal == ComingInv' /\ PromiseStep

LEMMA QuietComing ==
    ASSUME ComingInv, NEW c \in Conns, Quiet(c) PROVE Coming(c)'
BY DEF ComingInv, Coming, Read, Quiet

LEMMA NoneMoves ==
    ASSUME ComingInv, \A c \in Conns : Quiet(c) PROVE Goal
<1>1. ComingInv'
  BY QuietComing DEF ComingInv
<1>2. UNCHANGED Promise!promiseVars
  BY DEF Promise!promiseVars, Quiet
<1>3. QED
  BY <1>1, <1>2 DEF Goal, PromiseStep

(* One connection makes a step of the promise. *)
LEMMA OneMoves ==
    ASSUME ComingInv, NEW c \in Conns, \A x \in Conns : x # c => Quiet(x),
           SameComing(c) \/ Coming(c)', Promise!Next
    PROVE  Goal
<1>1. Coming(c)'
  BY DEF SameComing, ComingInv, Coming, Read
<1>2. ComingInv'
  BY <1>1, QuietComing DEF ComingInv
<1>3. QED
  BY <1>2 DEF Goal, PromiseStep

(* Whoever was told UP was told something. *)
LEMMA ToldSomething ==
    ASSUME NEW c \in Conns, log[c].ups = 1
    PROVE  <<log[c].ups, log[c].downs>> # <<0, 0>>
<1>1. <<log[c].ups, log[c].downs>>[1] = 1 /\ <<0, 0>>[1] = 0
  OBVIOUS
<1>2. QED
  BY <1>1

LEMMA TellsUp ==
    ASSUME ComingInv, NEW c \in Conns, \A x \in Conns : x # c => Quiet(x),
           SameComing(c), log[c].ups = 0, log[c].downs = 0,
           log'[c].ups = 1, log'[c].downs = 0, log'[c].asked = log[c].asked,
           tcp'[c].input = tcp[c].input, peer'[c].got = peer[c].got
    PROVE  Goal
<1>1. Promise!TellUp(c)
  BY DEF Promise!TellUp, Promise!Nothing, Promise!IsUp, Quiet, SameComing
<1>2. QED
  BY <1>1, OneMoves DEF Promise!Next

LEMMA TellsDown ==
    ASSUME ComingInv, NEW c \in Conns, \A x \in Conns : x # c => Quiet(x),
           SameComing(c), log[c].ups = 1, log[c].downs = 0,
           log'[c].ups = 1, log'[c].downs = 1, log'[c].asked = log[c].asked,
           tcp'[c].input = tcp[c].input, peer'[c].got = peer[c].got
    PROVE  Goal
<1>1. Promise!TellDown(c)
  BY DEF Promise!TellDown, Promise!IsUp, Promise!WasUp, Quiet, SameComing
<1>2. QED
  BY <1>1, OneMoves DEF Promise!Next

LEMMA Takes ==
    ASSUME ComingInv, NEW c \in Conns, \A x \in Conns : x # c => Quiet(x),
           SameComing(c), log[c].ups = 1, tcp'[c].input = <<>>,
           log'[c].ups = log[c].ups, log'[c].downs = log[c].downs,
           log'[c].asked = log[c].asked, peer'[c].got = peer[c].got
    PROVE  Goal
<1>1. [x \in Conns |-> tcp'[x].input]
        = [[x \in Conns |-> tcp[x].input] EXCEPT ![c] = <<>>]
  BY DEF Quiet
<1>2. /\ [x \in Conns |-> <<log'[x].ups, log'[x].downs>>]
           = [x \in Conns |-> <<log[x].ups, log[x].downs>>]
      /\ [x \in Conns |-> peer'[x].sent - Len(sock'[x].rcv)]
           = [x \in Conns |-> peer[x].sent - Len(sock[x].rcv)]
      /\ [x \in Conns |-> log'[x].asked] = [x \in Conns |-> log[x].asked]
      /\ [x \in Conns |-> peer'[x].got] = [x \in Conns |-> peer[x].got]
  BY DEF Quiet, SameComing
<1>3. Promise!Take(c)
  BY <1>1, <1>2, ToldSomething DEF Promise!Take, Promise!Nothing
<1>4. QED
  BY <1>3, OneMoves DEF Promise!Next

LEMMA Sends ==
    ASSUME ComingInv, NEW c \in Conns, \A x \in Conns : x # c => Quiet(x),
           SameComing(c), log[c].ups = 1,
           SubSeq(log'[c].asked, 1, Len(log[c].asked)) = log[c].asked,
           log'[c].ups = log[c].ups, log'[c].downs = log[c].downs,
           tcp'[c].input = tcp[c].input, peer'[c].got = peer[c].got
    PROVE  Goal
<1>1. [x \in Conns |-> log'[x].asked]
        = [[x \in Conns |-> log[x].asked] EXCEPT ![c] = log'[c].asked]
  BY DEF Quiet
<1>2. /\ [x \in Conns |-> <<log'[x].ups, log'[x].downs>>]
           = [x \in Conns |-> <<log[x].ups, log[x].downs>>]
      /\ [x \in Conns |-> peer'[x].sent - Len(sock'[x].rcv)]
           = [x \in Conns |-> peer[x].sent - Len(sock[x].rcv)]
      /\ [x \in Conns |-> tcp'[x].input] = [x \in Conns |-> tcp[x].input]
      /\ [x \in Conns |-> peer'[x].got] = [x \in Conns |-> peer[x].got]
  BY DEF Quiet, SameComing
<1>3. Promise!Send(c)
  BY <1>1, <1>2, ToldSomething DEF Promise!Send, Promise!Nothing
<1>4. QED
  BY <1>3, OneMoves DEF Promise!Next

LEMMA Echoes ==
    ASSUME ComingInv, NEW c \in Conns, \A x \in Conns : x # c => Quiet(x),
           SameComing(c), log[c].ups = 1,
           log'[c].asked = log[c].asked \o tcp[c].input, tcp'[c].input = <<>>,
           log'[c].ups = log[c].ups, log'[c].downs = log[c].downs,
           peer'[c].got = peer[c].got
    PROVE  Goal
<1>1. [x \in Conns |-> tcp'[x].input]
        = [[x \in Conns |-> tcp[x].input] EXCEPT ![c] = <<>>]
  BY DEF Quiet
<1>2. /\ [x \in Conns |-> <<log'[x].ups, log'[x].downs>>]
           = [x \in Conns |-> <<log[x].ups, log[x].downs>>]
      /\ [x \in Conns |-> peer'[x].sent - Len(sock'[x].rcv)]
           = [x \in Conns |-> peer[x].sent - Len(sock[x].rcv)]
      /\ [x \in Conns |-> log'[x].asked]
           = [[x \in Conns |-> log[x].asked] EXCEPT ![c] = @ \o tcp[c].input]
      /\ [x \in Conns |-> peer'[x].got] = [x \in Conns |-> peer[x].got]
  BY DEF Quiet, SameComing
<1>3. Promise!Echo(c)
  BY <1>1, <1>2, ToldSomething DEF Promise!Echo, Promise!Nothing
<1>4. QED
  BY <1>3, OneMoves DEF Promise!Next

LEMMA Delivers ==
    ASSUME ComingInv, NEW c \in Conns, \A x \in Conns : x # c => Quiet(x),
           SameComing(c), Len(peer[c].got) < Len(log[c].asked),
           peer'[c].got = SubSeq(log[c].asked, 1, Len(peer[c].got) + 1),
           log'[c].ups = log[c].ups, log'[c].downs = log[c].downs,
           log'[c].asked = log[c].asked, tcp'[c].input = tcp[c].input
    PROVE  Goal
<1>1. Promise!Deliver(c)
  BY DEF Promise!Deliver, Quiet, SameComing
<1>2. QED
  BY <1>1, OneMoves DEF Promise!Next

LEMMA Messages ==
    ASSUME ComingInv, NEW c \in Conns, \A x \in Conns : x # c => Quiet(x),
           Coming(c)', NEW n \in 1..MaxIn, log[c].ups = 1, log[c].downs = 0,
           Read(c)' = Read(c) + n,
           tcp'[c].input = tcp[c].input \o [k \in 1..n |-> Read(c) + k],
           log'[c].ups = log[c].ups, log'[c].downs = log[c].downs,
           log'[c].asked = log[c].asked, peer'[c].got = peer[c].got
    PROVE  Goal
<1>1. [x \in Conns |-> tcp'[x].input]
        = [[x \in Conns |-> tcp[x].input]
              EXCEPT ![c] = @ \o [k \in 1..n |-> Read(c) + k]]
  BY DEF Quiet
<1>2. /\ [x \in Conns |-> <<log'[x].ups, log'[x].downs>>]
           = [x \in Conns |-> <<log[x].ups, log[x].downs>>]
      /\ [x \in Conns |-> log'[x].asked] = [x \in Conns |-> log[x].asked]
      /\ [x \in Conns |-> peer'[x].got] = [x \in Conns |-> peer[x].got]
  BY DEF Quiet
<1>3. [x \in Conns |-> peer'[x].sent - Len(sock'[x].rcv)]
        = [[x \in Conns |-> peer[x].sent - Len(sock[x].rcv)] EXCEPT ![c] = @ + n]
  BY DEF Quiet, Read
<1>4. Promise!Bring(c, n)
  BY <1>1, <1>2, <1>3 DEF Promise!Bring, Promise!IsUp, Read
<1>5. QED
  BY <1>4, OneMoves DEF Promise!Next

(* The bytes that are read are the ones that come next. *)
LEMMA ReadBytesPromise ==
    ASSUME ObjectInv, ComingInv, NEW c \in Conns, tcp[c].live,
           log[c].ups = 1, log[c].downs = 0,
           NEW n \in 1..Len(sock[c].rcv), ReadBytes(c, n)
    PROVE  Goal
<1> DEFINE r == sock[c].rcv
           x == SubSeq(r, 1, n)
           y == SubSeq(r, n + 1, Len(r))
           d == Read(c)
           w == [k \in 1..n |-> d + k]
<1>1. /\ r \in Seq(Nat) /\ Len(r) \in Nat /\ peer[c].sent \in Nat /\ MaxIn \in Nat
      /\ n \in 1..Len(r) /\ n \in 0..Len(r) /\ n \in Nat
  BY InBytesTyped, LenProperties, BoundsAssumption DEF Bytes
<1>2. Len(r) <= peer[c].sent /\ peer[c].sent <= MaxIn
  BY DEF ComingInv, Coming
<1>3. \A k \in 1..Len(r) : r[k] = d + k
  BY DEF ComingInv, Coming
<1>4. d \in Nat /\ d = peer[c].sent - Len(r)
  BY <1>1, <1>2 DEF Read
<1>5. /\ sock' = [sock EXCEPT ![c].rcv = y]
      /\ tcp' = [tcp EXCEPT ![c].input = @ \o x]
      /\ UNCHANGED <<log, peer>>
  BY DEF ReadBytes
<1> HIDE DEF r, d
<1>6. x \in Seq(Nat) /\ Len(x) = n /\ y \in Seq(Nat) /\ Len(y) = Len(r) - n
  <2>1. x \in Seq(Nat) /\ Len(x) = n /\ y \in Seq(Nat)
    BY <1>1, CutSeq
  <2>2. \A i \in n + 1..Len(r) : r[i] \in Nat
    BY <1>1, ElementOfSeq
  <2>3. Len(y) = IF n + 1 <= Len(r) THEN Len(r) - (n + 1) + 1 ELSE 0
    BY <1>1, <2>2, SubSeqProperties
  <2>4. QED
    BY <1>1, <2>1, <2>3
<1>7. \A i \in 1..n : x[i] = r[i]
  <2>1. \A i \in 1..n : r[i] \in Nat
    BY <1>1, ElementOfSeq
  <2>2. \A i \in 1..n - 1 + 1 : x[i] = r[1 + i - 1]
    BY <1>1, <2>1, SubSeqProperties
  <2>3. QED
    BY <1>1, <2>2
<1>8. \A i \in 1..Len(y) : y[i] = r[n + i]
  <2>1. \A i \in n + 1..Len(r) : r[i] \in Nat
    BY <1>1, ElementOfSeq
  <2>2. \A i \in 1..Len(r) - (n + 1) + 1 : y[i] = r[n + 1 + i - 1]
    BY <1>1, <2>1, SubSeqProperties
  <2>3. QED
    BY <1>1, <1>6, <2>2
<1>9. x = w
  <2>1. w \in [1..n -> Nat]
    <3>1. n \in Nat /\ d \in Nat
      BY <1>1, <1>4, Zenon
    <3>2. \A k \in 1..n : d + k \in Nat
      BY ONLY <3>1
    <3>3. QED
      BY ONLY <3>2, Zenon
  <2>2. w \in Seq(Nat) /\ Len(w) = n
    BY <1>1, <2>1, FunctionIsSeq
  <2>3. \A i \in 1..n : x[i] = w[i]
    BY <1>1, <1>3, <1>7
  <2> HIDE DEF x, w
  <2>4. QED
    BY <1>6, <2>2, <2>3, SeqEqual
<1> HIDE DEF x, y, w
<1>10. /\ sock'[c].rcv = y /\ tcp'[c].input = tcp[c].input \o w
       /\ tcp'[c].live = tcp[c].live
       /\ \A z \in Conns : z # c => sock'[z] = sock[z] /\ tcp'[z] = tcp[z]
  BY <1>5, <1>9 DEF ObjectInv, TypeOK, SockType, TcpType
<1>11. Read(c)' = d + n
  <2>1. Read(c)' = peer[c].sent - Len(y)
    BY <1>5, <1>10 DEF Read
  <2>2. peer[c].sent - Len(y) = d + n
    <3> DEFINE p == peer[c].sent
               k == Len(r)
               j == Len(y)
    <3>1. p \in Nat /\ k \in Nat /\ n \in Nat
      BY <1>1
    <3>2. j = k - n /\ d = p - k
      BY <1>4, <1>6
    <3> HIDE DEF p, k, j
    <3>3. p - j = d + n
      BY <3>1, <3>2
    <3>4. QED
      BY <3>3 DEF p, j
  <2>3. QED
    BY <2>1, <2>2, Zenon
<1>12. Coming(c)'
  <2>1. \A i \in 1..Len(y) : y[i] = (d + n) + i
    <3>1. ASSUME NEW i \in 1..Len(y) PROVE y[i] = (d + n) + i
      <4>1. /\ n + i \in 1..Len(r) /\ i \in Nat
            /\ n \in Nat /\ d \in Nat
        BY <1>1, <1>4, <1>6
      <4>2. y[i] = r[n + i] /\ r[n + i] = d + (n + i)
        BY <1>3, <1>8, <4>1, Zenon
      <4>3. d + (n + i) = (d + n) + i
        BY ONLY <4>1
      <4>4. QED
        BY <4>2, <4>3, Zenon
    <3>2. QED
      BY <3>1
  <2>2. Len(y) <= peer[c].sent
    <3>1. /\ n \in Nat /\ Len(r) \in Nat /\ peer[c].sent \in Nat
          /\ Len(r) <= peer[c].sent /\ Len(y) = Len(r) - n
      BY <1>1, <1>2, <1>6, Zenon
    <3>2. QED
      BY ONLY <3>1
  <2>3. QED
    BY <1>2, <1>5, <1>10, <1>11, <2>1, <2>2 DEF Coming
<1>13. \A z \in Conns : z # c => Quiet(z)
  BY <1>5, <1>10 DEF Quiet
<1>14. n \in 1..MaxIn
  BY <1>1, <1>2
<1>15. w = [k \in 1..n |-> Read(c) + k] /\ d = Read(c)
  BY DEF w, d
<1>16. QED
  BY <1>5, <1>10, <1>11, <1>12, <1>13, <1>14, <1>15, Messages

(* A byte that is sent waits in the kernel. *)
LEMMA PeerSendPromise ==
    ASSUME ObjectInv, ComingInv, NEW c \in Conns, PeerSend(c) PROVE Goal
<1> DEFINE r == sock[c].rcv
           n == peer[c].sent
           s == Append(r, n + 1)
<1>1. r \in Seq(Nat) /\ Len(r) \in Nat /\ n \in Nat /\ n + 1 \in Nat /\ MaxIn \in Nat
  BY InBytesTyped, LenProperties, BoundsAssumption DEF Bytes
<1>2. /\ n < MaxIn
      /\ peer' = [peer EXCEPT ![c].sent = n + 1]
      /\ sock' = [sock EXCEPT ![c].rcv = s]
      /\ UNCHANGED <<tcp, log>>
  BY DEF PeerSend, objects
<1>3. /\ Len(r) <= n
      /\ \A k \in 1..Len(r) : r[k] = n - Len(r) + k
      /\ ~tcp[c].live => tcp[c].input = <<>>
  BY DEF ComingInv, Coming, Read
<1> HIDE DEF r, n
<1>4. /\ Len(s) = Len(r) + 1 /\ s[Len(r) + 1] = n + 1
      /\ \A k \in 1..Len(r) : s[k] = r[k]
  BY <1>1, AppendProperties
<1> HIDE DEF s
<1>5. /\ peer'[c].sent = n + 1 /\ peer'[c].got = peer[c].got /\ sock'[c].rcv = s
      /\ \A x \in Conns : x # c => peer'[x] = peer[x] /\ sock'[x] = sock[x]
  BY <1>2 DEF ObjectInv, TypeOK, PeerType, SockType
<1>6. (n + 1) - Len(s) = n - Len(r)
  BY <1>1, <1>4
<1>7. Coming(c)'
  <2>1. \A k \in 1..Len(s) : s[k] = ((n + 1) - Len(s)) + k
    BY <1>1, <1>3, <1>4
  <2>2. n + 1 <= MaxIn /\ Len(s) <= n + 1
    BY <1>1, <1>2, <1>3, <1>4
  <2>3. QED
    BY <1>2, <1>3, <1>5, <2>1, <2>2 DEF Coming, Read
<1>8. \A x \in Conns : x # c => Quiet(x)
  BY <1>2, <1>5 DEF Quiet
<1>9. ComingInv'
  BY <1>7, <1>8, QuietComing DEF ComingInv
<1>10. \A x \in Conns : peer'[x].sent - Len(sock'[x].rcv) = peer[x].sent - Len(sock[x].rcv)
  BY <1>5, <1>6 DEF r, n
<1>11. \A x \in Conns : peer'[x].got = peer[x].got
  BY <1>5
<1>12. UNCHANGED Promise!promiseVars
  BY <1>2, <1>10, <1>11 DEF Promise!promiseVars
<1>13. QED
  BY <1>9, <1>12 DEF Goal, PromiseStep

(* The peer gets the next byte of what the application sent. *)
LEMMA PeerRecvPromise ==
    ASSUME ObjectInv, OutputInv, ComingInv, NEW c \in Conns, PeerRecv(c) PROVE Goal
<1> DEFINE got == peer[c].got
           snd == sock[c].snd
           g == Append(got, Head(snd))
           t == Tail(snd)
           asked == log[c].asked
<1>1. /\ got \in Bytes /\ snd \in Bytes /\ snd # <<>> /\ asked \in Bytes
      /\ peer' = [peer EXCEPT ![c].got = g]
      /\ sock' = [sock EXCEPT ![c].snd = t]
      /\ UNCHANGED <<tcp, log>>
  BY BytesTyped DEF PeerRecv, objects
<1>2. PICK lost \in Bytes : asked = (got \o snd) \o lost
  BY DEF OutputInv, Balanced
<1>3. \A x \in Conns : /\ peer'[x].sent = peer[x].sent /\ sock'[x].rcv = sock[x].rcv
                       /\ x # c => peer'[x].got = peer[x].got
                       /\ x = c => peer'[x].got = g
  BY <1>1 DEF ObjectInv, TypeOK, PeerType, SockType
<1> HIDE DEF got, snd, asked
<1>4. g \in Bytes /\ t \in Bytes /\ Len(g) = Len(got) + 1
  BY <1>1, HeadTailProperties, AppendProperties DEF Bytes
<1>5. g \o t = got \o snd
  BY <1>1, MoveByte
<1> HIDE DEF g, t
<1>6. asked = g \o (t \o lost) /\ t \o lost \in Bytes
  <2>1. (g \o t) \o lost = g \o (t \o lost)
    BY <1>4, BytesAssoc, SMTT(30)
  <2>2. t \o lost \in Bytes
    BY <1>4, BytesConcat, Zenon
  <2>3. asked = (g \o t) \o lost
    BY <1>2, <1>5
  <2>4. QED
    BY <2>1, <2>2, <2>3
<1>7. SubSeq(asked, 1, Len(got) + 1) = g
  BY <1>4, <1>6, ConcatPrefix
<1>8. Len(got) < Len(asked)
  <2>1. Len(asked) = Len(g) + Len(t \o lost)
    BY <1>4, <1>6, ConcatProperties DEF Bytes
  <2>2. Len(got) \in Nat /\ Len(t \o lost) \in Nat
    BY <1>1, <1>6, LenProperties DEF Bytes
  <2>3. QED
    BY <1>4, <2>1, <2>2
<1>9. \A x \in Conns : x # c => Quiet(x)
  BY <1>1, <1>3 DEF Quiet
<1>10. SameComing(c)
  BY <1>1, <1>3 DEF SameComing, ComingInv, Coming
<1>11. QED
  BY <1>1, <1>3, <1>7, <1>8, <1>9, <1>10, Delivers DEF got, asked

LEMMA CrashPromise ==
    ASSUME ComingInv, NEW why, Crash(why) PROVE Goal
BY NoneMoves DEF Crash, Quiet, objects, network

LEMMA ToldUp ==
    ASSUME OutputInv, ToldInv, NEW c \in Conns, tcp[c].live PROVE log[c].ups = 1
BY LiveIsOpen DEF ToldInv, Told

LEMMA AcceptPromise ==
    ASSUME ObjectInv, OutputInv, ToldInv, ComingInv, Accept PROVE Goal
<1>1. PICK c \in Conns : c = Head(backlog)
  BY HeadTailProperties DEF ObjectInv, TypeOK, Accept
<1>2. backlog # <<>> /\ backlog \in Seq(Conns)
  BY DEF ObjectInv, TypeOK, Accept
<1>3. sock[c].fd = "queued" /\ ~tcp[c].live
  <2>1. 1 \in 1..Len(backlog) /\ backlog[1] = c
    BY <1>1, <1>2, HeadTailProperties, EmptySeq, LenProperties
  <2>2. QED
    BY <2>1 DEF OutputInv, QueueInv, FreshInv, Untouched
<1>4. log[c].ups = 0 /\ log[c].downs = 0 /\ tcp[c].input = <<>>
  BY <1>3 DEF ToldInv, Told, ComingInv, Coming
<1>5. /\ sock'[c].rcv = sock[c].rcv /\ peer' = peer
      /\ tcp'[c].input = <<>> /\ log'[c].asked = log[c].asked
      /\ log'[c].ups = 1 /\ log'[c].downs = 0
      /\ \A x \in Conns :
            x # c => tcp'[x] = tcp[x] /\ sock'[x] = sock[x] /\ log'[x] = log[x]
  BY <1>1, <1>4 DEF Accept, Established, ObjectInv, TypeOK, SockType, LogType
<1>6. \A x \in Conns : x # c => Quiet(x)
  BY <1>5 DEF Quiet
<1>7. SameComing(c)
  BY <1>5 DEF SameComing
<1>8. QED
  BY <1>4, <1>5, <1>6, <1>7, TellsUp

(* DOWN is told of a connection that is CONNECTED. *)
LEMMA DownPromise ==
    ASSUME ObjectInv, OutputInv, ToldInv, ComingInv, NEW c \in Conns,
           tcp[c].state = "CONNECTED",
           tcp' = [tcp EXCEPT ![c].state = "DISCONNECTED"],
           log' = [log EXCEPT ![c].downs = @ + 1],
           UNCHANGED <<sock, peer>>
    PROVE  Goal
<1>1. tcp[c].live /\ log[c].ups = 1 /\ log[c].downs = 0
  BY ToldUp DEF ToldInv, Told
<1>2. /\ tcp'[c].input = tcp[c].input /\ tcp'[c].live
      /\ log'[c].ups = 1 /\ log'[c].downs = 1 /\ log'[c].asked = log[c].asked
      /\ \A x \in Conns : x # c => tcp'[x] = tcp[x] /\ log'[x] = log[x]
  BY <1>1 DEF ObjectInv, TypeOK, TcpType, LogType
<1>3. \A x \in Conns : x # c => Quiet(x)
  BY <1>2 DEF Quiet
<1>4. SameComing(c)
  BY <1>2 DEF SameComing
<1>5. QED
  BY <1>1, <1>2, <1>3, <1>4, TellsDown

(* The end of a connection, or none: the input goes with it. *)
LEMMA EndPromise ==
    ASSUME ObjectInv, OutputInv, ToldInv, ComingInv, UNCHANGED <<sock, peer, log>>,
           tcp[who].live,
           tcp' = [tcp EXCEPT ![who] = Destroyed(@)] \/ tcp' = tcp
    PROVE  Goal
<1>1. who \in Conns
  BY DEF ObjectInv, TypeOK
<1>2. CASE tcp' = tcp
  BY <1>2, NoneMoves DEF Quiet
<1>3. CASE tcp' = [tcp EXCEPT ![who] = Destroyed(@)]
  <2> DEFINE c == who
  <2>1. Destroyed(tcp[c]).input = <<>>
    BY <1>1 DEF Destroyed, ObjectInv, TypeOK, TcpType
  <2>2. /\ tcp'[c].input = <<>>
        /\ \A x \in Conns : x # c => tcp'[x] = tcp[x]
    BY <1>1, <1>3, <2>1 DEF ObjectInv, TypeOK
  <2>3. \A x \in Conns : x # c => Quiet(x)
    BY <2>2 DEF Quiet
  <2>4. SameComing(c)
    BY <2>2 DEF SameComing
  <2>5. log[c].ups = 1
    BY <1>1, ToldUp
  <2> HIDE DEF c
  <2>6. c \in Conns
    BY <1>1 DEF c
  <2>7. QED
    BY <2>2, <2>3, <2>4, <2>5, <2>6, Takes
<1>4. QED
  BY <1>2, <1>3

LEMMA RemoveConnectionPromise ==
    ASSUME ObjectInv, OutputInv, ToldInv, ComingInv, tcp[who].live,
           NEW back, RemoveConnection(who, back)
    PROVE  Goal
<1>1. who \in Conns /\ UNCHANGED <<sock, peer>>
  BY DEF ObjectInv, TypeOK, RemoveConnection, network
<1>2. CASE tcp[who].state = "CONNECTED"
  BY <1>1, <1>2, DownPromise DEF RemoveConnection, ConnectionDestroy
<1>3. CASE tcp[who].state # "CONNECTED"
  BY <1>1, <1>3, EndPromise DEF RemoveConnection, ConnectionDestroy, RemoveChannel
<1>4. QED
  BY <1>2, <1>3

LEMMA SendPromise ==
    ASSUME ObjectInv, OutputInv, ToldInv, ComingInv, tcp[who].live,
           UserSend \/ UserEcho
    PROVE  Goal
<1>1. PICK c \in Conns : c = who
  BY DEF ObjectInv, TypeOK
<1> DEFINE a == log[c].asked
           i == tcp[c].input
<1>2. a \in Bytes /\ i \in Bytes /\ Message \in Bytes
  BY InBytesTyped, BoundsAssumption DEF Bytes
<1>3. PICK b \in Bytes, left \in Bytes :
        /\ SendBytes(c, b, left)
        /\ (b = Message /\ left = i) \/ (b = i /\ left = <<>>)
  BY <1>1, <1>2, BytesEmpty DEF UserSend, UserEcho
<1>4. CASE Crash("sigpipe")
  BY <1>4, CrashPromise
<1>5. CASE ~Crash("sigpipe")
  <2> DEFINE rest == IF WritesDirectly(c) THEN Unwritten(sock[c], b) ELSE b
             s == AfterWrite(sock[c], b)
  <2>1. /\ tcp' = [tcp EXCEPT ![c].output = @ \o rest, ![c].input = left]
        /\ log' = [log EXCEPT ![c].asked = a \o b]
        /\ sock' = [sock EXCEPT ![c] = s] \/ sock' = sock
        /\ peer' = peer
    BY <1>3, <1>5, Zenon DEF SendBytes
  <2>2. s.rcv = sock[c].rcv
    BY DEF AfterWrite, ObjectInv, TypeOK, SockType
  <2> HIDE DEF rest, s
  <2>3. /\ tcp'[c].input = left /\ tcp'[c].live = tcp[c].live
        /\ log'[c].asked = a \o b
        /\ log'[c].ups = log[c].ups /\ log'[c].downs = log[c].downs
        /\ sock'[c].rcv = sock[c].rcv
        /\ \A x \in Conns :
              x # c => tcp'[x] = tcp[x] /\ log'[x] = log[x] /\ sock'[x] = sock[x]
    BY <2>1, <2>2 DEF ObjectInv, TypeOK, TcpType, LogType
  <2>4. \A x \in Conns : x # c => Quiet(x)
    BY <2>1, <2>3 DEF Quiet
  <2>5. SameComing(c) /\ log[c].ups = 1
    BY <1>1, <2>1, <2>3, ToldUp DEF SameComing
  <2>6. CASE b = Message /\ left = i
    <3>1. SubSeq(a \o b, 1, Len(a)) = a
      BY <1>2, ConcatPrefix
    <3>2. QED
      BY <2>1, <2>3, <2>4, <2>5, <2>6, <3>1, Sends
  <2>7. CASE b = i /\ left = <<>>
    BY <2>1, <2>3, <2>4, <2>5, <2>7, Echoes
  <2>8. QED
    BY <1>3, <2>6, <2>7
<1>6. QED
  BY <1>4, <1>5

LEMMA LoopPromise ==
    ASSUME ObjectInv, OutputInv, LifeInv, ToldInv, MapInv, ComingInv, LoopStep PROVE Goal
<1>1. CASE Start \/ Poll \/ EndBatch \/ SkipStage \/ ReturnUp
  BY <1>1, NoneMoves
     DEF Start, Poll, EndBatch, SkipStage, ReturnUp, Quiet, objects, network
<1>2. ASSUME NEW c \in Channels, StartHandle(c) PROVE Goal
  BY <1>2, NoneMoves DEF StartHandle, Quiet, objects, network
<1>3. CASE ReadFreedChannel \/ AcceptFails
  BY <1>3, CrashPromise DEF ReadFreedChannel, AcceptFails
<1>4. CASE Accept
  BY <1>4, AcceptPromise
<1>5. ASSUME pc = "handle", cur \in Conns, tcp[cur].live, HandleClose(cur) PROVE Goal
  BY <1>5, HandledIsConnected, DownPromise DEF HandleClose, network
<1>6. CASE HangUpEvent
  BY <1>5, <1>6, ConnIsNotListener DEF HangUpEvent, At, Freed
<1>7. CASE HandleRead
  <2>1. cur \in Conns /\ tcp[cur].live /\ pc = "handle"
    BY <1>7, ConnIsNotListener DEF HandleRead, At, Freed
  <2>2. PICK n \in ReadResults(sock[cur]) :
            IF n > 0 THEN ReadBytes(cur, n)
            ELSE IF n = 0 THEN HandleClose(cur)
            ELSE ReadError(cur)
    BY <1>7 DEF HandleRead
  <2>3. CASE n > 0
    <3>1. log[cur].ups = 1 /\ log[cur].downs = 0
      BY <2>1, ToldUp, HandledIsConnected DEF ToldInv, Told
    <3>2. QED
      BY <2>1, <2>2, <2>3, <3>1, ReadResultsRange, ReadBytesPromise
  <2>4. CASE ReadError(cur)
    <3>1. \A x \in Conns : sock'[x].rcv = sock[x].rcv
      BY <2>1, <2>4 DEF ReadError, ObjectInv, TypeOK, SockType
    <3>2. QED
      BY <2>4, <3>1, NoneMoves DEF ReadError, Quiet, objects
  <2>5. QED
    BY <1>5, <2>1, <2>2, <2>3, <2>4
<1>8. ASSUME pc \in Callbacks PROVE tcp[who].live
  BY <1>8 DEF OutputInv, CallbackLive
<1>9. CASE ReturnMessage
  BY <1>8, <1>9, EndPromise DEF ReturnMessage, Callbacks, network
<1>10. CASE HandleWrite
  <2>1. CASE Crash("sigpipe") \/ Crash("write")
    BY <2>1, CrashPromise
  <2>2. CASE ~IsWriting(chan[cur])
    BY <1>10, <2>2, NoneMoves DEF HandleWrite, Quiet, objects, network
  <2>3. CASE WritePending(cur) /\ IsWriting(chan[cur])
    <3>1. cur \in Conns
      BY <2>3 DEF ObjectInv, TypeOK, ListenerReads, Channels
    <3> DEFINE s == AfterWrite(sock[cur], tcp[cur].output)
    <3>2. s.rcv = sock[cur].rcv
      BY <3>1 DEF AfterWrite, ObjectInv, TypeOK, SockType
    <3>3. sock' = [sock EXCEPT ![cur] = s] /\ UNCHANGED <<log, peer>>
      BY <2>3 DEF WritePending
    <3> HIDE DEF s
    <3>4. \A x \in Conns : sock'[x].rcv = sock[x].rcv
      BY <3>1, <3>2, <3>3 DEF ObjectInv, TypeOK
    <3>5. \A x \in Conns : tcp'[x].live = tcp[x].live /\ tcp'[x].input = tcp[x].input
      BY <2>3, <3>1 DEF WritePending, ObjectInv, TypeOK, TcpType
    <3>6. QED
      BY <3>3, <3>4, <3>5, NoneMoves DEF Quiet
  <2>4. QED
    BY <1>10, <2>1, <2>2, <2>3 DEF HandleWrite
<1>11. CASE ReturnDown
  BY <1>8, <1>11, RemoveConnectionPromise DEF ReturnDown, Callbacks
<1>12. CASE ReturnRemoved
  BY <1>8, <1>12, EndPromise DEF ReturnRemoved, RemoveChannel, Callbacks, network
<1>13. QED
  BY <1>1, <1>2, <1>3, <1>4, <1>6, <1>7, <1>9, <1>10, <1>11, <1>12 DEF LoopStep

LEMMA UserPromise ==
    ASSUME ObjectInv, OutputInv, LifeInv, ToldInv, ComingInv, UserStep PROVE Goal
<1>1. who \in Conns
  BY DEF ObjectInv, TypeOK
<1>2. \A call : May(call) => tcp[who].live
  BY DEF May, OutputInv, CallbackLive, Callbacks
<1>3. CASE UserSend \/ UserEcho
  BY <1>2, <1>3, SendPromise DEF UserSend, UserEcho
<1>4. CASE UserRetrieve
  <2>1. PICK c \in Conns : c = who
    BY <1>1
  <2>2. /\ tcp'[c].input = <<>>
        /\ \A x \in Conns : x # c => tcp'[x] = tcp[x]
        /\ UNCHANGED <<log, sock, peer>>
    BY <1>4, <2>1 DEF UserRetrieve, network, ObjectInv, TypeOK, TcpType
  <2>3. \A x \in Conns : x # c => Quiet(x)
    BY <2>2 DEF Quiet
  <2>4. SameComing(c) /\ log[c].ups = 1
    BY <1>2, <1>4, <2>1, <2>2, ToldUp DEF UserRetrieve, SameComing
  <2>5. QED
    BY <2>2, <2>3, <2>4, Takes
<1>5. CASE UserShutdown
  <2>1. \A x \in Conns : /\ log'[x].asked = log[x].asked
                         /\ log'[x].ups = log[x].ups /\ log'[x].downs = log[x].downs
    BY <1>5 DEF UserShutdown, ObjectInv, TypeOK, LogType
  <2>2. QED
    BY <1>5, <2>1, NoneMoves DEF UserShutdown, Quiet, objects, network
<1>6. CASE UserRemove
  BY <1>2, <1>6, RemoveConnectionPromise DEF UserRemove
<1>7. CASE UserQuit
  BY <1>7, NoneMoves DEF UserQuit, Quiet, objects, network
<1>8. QED
  BY <1>3, <1>4, <1>5, <1>6, <1>7 DEF UserStep

LEMMA PeerPromise ==
    ASSUME ObjectInv, OutputInv, ComingInv, PeerStep PROVE Goal
<1>1. PICK c \in Conns : \/ Connect(c) \/ PeerSend(c) \/ PeerRecv(c)
                       \/ PeerClose(c) \/ PeerReset(c)
  BY DEF PeerStep
<1>2. UNCHANGED <<objects, loopVars, log>>
  BY PeerKeeps
<1>3. CASE Connect(c) \/ PeerClose(c) \/ PeerReset(c)
  <2>1. \A x \in Conns : sock'[x].rcv = sock[x].rcv
    <3>1. sock \in [Conns -> SockType]
      BY DEF ObjectInv, TypeOK
    <3>2. CASE Connect(c)
      BY <3>1, <3>2 DEF Connect, SockType
    <3>3. CASE PeerClose(c)
      BY <3>1, <3>3 DEF PeerClose, SockType
    <3>4. CASE PeerReset(c)
      BY <3>1, <3>4 DEF PeerReset, SockType
    <3>5. QED
      BY <1>3, <3>2, <3>3, <3>4
  <2>2. peer' = peer
    BY <1>3 DEF Connect, PeerClose, PeerReset
  <2>3. \A x \in Conns : Quiet(x)
    BY <1>2, <2>1, <2>2 DEF Quiet, objects
  <2>4. QED
    BY <2>3, NoneMoves
<1>4. QED
  BY <1>1, <1>3, PeerSendPromise, PeerRecvPromise

LEMMA NextPromise ==
    ObjectInv /\ OutputInv /\ LifeInv /\ ToldInv /\ MapInv /\ ComingInv /\ [Next]_vars
        => Goal
<1> SUFFICES ASSUME ObjectInv, OutputInv, LifeInv, ToldInv, MapInv, ComingInv,
                    [Next]_vars
             PROVE  Goal
  OBVIOUS
<1>1. CASE UNCHANGED vars
  BY <1>1, NoneMoves DEF vars, Quiet
<1>2. QED
  BY <1>1, PeerPromise, LoopPromise, UserPromise DEF Next

LEMMA InitPromise == Init => Promise!Init
<1>1. Len(<<>>) = 0
  BY EmptySeq
<1>2. QED
  BY <1>1 DEF Init, Promise!Init, Promise!Nothing

(* For every application that, where it may remove a connection in the UP    *)
(* callback, sends nothing there or asks connected() first, the server       *)
(* implements Connection: UP, messages and DOWN in this order, the peer's    *)
(* bytes in order and only in between, and what is sent reaches the peer in  *)
(* order.  (TcpConnection.cpp:43-166)                                        *)
THEOREM ImplementsConnection == ASSUME ChecksInUp PROVE Spec => ConnectionSpec
<1> DEFINE Inv == /\ ObjectInv /\ OutputInv /\ LifeInv
                  /\ ToldInv /\ MapInv /\ ComingInv
<1>1. Init => Inv /\ Promise!Init
  BY InitObject, InitOutput, InitLife, InitTold, InitMap, InitComing, InitPromise
<1>2. Inv /\ [Next]_vars => Inv' /\ [Promise!Next]_(Promise!promiseVars)
  BY NextObject, NextOutput, NextLife, NextTold, NextMap, NextPromise
     DEF Goal, PromiseStep
<1> HIDE DEF Inv
<1>3. QED
  BY <1>1, <1>2, PTL DEF Spec, ConnectionSpec, Promise!Spec
=============================================================================
