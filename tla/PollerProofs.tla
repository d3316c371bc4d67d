---------------------------- MODULE PollerProofs ----------------------------
(***************************************************************************)
(* For every finite set of channels and every size of the event array:     *)
(* whatever the callbacks call, the poller's bookkeeping mirrors the       *)
(* kernel's, epoll_ctl never fails, an event that is handled is still      *)
(* reported or was withdrawn in the same batch, and the event array stays  *)
(* bounded.                                                                *)
(***************************************************************************)
EXTENDS Poller, TLAPS, SequenceTheorems, FiniteSetTheorems

USE DEF ReadableEvent, WritableEvent, HangUp, Interest, Events, Faults

-----------------------------------------------------------------------------
(* What the operations of Channel keep: a channel whose bookkeeping mirrors  *)
(* the kernel's goes on mirroring it.                                        *)

(* One call keeps a channel well formed and mirrored, and leaves revents_. *)
Good(ch) == ch \in ChannelType /\ Mirrors(ch)

LEMMA NewChannelGood == Good(NewChannel)
BY DEF Good, Mirrors, NewChannel, ChannelType

(* epoll_ctl accepts an ADD or MOD that fits the kernel's state: the kernel *)
(* then watches events_, and nothing else of the channel changes.            *)
LEMMA Registers ==
    ASSUME NEW ch \in ChannelType, NEW op \in {"ADD", "MOD"},
           ch.added <=> op = "MOD"
    PROVE  LET d == EpollCtl(ch, op) IN
             /\ d \in ChannelType
             /\ d.added
             /\ d.mask = ch.events
             /\ d.events = ch.events
             /\ d.status = ch.status
             /\ d.fault = ch.fault
             /\ d.revents = ch.revents
<1> DEFINE a == [ch EXCEPT !.added = TRUE]
           d == [a EXCEPT !.mask = ch.events]
<1>1. EpollCtl(ch, op) = d
  BY DEF EpollCtl
<1>2. a \in ChannelType /\ a.added /\ a.events = ch.events
      /\ a.status = ch.status /\ a.fault = ch.fault /\ a.revents = ch.revents
  BY DEF ChannelType
<1> HIDE DEF a
<1>3. d \in ChannelType
  BY <1>2 DEF ChannelType
<1>4. d.mask = ch.events /\ d.events = ch.events /\ d.status = ch.status
      /\ d.fault = ch.fault /\ d.revents = ch.revents
  BY <1>2 DEF ChannelType
<1>5. d.added
  BY <1>2 DEF ChannelType
<1>6. QED
  BY <1>1, <1>3, <1>4, <1>5

LEMMA Unregisters ==
    ASSUME NEW ch \in ChannelType, ch.added
    PROVE  LET d == EpollCtl(ch, "DEL") IN
             /\ d \in ChannelType
             /\ ~d.added
             /\ d.events = ch.events
             /\ d.status = ch.status
             /\ d.fault = ch.fault
             /\ d.revents = ch.revents
<1> DEFINE a == [ch EXCEPT !.added = FALSE]
           d == [a EXCEPT !.mask = {}]
<1>1. EpollCtl(ch, "DEL") = d
  BY DEF EpollCtl
<1>2. a \in ChannelType /\ ~a.added /\ a.events = ch.events
      /\ a.status = ch.status /\ a.fault = ch.fault /\ a.revents = ch.revents
  BY DEF ChannelType
<1> HIDE DEF a
<1>3. d \in ChannelType
  BY <1>2 DEF ChannelType
<1>4. d.events = ch.events /\ d.status = ch.status
      /\ d.fault = ch.fault /\ d.revents = ch.revents
  BY <1>2 DEF ChannelType
<1>5. ~d.added
  BY <1>2 DEF ChannelType
<1>6. QED
  BY <1>1, <1>3, <1>4, <1>5

LEMMA SetStatus ==
    ASSUME NEW ch \in ChannelType, NEW st \in {"NEW", "ADDED", "DEL"}
    PROVE  LET d == [ch EXCEPT !.status = st] IN
             /\ d \in ChannelType
             /\ d.added <=> ch.added
             /\ d.mask = ch.mask
             /\ d.events = ch.events
             /\ d.status = st
             /\ d.fault = ch.fault
             /\ d.revents = ch.revents
BY DEF ChannelType

(* Epoller::updateChannel after events_ was set: the status decides the   *)
(* operation, and it is one that the kernel accepts.                       *)
LEMMA SetEventsGood ==
    ASSUME NEW ch, Good(ch), NEW E \in SUBSET Interest
    PROVE  /\ Good(SetEvents(ch, E))
           /\ SetEvents(ch, E).revents = ch.revents
           /\ SetEvents(ch, E).events = E
           /\ SetEvents(ch, E).added \/ E = {}
<1> DEFINE d == [ch EXCEPT !.events = E]
           e == SetEvents(ch, E)
<1>1. d \in ChannelType /\ (d.added <=> d.status = "ADDED") /\ d.fault # "epoll_ctl"
      /\ d.revents = ch.revents /\ d.events = E
  BY DEF Good, Mirrors, ChannelType
<1>2. e = UpdateChannel(d)
  BY DEF SetEvents
<1> HIDE DEF d, e
<1>3. CASE d.status \in {"NEW", "DEL"}
  <2> DEFINE a == [d EXCEPT !.status = "ADDED"]
  <2>1. e = EpollCtl(a, "ADD")
    BY <1>2, <1>3 DEF UpdateChannel
  <2>2. /\ a \in ChannelType /\ (a.added <=> d.added) /\ a.status = "ADDED"
        /\ a.fault = d.fault /\ a.revents = d.revents /\ a.events = d.events
    BY <1>1, SetStatus
  <2> HIDE DEF a
  <2>3. /\ ~a.added /\ a.fault # "epoll_ctl" /\ a.revents = ch.revents
        /\ a.events = E
    BY <1>1, <1>3, <2>2
  <2>4. QED
    BY <2>1, <2>2, <2>3, Registers DEF Good, Mirrors, e
<1>4. CASE d.status = "ADDED" /\ ~IsNoneEvent(d)
  <2>1. e = EpollCtl(d, "MOD")
    BY <1>2, <1>4 DEF UpdateChannel
  <2>2. QED
    BY <1>1, <1>4, <2>1, Registers DEF Good, Mirrors, e
<1>5. CASE d.status = "ADDED" /\ IsNoneEvent(d)
  <2> DEFINE a == [d EXCEPT !.status = "DEL"]
  <2>1. e = EpollCtl(a, "DEL")
    BY <1>2, <1>5 DEF UpdateChannel
  <2>2. /\ a \in ChannelType /\ (a.added <=> d.added) /\ a.status = "DEL"
        /\ a.fault = d.fault /\ a.revents = d.revents /\ a.events = d.events
    BY <1>1, SetStatus
  <2> HIDE DEF a
  <2>3. /\ a.added /\ a.fault # "epoll_ctl" /\ a.revents = ch.revents
        /\ a.events = E
    BY <1>1, <1>5, <2>2
  <2>4. E = {}
    BY <1>1, <1>5 DEF IsNoneEvent
  <2>5. QED
    BY <2>1, <2>2, <2>3, <2>4, Unregisters DEF Good, Mirrors, e
<1>6. QED
  BY <1>1, <1>3, <1>4, <1>5 DEF ChannelType

LEMMA RemoveGood ==
    ASSUME NEW ch, Good(ch)
    PROVE  /\ Good(Remove(ch))
           /\ Remove(ch).revents = ch.revents
           /\ Remove(ch).events = ch.events
           /\ ~IsNoneEvent(ch) => Remove(ch).added = ch.added
<1>1. ch \in ChannelType /\ (ch.added <=> ch.status = "ADDED") /\ ch.fault # "epoll_ctl"
      /\ (ch.added => ch.mask = ch.events)
  BY DEF Good, Mirrors
<1>2. CASE ~IsNoneEvent(ch)
  <2>1. Remove(ch) = [ch EXCEPT !.fault = "assert"]
    BY <1>2 DEF Remove
  <2>2. QED
    BY <1>1, <2>1 DEF Good, Mirrors, ChannelType
<1>3. CASE IsNoneEvent(ch) /\ ch.status = "ADDED"
  <2>1. Remove(ch) = [EpollCtl(ch, "DEL") EXCEPT !.status = "NEW"]
    BY <1>3 DEF Remove
  <2> DEFINE d == EpollCtl(ch, "DEL")
             e == [d EXCEPT !.status = "NEW"]
  <2>2. d \in ChannelType /\ ~d.added /\ d.fault # "epoll_ctl" /\ d.revents = ch.revents
        /\ d.events = ch.events
    BY <1>1, <1>3, Unregisters
  <2> HIDE DEF d
  <2>3. e \in ChannelType /\ ~e.added /\ e.status = "NEW"
        /\ e.fault # "epoll_ctl" /\ e.revents = ch.revents /\ e.events = ch.events
    BY <2>2, SetStatus
  <2> HIDE DEF e
  <2>4. Good(e)
    BY <2>3 DEF Good, Mirrors
  <2>5. QED
    BY <1>3, <2>1, <2>3, <2>4 DEF e, d
<1>4. CASE IsNoneEvent(ch) /\ ch.status # "ADDED"
  <2>1. Remove(ch) = [ch EXCEPT !.status = "NEW"]
    BY <1>4 DEF Remove
  <2> DEFINE e == [ch EXCEPT !.status = "NEW"]
  <2>2. e \in ChannelType /\ ~e.added /\ e.status = "NEW"
        /\ e.fault # "epoll_ctl" /\ e.revents = ch.revents /\ e.events = ch.events
    BY <1>1, <1>4, SetStatus
  <2> HIDE DEF e
  <2>3. Good(e)
    BY <2>2 DEF Good, Mirrors
  <2>4. QED
    BY <2>1, <2>2, <2>3 DEF e
<1>5. QED
  BY <1>2, <1>3, <1>4

(* A channel that watches something is registered. *)
Watched(ch) == IsNoneEvent(ch) \/ ch.added

(* The two lemmas cover every operation of class Channel. *)
LEMMA OperationsGood ==
    ASSUME NEW ch, Good(ch), NEW d \in Operations(ch)
    PROVE  Good(d) /\ d.revents = ch.revents /\ (Watched(ch) => Watched(d))
<1>1. ch.events \in SUBSET Interest
  BY DEF Good, ChannelType
<1>2. \/ d = Remove(ch)
      \/ \E E \in SUBSET Interest : d = SetEvents(ch, E)
  BY <1>1 DEF Operations, EnabledReadable, EnabledWritable, DisabledReadable,
       DisabledWritable, DiabledAllEvents
<1>3. CASE d = Remove(ch)
  BY <1>3, RemoveGood DEF Watched, IsNoneEvent
<1>4. ASSUME NEW E \in SUBSET Interest, d = SetEvents(ch, E)
      PROVE  Good(d) /\ d.revents = ch.revents /\ (Watched(ch) => Watched(d))
  BY <1>4, SetEventsGood DEF Watched, IsNoneEvent
<1>5. QED
  BY <1>2, <1>3, <1>4

-----------------------------------------------------------------------------
(* The inductive invariant.  What the kernel reports now is not enough: a      *)
(* hang-up that is stale because its channel watches nothing is reported again *)
(* when the channel watches something, as it stays.  So an event of a report   *)
(* was withdrawn, or its condition still holds and it is still watched.        *)
Standing(c, e) == e \in ready[c] /\ e \in chan[c].events \cup {HangUp}
ReportsStand ==
    \A c \in Handling :
        /\ chan[c].revents # {}
        /\ \A e \in chan[c].revents : e \in withdrawn[c] \/ Standing(c, e)

IInv ==
    /\ TypeOK
    /\ KernelMirror
    /\ CapacityBound
    /\ \A c \in Channels : Watched(chan[c])
    /\ ReportsStand

LEMMA HandlingTyped == TypeOK => Handling \subseteq Channels
BY DEF TypeOK, Handling

(* A standing event is one that the kernel reports, as its channel is          *)
(* registered whenever it watches something.                                   *)
LEMMA StaleIsWithdrawn == IInv => OnlyWithdrawnIsStale
<1> SUFFICES ASSUME IInv, NEW c \in Handling
             PROVE  /\ chan[c].revents # {}
                    /\ \A e \in StaleEvents(c) :
                          e \in withdrawn[c] \/ (e = HangUp /\ IsNoneEvent(chan[c]))
  BY DEF OnlyWithdrawnIsStale
<1>1. c \in Channels
  BY HandlingTyped DEF IInv
<1>2. /\ chan[c] \in ChannelType /\ Mirrors(chan[c]) /\ Watched(chan[c])
      /\ chan[c].revents # {}
      /\ \A e \in chan[c].revents : e \in withdrawn[c] \/ Standing(c, e)
  BY <1>1 DEF IInv, TypeOK, KernelMirror, ReportsStand
<1>3. ASSUME NEW e \in StaleEvents(c), e \notin withdrawn[c]
      PROVE  e = HangUp /\ IsNoneEvent(chan[c])
  <2>1. /\ e \in chan[c].revents /\ e \notin Reported(chan[c], ready[c])
        /\ e \in ready[c] /\ e \in chan[c].events \cup {HangUp}
    BY <1>2, <1>3 DEF StaleEvents, Standing
  <2>2. ASSUME chan[c].added PROVE FALSE
    BY <1>2, <2>1, <2>2 DEF Reported, Mirrors
  <2>3. chan[c].events = {}
    BY <1>2, <2>2 DEF Watched, IsNoneEvent
  <2>4. QED
    BY <2>1, <2>3 DEF IsNoneEvent
<1>4. QED
  BY <1>2, <1>3

LEMMA ReportGood ==
    ASSUME TypeOK, KernelMirror, NEW c \in Channels
    PROVE  Good(Report(c)) /\ Report(c).revents = Reported(chan[c], ready[c])
<1>1. Reported(chan[c], ready[c]) \in SUBSET Events
  BY DEF Reported, TypeOK
<1>2. chan[c] \in ChannelType /\ Mirrors(chan[c])
  BY DEF TypeOK, KernelMirror
<1>3. QED
  BY <1>1, <1>2 DEF Report, Good, Mirrors, ChannelType

LEMMA InitIInv == Init => IInv
<1> SUFFICES ASSUME Init PROVE IInv
  OBVIOUS
<1>1. \A c \in Channels : chan[c] \in ChannelType /\ Mirrors(chan[c])
  BY NewChannelGood DEF Init, Good
<1>2. TypeOK
  BY <1>1, InitEventsAssumption DEF Init, TypeOK, Stages
<1>3. KernelMirror
  BY <1>1 DEF KernelMirror
<1>4. CapacityBound /\ ReportsStand
  BY DEF Init, CapacityBound, ReportsStand, Handling
<1>5. \A c \in Channels : Watched(chan[c])
  BY DEF Init, Watched, IsNoneEvent, NewChannel
<1>6. QED
  BY <1>2, <1>3, <1>4, <1>5 DEF IInv

LEMMA CallIInv ==
    ASSUME IInv, NEW c \in Channels, Call(c)
    PROVE  IInv'
<1> USE DEF IInv
<1>1. PICK ch \in Operations(chan[c]) :
        /\ chan' = [chan EXCEPT ![c] = ch]
        /\ pc' = IF ch.fault = "none" THEN pc ELSE "dead"
        /\ Withdraw(c, chan[c].events \ ch.events)
  BY DEF Call
<1>2. Good(chan[c])
  BY DEF TypeOK, KernelMirror, Good
<1>3. Good(ch) /\ ch.revents = chan[c].revents /\ Watched(ch)
  BY <1>2, OperationsGood
<1>4. /\ chan' \in [Channels -> ChannelType]
      /\ \A x \in Channels : chan'[x].revents = chan[x].revents
      /\ \A x \in Channels : x # c => chan'[x] = chan[x]
      /\ chan'[c] = ch
  BY <1>1, <1>3 DEF TypeOK, Good
<1>5. TypeOK'
  <2>1. withdrawn' \in [Channels -> SUBSET Interest]
    BY <1>1, <1>2 DEF Withdraw, TypeOK, Good, ChannelType
  <2>2. QED
    BY <1>1, <1>4, <2>1 DEF Call, TypeOK
<1>6. KernelMirror'
  BY <1>3, <1>4 DEF KernelMirror, Good
<1>7. CapacityBound'
  BY DEF Call, CapacityBound
<1>8. \A x \in Channels : Watched(chan'[x])
  BY <1>3, <1>4
<1>9. ReportsStand'
  <2>1. Handling' \subseteq Handling
    BY <1>1 DEF Call, Handling
  <2>2. ready' = ready
    BY DEF Call
  <2>3. ASSUME NEW x \in Handling', x # c
        PROVE  /\ chan'[x] = chan[x] /\ withdrawn'[x] = withdrawn[x] /\ x \in Handling
    BY <1>1, <1>4, <2>1, <2>3, HandlingTyped DEF Withdraw, TypeOK
  <2>4. /\ withdrawn'[c] = withdrawn[c]
                             \cup ((chan[c].events \ ch.events) \cap chan[c].revents)
        /\ chan'[c].revents = chan[c].revents /\ chan'[c].events = ch.events
    BY <1>1, <1>3, <1>4 DEF Withdraw, TypeOK
  <2>5. ASSUME c \in Handling', NEW e \in chan[c].revents
        PROVE  e \in withdrawn'[c] \/ Standing(c, e)'
    <3>1. e \in withdrawn[c] \/ Standing(c, e)
      BY <2>1, <2>5 DEF ReportsStand
    <3>2. QED
      BY <2>2, <2>4, <2>5, <3>1 DEF Standing
  <2>6. ASSUME NEW x \in Handling'
        PROVE  /\ chan'[x].revents # {}
               /\ \A e \in chan'[x].revents : e \in withdrawn'[x] \/ Standing(x, e)'
    <3>1. CASE x = c
      BY <2>1, <2>4, <2>5, <2>6, <3>1 DEF ReportsStand
    <3>2. CASE x # c
      BY <2>2, <2>3, <2>6, <3>2 DEF ReportsStand, Standing
    <3>3. QED
      BY <3>1, <3>2
  <2>7. QED
    BY <2>6 DEF ReportsStand
<1>10. QED
  BY <1>5, <1>6, <1>7, <1>8, <1>9

(* A full array has as many entries as channels were ready, so doubling it  *)
(* stays within twice their number.                                          *)
LEMMA PollIInv ==
    ASSUME IInv, Poll
    PROVE  IInv'
<1> USE DEF IInv
<1>1. PICK A \in SUBSET ReadyChannels :
        /\ active' = A
        /\ chan' = [c \in Channels |-> IF c \in A THEN Report(c) ELSE chan[c]]
        /\ capacity' = Grown(Cardinality(A))
  BY DEF Poll
<1>2. A \subseteq Channels
  BY DEF ReadyChannels
<1>3. /\ IsFiniteSet(A)
      /\ Cardinality(A) \in Nat
      /\ Cardinality(Channels) \in Nat
      /\ Cardinality(A) <= Cardinality(Channels)
  BY <1>2, ChannelsAssumption, FS_Subset, FS_CardinalityType
<1>4. \A c \in Channels : chan'[c] \in ChannelType /\ Mirrors(chan'[c])
  BY <1>1, ReportGood DEF TypeOK, KernelMirror, Good
<1>5. ASSUME NEW c \in A
      PROVE  /\ chan'[c].revents # {}
             /\ \A e \in chan'[c].revents : Standing(c, e)'
  <2>1. /\ chan'[c] = Report(c) /\ ready' = ready
        /\ chan'[c].revents = Reported(chan[c], ready[c])
        /\ Reported(chan[c], ready[c]) # {}
        /\ Mirrors(chan[c]) /\ chan[c] \in ChannelType
    BY <1>1, <1>2, ReportGood DEF ReadyChannels, Poll, KernelMirror, TypeOK
  <2>2. chan'[c].events = chan[c].events
    BY <2>1 DEF Report, ChannelType
  <2>3. QED
    BY <2>1, <2>2 DEF Reported, Mirrors, Standing
<1>6. capacity' \in Nat \ {0}
  BY <1>1, <1>3 DEF Grown, TypeOK
<1>7. TypeOK'
  <2>1. chan' \in [Channels -> ChannelType]
    BY <1>1, <1>4
  <2>2. QED
    BY <1>1, <1>2, <1>6, <2>1 DEF Poll, TypeOK
<1>8. KernelMirror'
  BY <1>4 DEF KernelMirror
<1>9. CapacityBound'
  BY <1>1, <1>3 DEF CapacityBound, Grown, TypeOK
<1>10. \A c \in Channels : Watched(chan'[c])
  <2>1. \A c \in Channels : chan[c] \in ChannelType /\ Watched(chan[c])
    BY DEF TypeOK
  <2>2. \A c \in Channels : chan'[c].events = chan[c].events /\ chan'[c].added = chan[c].added
    BY <1>1, <2>1 DEF Report, ChannelType
  <2>3. QED
    BY <2>1, <2>2 DEF Watched, IsNoneEvent
<1>11. ReportsStand'
  <2>1. Handling' = A
    BY <1>1 DEF Handling, Poll
  <2>2. QED
    BY <1>5, <2>1 DEF ReportsStand
<1>12. QED
  BY <1>7, <1>8, <1>9, <1>10, <1>11

(* A callback that consumes a condition withdraws its event. *)
LEMMA ConsumeIInv ==
    ASSUME IInv, NEW c \in Channels, NEW e \in Interest, Consume(c, e)
    PROVE  IInv'
<1> USE DEF IInv
<1>1. /\ ready' = [ready EXCEPT ![c] = @ \ {e}]
      /\ withdrawn' = [withdrawn EXCEPT ![c] = @ \cup ({e} \cap chan[c].revents)]
      /\ UNCHANGED <<chan, pc, stage, cur, active, capacity, quit>>
  BY DEF Consume, Withdraw
<1>2. TypeOK' /\ KernelMirror' /\ CapacityBound'
  BY <1>1 DEF TypeOK, KernelMirror, CapacityBound
<1>3. Handling' = Handling /\ Handling \subseteq Channels
  BY <1>1, HandlingTyped DEF Handling
<1>4. ReportsStand'
  BY <1>1, <1>3 DEF ReportsStand, Standing, TypeOK
<1>5. QED
  BY <1>1, <1>2, <1>4

LEMMA NextIInv == IInv /\ [Next]_vars => IInv'
<1> SUFFICES ASSUME IInv, [Next]_vars PROVE IInv'
  OBVIOUS
<1> USE DEF IInv, TypeOK, KernelMirror, CapacityBound, ReportsStand, Standing, Handling
<1>1. CASE EnterLoop
  BY <1>1 DEF EnterLoop
<1>2. CASE Poll \/ StartPoll
  BY <1>2, PollIInv DEF StartPoll
<1>3. CASE StartHandle
  BY <1>3 DEF StartHandle, Stages
<1>4. CASE EndStage
  BY <1>4 DEF EndStage, Stages
<1>5. CASE EndBatch
  BY <1>5 DEF EndBatch
<1>6. CASE LeaveLoop
  BY <1>6 DEF LeaveLoop
<1>7. ASSUME NEW c \in Channels, Call(c) PROVE IInv'
  BY <1>7, CallIInv
<1>8. ASSUME NEW c \in Channels, NEW e \in Interest, Consume(c, e) PROVE IInv'
  BY <1>8, ConsumeIInv
<1>9. CASE Quit
  BY <1>9 DEF Quit
<1>10. ASSUME NEW c \in Channels, NEW e \in Conditions, Arrive(c, e) PROVE IInv'
  BY <1>10, ConditionsAssumption DEF Arrive
<1>11. CASE UNCHANGED vars
  BY <1>11 DEF vars
<1>12. QED
  BY <1>1, <1>2, <1>3, <1>4, <1>5, <1>6, <1>7, <1>8, <1>9, <1>10, <1>11
     DEF Next, LoopStep

(* Every reachable state of the loop is well typed. *)
THEOREM TypeCorrect == Spec => []TypeOK
<1>1. IInv => TypeOK
  BY DEF IInv
<1>2. QED
  BY <1>1, InitIInv, NextIInv, PTL DEF Spec

(* epoll_ctl never fails and status_ and events_ always say what the kernel  *)
(* watches, for every number of channels and every order of calls.            *)
THEOREM MirrorCorrect == Spec => []KernelMirror
<1>1. IInv => KernelMirror
  BY DEF IInv
<1>2. QED
  BY <1>1, InitIInv, NextIInv, PTL DEF Spec

(* Doubling a full event array stays below twice the number of channels. *)
THEOREM CapacityCorrect == Spec => []CapacityBound
<1>1. IInv => CapacityBound
  BY DEF IInv
<1>2. QED
  BY <1>1, InitIInv, NextIInv, PTL DEF Spec

(* Whatever the callbacks of a batch call on whatever channels: an event that  *)
(* is handled is one that epoll still reports, or a callback of the same batch  *)
(* disabled or consumed it, or it is a hang-up of a channel that watches        *)
(* nothing any more.  (EventLoop.cpp:40-50, Epoller.cpp:30-39)                  *)
THEOREM StaleCorrect == Spec => []OnlyWithdrawnIsStale
<1>1. IInv => OnlyWithdrawnIsStale
  BY StaleIsWithdrawn
<1>2. QED
  BY <1>1, InitIInv, NextIInv, PTL DEF Spec
=============================================================================
