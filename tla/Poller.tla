------------------------------- MODULE Poller -------------------------------
(***************************************************************************)
(* EventLoop::loop(), Epoller and the channels registered with it, for ANY *)
(* set of channels whose callbacks make any sequence of the calls that     *)
(* class Channel offers, on their own channel or on another one.           *)
(*                                                                         *)
(* One thread runs the loop: epoll_wait without a timeout fills            *)
(* activeChannels_, then Channel::handleEvents() runs the three callbacks  *)
(* in the order close, read, write.  The kernel raises conditions on the   *)
(* descriptors at any moment between two steps of the loop.  Freed         *)
(* channels are the subject of NetServer; here every channel outlives the  *)
(* loop.  epoll_wait returning 0 or an error only prints: no step.         *)
(***************************************************************************)
EXTENDS Channel, Naturals, FiniteSets

CONSTANTS
    Channels,       \* the channels of one loop
    Conditions,     \* the conditions their descriptors can have
    InitEvents      \* Epoller::DeaultEventNums, 128 in the code

ASSUME ChannelsAssumption == IsFiniteSet(Channels)
ASSUME ConditionsAssumption == Conditions \subseteq Events
ASSUME InitEventsAssumption == InitEvents \in Nat \ {0}

VARIABLES
    chan,       \* the channel objects with their kernel registration
    ready,      \* the conditions each descriptor has now
    pc,         \* where the loop's thread is
    stage,      \* which `if' of handleEvents()
    cur,        \* the channel being handled
    active,     \* activeChannels_ still to handle; the kernel chose their order
    capacity,   \* activeEvents_.size()
    quit,       \* quit_
    withdrawn   \* history: what user code disabled or consumed in this batch,
                \*   of the events reported for each channel

vars == <<chan, ready, pc, stage, cur, active, capacity, quit, withdrawn>>

Stages == {"HUP", "IN", "OUT"}

TypeOK ==
    /\ chan \in [Channels -> ChannelType]
    /\ ready \in [Channels -> SUBSET Events]
    /\ pc \in {"setup", "poll", "wait", "dispatch", "handle", "exit", "dead"}
    /\ stage \in Stages
    /\ cur \in Channels
    /\ active \in SUBSET Channels
    /\ capacity \in Nat \ {0}
    /\ quit \in BOOLEAN
    /\ withdrawn \in [Channels -> SUBSET Interest]

Init ==
    /\ chan = [c \in Channels |-> NewChannel]
    /\ ready = [c \in Channels |-> {}]
    /\ pc = "setup"
    /\ stage = "HUP"
    /\ cur \in Channels
    /\ active = {}
    /\ capacity = InitEvents
    /\ quit = FALSE
    /\ withdrawn = [c \in Channels |-> {}]

-----------------------------------------------------------------------------
(* User code runs before loop() is called, and inside a callback: the one of *)
(* this stage if the event was reported.                                     *)
InUserCode ==
    \/ pc = "setup"
    \/ pc = "handle" /\ stage \in chan[cur].revents

(* Events of c are disabled or consumed: history, no step depends on it. *)
Withdraw(c, E) ==
    withdrawn' = [withdrawn EXCEPT ![c] = @ \cup (E \cap chan[c].revents)]

(* A call of one of Channel's registration operations. *)
Call(c) ==
    /\ InUserCode
    /\ \E ch \in Operations(chan[c]) :
          /\ chan' = [chan EXCEPT ![c] = ch]
          /\ pc' = IF ch.fault = "none" THEN pc ELSE "dead"
          /\ Withdraw(c, chan[c].events \ ch.events)
    /\ UNCHANGED <<ready, stage, cur, active, capacity, quit>>

(* A callback reads, writes or accepts until the condition is gone. *)
Consume(c, e) ==
    /\ InUserCode
    /\ e \in ready[c] \ {HangUp}
    /\ ready' = [ready EXCEPT ![c] = @ \ {e}]
    /\ Withdraw(c, {e})
    /\ UNCHANGED <<chan, pc, stage, cur, active, capacity, quit>>

(* EventLoop::quit(): quit_ is atomic, so any thread may call it, at any     *)
(* moment; nothing wakes the loop.                                           *)
Quit ==
    /\ pc \notin {"exit", "dead"}
    /\ quit' = TRUE
    /\ UNCHANGED <<chan, ready, pc, stage, cur, active, capacity, withdrawn>>

(* The kernel: a descriptor becomes readable or writable, or is hung up. *)
Arrive(c, e) ==
    /\ pc # "dead"
    /\ e \in Conditions \ ready[c]
    /\ ready' = [ready EXCEPT ![c] = @ \cup {e}]
    /\ UNCHANGED <<chan, pc, stage, cur, active, capacity, quit, withdrawn>>

-----------------------------------------------------------------------------
(* EventLoop::loop() is entered. *)
EnterLoop ==
    /\ pc = "setup"
    /\ pc' = "poll"
    /\ UNCHANGED <<chan, ready, stage, cur, active, capacity, quit, withdrawn>>

ReadyChannels == {c \in Channels : Reported(chan[c], ready[c]) # {}}

(* Mutants: the array is never enlarged; after every batch; it is shrunk to   *)
(* one entry less than the batch.                                             *)
GrownNever(n) == capacity
GrownAlways(n) == capacity * 2
(* activeEvents_ is doubled when epoll_wait filled it. *)
Grown(n) == IF n = capacity THEN capacity * 2 ELSE capacity

(* Mutant: setReturnEvents() adds to what an earlier batch reported. *)
ReportAdded(c) == [chan[c] EXCEPT !.revents = @ \cup Reported(chan[c], ready[c])]

(* Epoller::poll() stores what the kernel reported in the channel. *)
Report(c) == [chan[c] EXCEPT !.revents = Reported(chan[c], ready[c])]

(* Mutant: the loop does not look at quit_ again. *)
LoopForever == TRUE

(* The condition of loop()'s while. *)
LoopCondition == ~quit

(* loop() looks at quit_ and calls epoll_wait. *)
StartPoll ==
    /\ pc = "poll"
    /\ LoopCondition
    /\ pc' = "wait"
    /\ UNCHANGED <<chan, ready, stage, cur, active, capacity, quit, withdrawn>>

(* Epoller::poll(): level-triggered, blocking, as many channels as fit. *)
Poll ==
    /\ pc = "wait"
    /\ ReadyChannels # {}
    /\ \E A \in SUBSET ReadyChannels :
          /\ Cardinality(A) <= capacity
          /\ A = ReadyChannels \/ Cardinality(A) = capacity
          /\ active' = A
          /\ chan' = [c \in Channels |->
                        IF c \in A THEN Report(c) ELSE chan[c]]
          /\ capacity' = Grown(Cardinality(A))
    /\ pc' = "dispatch"
    /\ UNCHANGED <<ready, stage, cur, quit, withdrawn>>

(* The next active channel's handleEvents(). *)
StartHandle ==
    /\ pc = "dispatch"
    /\ \E c \in active :
          /\ cur' = c
          /\ active' = active \ {c}
    /\ stage' = "HUP"
    /\ pc' = "handle"
    /\ UNCHANGED <<chan, ready, capacity, quit, withdrawn>>

(* A callback returns, or its event was not reported. *)
EndStage ==
    /\ pc = "handle"
    /\ stage' = IF stage = "HUP" THEN "IN" ELSE "OUT"
    /\ pc' = IF stage = "OUT" THEN "dispatch" ELSE pc
    /\ UNCHANGED <<chan, ready, cur, active, capacity, quit, withdrawn>>

(* The batch is finished: the loop's condition is evaluated. *)
EndBatch ==
    /\ pc = "dispatch"
    /\ active = {}
    /\ pc' = "poll"
    /\ withdrawn' = [c \in Channels |-> {}]
    /\ UNCHANGED <<chan, ready, stage, cur, active, capacity, quit>>

LeaveLoop ==
    /\ pc = "poll"
    /\ ~LoopCondition
    /\ pc' = "exit"
    /\ UNCHANGED <<chan, ready, stage, cur, active, capacity, quit, withdrawn>>

LoopStep ==
    \/ EnterLoop
    \/ StartPoll
    \/ Poll
    \/ StartHandle
    \/ EndStage
    \/ EndBatch
    \/ LeaveLoop

Next ==
    \/ LoopStep
    \/ \E c \in Channels : Call(c)
    \/ \E c \in Channels, e \in Interest : Consume(c, e)
    \/ Quit
    \/ \E c \in Channels, e \in Conditions : Arrive(c, e)

(* The loop's thread is scheduled and every callback returns; nothing else  *)
(* is promised: no callback must make a call, no condition must arise.      *)
Spec == Init /\ [][Next]_vars /\ WF_vars(LoopStep)

-----------------------------------------------------------------------------
(* Whatever sequence of Channel's operations the callbacks make, status_ says *)
(* whether the descriptor is in the interest list, the kernel watches exactly *)
(* events_, and epoll_ctl never fails: the abort() of Epoller.cpp:93 is       *)
(* unreachable.                                                               *)
KernelMirror == \A c \in Channels : Mirrors(chan[c])

(* The event array never grows beyond twice what one epoll_wait can fill.     *)
(* (Epoller.cpp:41-44)                                                        *)
CapacityBound ==
    \/ capacity = InitEvents
    \/ capacity <= 2 * Cardinality(Channels)

(* handleEvents() acts on a copy of what epoll_wait reported, while the       *)
(* callbacks before it enable, disable, remove and read on any channel.  An    *)
(* event handled although epoll does not report it any more is one that a      *)
(* callback of this very batch disabled or consumed, or a hang-up of a channel *)
(* that watches nothing now: nothing is left from an earlier batch, and no     *)
(* call on a channel takes away another event, or one of another channel.      *)
(* (EventLoop.cpp:40-50, Channel.cpp:22-54, Epoller.cpp:30-39)                 *)
Handling == active \cup {c \in {cur} : pc = "handle"}
StaleEvents(c) == chan[c].revents \ Reported(chan[c], ready[c])
OnlyWithdrawnIsStale ==
    \A c \in Handling :
        /\ chan[c].revents # {}
        /\ \A e \in StaleEvents(c) :
              e \in withdrawn[c] \/ (e = HangUp /\ IsNoneEvent(chan[c]))

(* Level triggering and the growing event array leave no channel behind:     *)
(* a channel that epoll reports is handled, unless the condition or the       *)
(* registration goes away or the loop ends.  With more ready channels than    *)
(* the array holds, the kernel may leave out the same one every time.         *)
NoStarvation ==
    \A c \in Channels :
        Reported(chan[c], ready[c]) # {}
          ~> \/ pc = "handle" /\ cur = c
             \/ Reported(chan[c], ready[c]) = {}
             \/ pc \in {"exit", "dead"}

(* quit() ends the loop once the batch is finished.  Called from another     *)
(* thread after the loop has looked at quit_, it ends the loop with the next *)
(* event, which may never come.  (EventLoop.cpp:38-67)                       *)
QuitStops ==
    /\ quit /\ pc # "wait" ~> pc \in {"exit", "dead"}
    /\ quit ~> \/ pc \in {"exit", "dead"}
               \/ pc = "wait" /\ ReadyChannels = {}
=============================================================================
