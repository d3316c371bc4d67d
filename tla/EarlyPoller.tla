---------------------------- MODULE EarlyPoller -----------------------------
(***************************************************************************)
(* EventLoop, Epoller and Channel of v1.3/src under any callbacks: a       *)
(* callback may call every operation of every channel, consume what made   *)
(* its descriptor ready, and quit.  The event array never grows; the       *)
(* kernel serves its ready list in turn, which `turn' orders.              *)
(***************************************************************************)
EXTENDS EarlyChannel, Naturals, FiniteSets

CONSTANTS
    Channels,       \* the channels of the loop
    Conditions,     \* bound: the conditions that arise
    MaxEventNums    \* size of activeEvents_

VARIABLES
    chan,       \* the channels with their registrations
    ready,      \* the conditions of each descriptor
    pc,         \* where the loop is
    stage,      \* which `if' of handleEvents()
    batch,      \* activeChannels_ from the one handled on, in the order of turn
    turn,       \* the kernel's ready list: who is before whom
    quit        \* quit_

vars == <<chan, ready, pc, stage, batch, turn, quit>>

(* A strict total order. *)
IsList(order) ==
    /\ order \subseteq Channels \X Channels
    /\ \A c \in Channels : <<c, c>> \notin order
    /\ \A c, d \in Channels : c # d => (<<c, d>> \in order <=> <<d, c>> \notin order)
    /\ \A b, c, d \in Channels :
          <<b, c>> \in order /\ <<c, d>> \in order => <<b, d>> \in order

TypeOK ==
    /\ chan \in [Channels -> ChannelType]
    /\ ready \in [Channels -> SUBSET Events]
    /\ pc \in {"setup", "poll", "handle", "exit", "dead"}
    /\ stage \in {"HUP", "IN", "OUT"}
    /\ batch \subseteq Channels /\ Cardinality(batch) <= MaxEventNums
    /\ IsList(turn)
    /\ quit \in BOOLEAN

Init ==
    /\ chan = [c \in Channels |-> NewChannel]
    /\ ready = [c \in Channels |-> {}]
    /\ pc = "setup"
    /\ stage = "HUP"
    /\ batch = {}
    /\ turn \in {order \in SUBSET (Channels \X Channels) : IsList(order)}
    /\ quit = FALSE

(* Who is before c, and who of them is first. *)
Before(c, S) == {d \in S : <<d, c>> \in turn}
First(S) == CHOOSE c \in S : Before(c, S) = {}

(* User code: before loop(), and in the callback of a reported event. *)
InUserCode ==
    \/ pc = "setup"
    \/ pc = "handle" /\ stage \in chan[First(batch)].revents

Call(c) ==
    /\ InUserCode
    /\ \E ch \in Operations(chan[c]) :
          /\ chan' = [chan EXCEPT ![c] = ch]
          /\ pc' = IF ch.aborted THEN "dead" ELSE pc
    /\ UNCHANGED <<ready, stage, batch, turn, quit>>

Consume(c, e) ==
    /\ InUserCode
    /\ e \in ready[c] \cap Interest
    /\ ready' = [ready EXCEPT ![c] = @ \ {e}]
    /\ UNCHANGED <<chan, pc, stage, batch, turn, quit>>

Quit ==
    /\ InUserCode
    /\ quit' = TRUE
    /\ UNCHANGED <<chan, ready, pc, stage, batch, turn>>

Arrive(c, e) ==
    /\ e \notin ready[c]
    /\ ready' = [ready EXCEPT ![c] = @ \cup {e}]
    /\ UNCHANGED <<chan, pc, stage, batch, turn, quit>>

EnterLoop ==
    /\ pc = "setup"
    /\ pc' = "poll"
    /\ UNCHANGED <<chan, ready, stage, batch, turn, quit>>

LoopCondition == ~quit

IsReported(c) == Reported(chan[c], ready[c]) # {}

Waiting == {c \in Channels : IsReported(c)}

(* Mutant: one entry of the array is never used. *)
ServedShort == {c \in Waiting : Cardinality(Before(c, Waiting)) < MaxEventNums - 1}

(* What fits into activeEvents_. *)
Served == {c \in Waiting : Cardinality(Before(c, Waiting)) < MaxEventNums}

(* Those that are served go to the end of the list. *)
ToTheEnd(served) ==
    {pair \in turn : pair[1] \notin served \/ pair[2] \in served}
      \cup ((Channels \ served) \X served)

(* setReturnEvents() *)
Report(c) == [chan[c] EXCEPT !.revents = Reported(chan[c], ready[c])]

(* Epoller::poll() *)
Poll ==
    /\ pc = "poll"
    /\ LoopCondition
    /\ Served # {}
    /\ batch' = Served
    /\ turn' = ToTheEnd(Served)
    /\ chan' = [c \in Channels |-> IF c \in Served THEN Report(c) ELSE chan[c]]
    /\ stage' = "HUP"
    /\ pc' = "handle"
    /\ UNCHANGED <<ready, quit>>

(* A callback of handleEvents() returns, or its event was not reported. *)
EndStage ==
    /\ pc = "handle"
    /\ IF stage = "OUT"
       THEN /\ batch' = batch \ {First(batch)}
            /\ stage' = "HUP"
            /\ pc' = IF batch' = {} THEN "poll" ELSE pc
       ELSE /\ stage' = IF stage = "HUP" THEN "IN" ELSE "OUT"
            /\ UNCHANGED <<batch, pc>>
    /\ UNCHANGED <<chan, ready, turn, quit>>

LeaveLoop ==
    /\ pc = "poll"
    /\ ~LoopCondition
    /\ pc' = "exit"
    /\ UNCHANGED <<chan, ready, stage, batch, turn, quit>>

LoopStep == EnterLoop \/ Poll \/ EndStage \/ LeaveLoop

Running == pc \notin {"exit", "dead"}

Next ==
    \/ LoopStep
    \/ \E c \in Channels : Call(c)
    \/ \E c \in Channels, e \in Interest : Consume(c, e)
    \/ Quit
    \/ Running /\ \E c \in Channels, e \in Conditions : Arrive(c, e)

(* The loop goes on and its callbacks return. *)
Spec == Init /\ [][Next]_vars /\ WF_vars(LoopStep)

-----------------------------------------------------------------------------
(* After any sequence of calls polling_ says whether the descriptor is        *)
(* registered, epoll watches events_, and no epoll_ctl() fails.               *)
(* (Epoller.cpp:37-71)                                                        *)
KernelMirror == \A c \in Channels : Mirrors(chan[c])
=============================================================================
