---------------------------- MODULE EarlyChannel ----------------------------
(***************************************************************************)
(* A descriptor's registration as v1.3 to v1.5 keep it: class Channel with *)
(* the flag polling_ in place of a status, Epoller::updateChannel(), and   *)
(* the kernel's own view, `added' and `mask'.  Operators from one channel  *)
(* record to the next, for EarlyPoller, Acceptors13, Server14 and Server15.*)
(***************************************************************************)

Interest == {"IN", "OUT"}
Events == Interest \cup {"HUP"}

ChannelType ==
    [events : SUBSET Interest, revents : SUBSET Events, polling : BOOLEAN,
     added : BOOLEAN, mask : SUBSET Interest, aborted : BOOLEAN]

NewChannel ==
    [events |-> {}, revents |-> {}, polling |-> FALSE,
     added |-> FALSE, mask |-> {}, aborted |-> FALSE]

IsNoneEvent(ch) == ch.events = {}
IsWriting(ch) == "OUT" \in ch.events

(* epoll_ctl() fails if ADD finds the descriptor or the others do not; then   *)
(* updateChannel(channel, op) aborts.                                         *)
EpollCtl(ch, op) ==
    IF ch.added <=> op = "ADD" THEN [ch EXCEPT !.aborted = TRUE]
    ELSE IF op = "DEL" THEN [ch EXCEPT !.added = FALSE, !.mask = {}]
    ELSE [ch EXCEPT !.added = TRUE, !.mask = ch.events]

(* A channel that is not polled is added, also when it wants no event. *)
UpdateChannel(ch) ==
    IF ~ch.polling THEN EpollCtl([ch EXCEPT !.polling = TRUE], "ADD")
    ELSE IF ~IsNoneEvent(ch) THEN EpollCtl(ch, "MOD")
    ELSE EpollCtl([ch EXCEPT !.polling = FALSE], "DEL")

SetEvents(ch, E) == UpdateChannel([ch EXCEPT !.events = E])

EnabledReadable(ch) == SetEvents(ch, ch.events \cup {"IN"})
EnabledWritable(ch) == SetEvents(ch, ch.events \cup {"OUT"})
DisabledReadable(ch) == SetEvents(ch, ch.events \ {"IN"})
DisabledWritable(ch) == SetEvents(ch, ch.events \ {"OUT"})
DiabledAllEvents(ch) == SetEvents(ch, {})

Operations(ch) ==
    {EnabledReadable(ch), EnabledWritable(ch), DisabledReadable(ch),
     DisabledWritable(ch), DiabledAllEvents(ch)}

(* epoll_wait() reports what is watched, and a hang-up always. *)
Reported(ch, ready) == IF ch.added THEN ready \cap (ch.mask \cup {"HUP"}) ELSE {}

Mirrors(ch) ==
    /\ ch.polling <=> ch.added
    /\ ch.added => ch.mask = ch.events
    /\ ~ch.aborted
=============================================================================
