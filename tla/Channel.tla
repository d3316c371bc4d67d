------------------------------ MODULE Channel ------------------------------
(***************************************************************************)
(* One file descriptor's registration with the poller: class Channel       *)
(* (v1.7/src/Channel.{h,cpp}) and the bookkeeping that Epoller keeps in    *)
(* Channel::status_ (v1.7/src/Epoller.cpp), next to the kernel's own view  *)
(* of the same descriptor.  A module of operators from one channel record  *)
(* to the next; it has no state of its own.  Poller and NetServer use it.  *)
(*                                                                         *)
(* `added' and `mask' are the kernel's interest list entry, which the      *)
(* program only reaches through epoll_ctl; the other fields are members of *)
(* the C++ object.  `fault' is set where the code calls abort() or an      *)
(* assert fails: the process is over.                                      *)
(***************************************************************************)

ReadableEvent == "IN"
WritableEvent == "OUT"
HangUp == "HUP"

Interest == {ReadableEvent, WritableEvent}
Events == Interest \cup {HangUp}
Faults == {"none", "assert", "epoll_ctl"}

ChannelType ==
    [events  : SUBSET Interest,             \* events_
     revents : SUBSET Events,               \* revents_, of the last epoll_wait
     status  : {"NEW", "ADDED", "DEL"},     \* status_
     added   : BOOLEAN,                     \* in the epoll interest list
     mask    : SUBSET Interest,             \* the events epoll watches for it
     fault   : Faults]

NewChannel ==
    [events |-> {}, revents |-> {}, status |-> "NEW",
     added |-> FALSE, mask |-> {}, fault |-> "none"]

IsNoneEvent(ch) == ch.events = {}
IsWriting(ch) == WritableEvent \in ch.events

-----------------------------------------------------------------------------
(* epoll_ctl(2): ADD of a registered descriptor is EEXIST, MOD and DEL of an *)
(* unregistered one ENOENT; Epoller::updateChannel(channel, op) then aborts. *)
EpollCtl(ch, op) ==
    IF ch.added <=> op = "ADD"
    THEN [ch EXCEPT !.fault = "epoll_ctl"]
    ELSE IF op = "DEL"
         THEN [ch EXCEPT !.added = FALSE, !.mask = {}]
         ELSE [ch EXCEPT !.added = TRUE, !.mask = ch.events]

(* Mutant: a channel that was deleted from the interest list is modified. *)
UpdateChannelNewOnly(ch) ==
    IF ch.status = "NEW"
    THEN EpollCtl([ch EXCEPT !.status = "ADDED"], "ADD")
    ELSE IF ~IsNoneEvent(ch)
         THEN EpollCtl(ch, "MOD")
         ELSE EpollCtl([ch EXCEPT !.status = "DEL"], "DEL")

(* Mutant: the status is set to DEL, the kernel is not told. *)
UpdateChannelForgets(ch) ==
    IF ch.status \in {"NEW", "DEL"}
    THEN EpollCtl([ch EXCEPT !.status = "ADDED"], "ADD")
    ELSE IF ~IsNoneEvent(ch)
         THEN EpollCtl(ch, "MOD")
         ELSE [ch EXCEPT !.status = "DEL"]

(* Epoller::updateChannel(channel): which operation, from status_ and events_. *)
UpdateChannel(ch) ==
    IF ch.status \in {"NEW", "DEL"}
    THEN EpollCtl([ch EXCEPT !.status = "ADDED"], "ADD")
    ELSE IF ~IsNoneEvent(ch)
         THEN EpollCtl(ch, "MOD")
         ELSE EpollCtl([ch EXCEPT !.status = "DEL"], "DEL")

SetEvents(ch, E) == UpdateChannel([ch EXCEPT !.events = E])

(* enabledReadable() and its four sisters: set events_, then update(). *)
EnabledReadable(ch) == SetEvents(ch, ch.events \cup {ReadableEvent})
EnabledWritable(ch) == SetEvents(ch, ch.events \cup {WritableEvent})
DisabledReadable(ch) == SetEvents(ch, ch.events \ {ReadableEvent})
DisabledWritable(ch) == SetEvents(ch, ch.events \ {WritableEvent})
DiabledAllEvents(ch) == SetEvents(ch, {})

(* Channel::remove() and Epoller::removeChannel(): both assert isNoneEvent(). *)
Remove(ch) ==
    IF ~IsNoneEvent(ch)
    THEN [ch EXCEPT !.fault = "assert"]
    ELSE [IF ch.status = "ADDED" THEN EpollCtl(ch, "DEL") ELSE ch
             EXCEPT !.status = "NEW"]

(* Every public operation that changes a channel's registration. *)
Operations(ch) ==
    {EnabledReadable(ch), EnabledWritable(ch), DisabledReadable(ch),
     DisabledWritable(ch), DiabledAllEvents(ch), Remove(ch)}

(* What epoll_wait reports for a channel whose descriptor has the conditions   *)
(* `ready': the ones it watches, and a hang-up whether it is watched or not.   *)
Reported(ch, ready) ==
    IF ch.added THEN ready \cap (ch.mask \cup {HangUp}) ELSE {}

(* The poller's bookkeeping agrees with the kernel. *)
Mirrors(ch) ==
    /\ ch.added <=> ch.status = "ADDED"
    /\ ch.added => ch.mask = ch.events
    /\ ch.fault # "epoll_ctl"
=============================================================================
