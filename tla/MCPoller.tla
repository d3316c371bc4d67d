------------------------------ MODULE MCPoller ------------------------------
(* Poller for TLC: two channels that can be readable, and hung up, against   *)
(* an event array of one entry, so that the array fills, grows, and a        *)
(* channel can be left out of a batch.                                       *)
EXTENDS Poller

MCConditions == {ReadableEvent, HangUp}

=============================================================================
