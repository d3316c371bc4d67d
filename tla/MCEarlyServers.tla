--------------------------- MODULE MCEarlyServers ---------------------------
(* EarlyServers for TLC.  Descriptors are short: for two of three peers in    *)
(* v1.0 and v1.2, for one in v1.3, for one and a half in v1.4 and v1.5.       *)
EXTENDS EarlyServers, TLC

Echo(p, m, r) == [peers |-> p, fds |-> 2, maxIn |-> m, sndBuf |-> 2, backlog |-> 1, read |-> r]

MCSize ==
    "1.0" :> Echo(3, 1, 1) @@
    "1.1" :> Echo(2, 2, 1) @@
    "1.2" :> Echo(2, 2, 2) @@
    "1.3" :> [peers |-> 4, fds |-> 1, maxIn |-> 0, sndBuf |-> 2, backlog |-> 3, read |-> 1] @@
    "1.4" :> [peers |-> 2, fds |-> 3, maxIn |-> 2, sndBuf |-> 1, backlog |-> 2, read |-> 1] @@
    "1.5" :> [peers |-> 2, fds |-> 3, maxIn |-> 3, sndBuf |-> 1, backlog |-> 2, read |-> 1]

(* Peers 1 and 3 come to the first acceptor, 2 and 4 to the second. *)
MCPort == <<1, 2, 1, 2>>

(* Two bytes, of which the kernel of v1.5 takes one. *)
MCTime == <<1, 2>>

MCConditions == {"IN", "HUP"}
=============================================================================
