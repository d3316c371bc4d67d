----------------------------- MODULE ByteStream -----------------------------
(***************************************************************************)
(* What a Buffer promises: a queue of bytes.  What is put in comes out     *)
(* once and in order; a call may drop bytes or hand them to its caller.    *)
(* `port' shows the bytes that crossed the interface last: without it a    *)
(* buffer that loses a part of what it is given would look like one that   *)
(* is given less.                                                          *)
(***************************************************************************)
EXTENDS Naturals, Sequences

CONSTANT Chunks     \* what may be put in at once

VARIABLES
    queue,          \* the bytes that wait
    port            \* the bytes that came in or went out last

streamVars == <<queue, port>>

Init ==
    /\ queue = <<>>
    /\ port = <<>>

Put(bytes) ==
    /\ queue' = queue \o bytes
    /\ port' = bytes

Drop(n) ==
    /\ queue' = SubSeq(queue, n + 1, Len(queue))
    /\ port' = <<>>

Take(n) ==
    /\ queue' = SubSeq(queue, n + 1, Len(queue))
    /\ port' = SubSeq(queue, 1, n)

Next ==
    \/ \E bytes \in Chunks : Put(bytes)
    \/ \E n \in 0..Len(queue) : Drop(n) \/ Take(n)

Spec == Init /\ [][Next]_streamVars
=============================================================================
