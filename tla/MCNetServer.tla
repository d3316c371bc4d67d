---------------------------- MODULE MCNetServer -----------------------------
(* NetServer for TLC.  Application messages are two bytes that no peer sends *)
(* and the kernel takes one byte at a time, so that every write is short.    *)
EXTENDS NetServer, TLC

MCMessage == <<101, 102>>

(* No action tells one connection from another. *)
MCSymmetry == Permutations(Conns)
=============================================================================
