----------------------------- MODULE Connection -----------------------------
(***************************************************************************)
(* What a TcpConnection promises its application, whatever the peer and    *)
(* the application do: UP, then messages, then DOWN, each told once; the   *)
(* peer's bytes arrive in order, none twice and none left out, and only    *)
(* while the connection is up; the peer gets the bytes the application     *)
(* sent, in order.  The k-th byte of a peer is the number k.               *)
(***************************************************************************)
EXTENDS Integers, Sequences

CONSTANTS
    Conns,
    Burst           \* the most bytes that one message brings

VARIABLES
    told,           \* how often the application was told UP and DOWN
    read,           \* how many of the peer's bytes it was given
    input,          \* those of them that it left where they are
    asked,          \* what it sent
    got             \* what the peer has of it

promiseVars == <<told, read, input, asked, got>>

Nothing == <<0, 0>>
IsUp == <<1, 0>>
WasUp == <<1, 1>>

Init ==
    /\ told = [c \in Conns |-> Nothing]
    /\ read = [c \in Conns |-> 0]
    /\ input = [c \in Conns |-> <<>>]
    /\ asked = [c \in Conns |-> <<>>]
    /\ got = [c \in Conns |-> <<>>]

TellUp(c) ==
    /\ told[c] = Nothing
    /\ told' = [told EXCEPT ![c] = IsUp]
    /\ UNCHANGED <<read, input, asked, got>>

Bring(c, n) ==
    /\ told[c] = IsUp
    /\ read' = [read EXCEPT ![c] = @ + n]
    /\ input' = [input EXCEPT ![c] = @ \o [k \in 1..n |-> read[c] + k]]
    /\ UNCHANGED <<told, asked, got>>

TellDown(c) ==
    /\ told[c] = IsUp
    /\ told' = [told EXCEPT ![c] = WasUp]
    /\ UNCHANGED <<read, input, asked, got>>

(* The application takes the input, or it goes with the connection. *)
Take(c) ==
    /\ told[c] # Nothing
    /\ input' = [input EXCEPT ![c] = <<>>]
    /\ UNCHANGED <<told, read, asked, got>>

Send(c) ==
    /\ told[c] # Nothing
    /\ asked' = [asked EXCEPT ![c] = asked'[c]]
    /\ SubSeq(asked'[c], 1, Len(asked[c])) = asked[c]
    /\ UNCHANGED <<told, read, input, got>>

Echo(c) ==
    /\ told[c] # Nothing
    /\ asked' = [asked EXCEPT ![c] = @ \o input[c]]
    /\ input' = [input EXCEPT ![c] = <<>>]
    /\ UNCHANGED <<told, read, got>>

Deliver(c) ==
    /\ Len(got[c]) < Len(asked[c])
    /\ got' = [got EXCEPT ![c] = SubSeq(asked[c], 1, Len(@) + 1)]
    /\ UNCHANGED <<told, read, input, asked>>

Next ==
    \E c \in Conns :
        \/ TellUp(c) \/ TellDown(c)
        \/ \E n \in 1..Burst : Bring(c, n)
        \/ Take(c) \/ Send(c) \/ Echo(c)
        \/ Deliver(c)

Spec == Init /\ [][Next]_promiseVars
=============================================================================
