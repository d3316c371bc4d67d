---------------------------- MODULE EchoService -----------------------------
(***************************************************************************)
(* What an echo server promises its clients: whoever waits may be served,  *)
(* the answer is what the client said, in order and so far as it goes, and *)
(* a client is let go only after it ended, one that merely said good-bye   *)
(* not before everything it said was answered.                             *)
(***************************************************************************)
EXTENDS Naturals, Sequences

CONSTANT Clients

VARIABLES
    status,     \* where each client is
    said,       \* what it has said
    answer,     \* what was answered
    ended       \* whether it goes on, said good-bye, or was cut off

serviceVars == <<status, said, answer, ended>>

Init ==
    /\ status = [c \in Clients |-> "away"]
    /\ said = [c \in Clients |-> <<>>]
    /\ answer = [c \in Clients |-> <<>>]
    /\ ended = [c \in Clients |-> "no"]

Here(c) == status[c] \in {"waiting", "served"}

Arrive(c) ==
    /\ status[c] = "away"
    /\ status' = [status EXCEPT ![c] = "waiting"]
    /\ UNCHANGED <<said, answer, ended>>

Say(c) ==
    /\ Here(c)
    /\ ended[c] = "no"
    /\ said' = [said EXCEPT ![c] = Append(@, Len(@) + 1)]
    /\ UNCHANGED <<status, answer, ended>>

End(c, how) ==
    /\ Here(c)
    /\ ended[c] \in {"no", "bye"} \ {how}
    /\ ended' = [ended EXCEPT ![c] = how]
    /\ UNCHANGED <<status, said, answer>>

Serve(c) ==
    /\ status[c] = "waiting"
    /\ status' = [status EXCEPT ![c] = "served"]
    /\ UNCHANGED <<said, answer, ended>>

Answer(c) ==
    /\ status[c] = "served"
    /\ ended[c] # "cut"
    /\ \E n \in Len(answer[c]) + 1 .. Len(said[c]) :
          answer' = [answer EXCEPT ![c] = SubSeq(said[c], 1, n)]
    /\ UNCHANGED <<status, said, ended>>

LetGo(c) ==
    /\ status[c] = "served"
    /\ \/ ended[c] = "bye" /\ answer[c] = said[c]
       \/ ended[c] = "cut"
    /\ status' = [status EXCEPT ![c] = "closed"]
    /\ UNCHANGED <<said, answer, ended>>

Next ==
    \E c \in Clients :
        \/ Arrive(c) \/ Say(c) \/ Serve(c) \/ Answer(c) \/ LetGo(c)
        \/ \E how \in {"bye", "cut"} : End(c, how)

Spec == Init /\ [][Next]_serviceVars
=============================================================================
