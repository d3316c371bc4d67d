------------------------------- MODULE Alarms -------------------------------
(***************************************************************************)
(* What a queue of timers promises: an alarm runs when it is due, never    *)
(* before and never after it was cancelled; one without an interval once,  *)
(* one with an interval once per period; none is lost.  `told' shows what  *)
(* the queue did last: without it an alarm that is lost would look like    *)
(* one that is cancelled.                                                  *)
(***************************************************************************)
EXTENDS Integers

CONSTANTS Alarm, Off        \* the alarms; what is no time

VARIABLES
    clock,      \* the time
    due,        \* when each pending alarm is due, Off if it is not pending
    period,     \* its interval, 0 if it runs once
    told        \* what happened last, and to which alarm

alarmVars == <<clock, due, period, told>>

Init ==
    /\ clock = 0
    /\ due = [a \in Alarm |-> Off]
    /\ period = [a \in Alarm |-> 0]
    /\ told = <<"none">>

Advance ==
    /\ clock' = clock + 1
    /\ UNCHANGED <<due, period, told>>

Set(a) ==
    /\ due[a] = Off
    /\ due' = [due EXCEPT ![a] = due'[a]]
    /\ due'[a] # Off
    /\ period' = [period EXCEPT ![a] = period'[a]]
    /\ told' = <<"set", a>>
    /\ UNCHANGED clock

(* Cancelling an alarm that runs for the last time changes nothing. *)
Cancel(a) ==
    /\ due' = [due EXCEPT ![a] = Off]
    /\ told' = <<"cancel", a>>
    /\ UNCHANGED <<clock, period>>

Fire(a) ==
    /\ due[a] # Off
    /\ due[a] <= clock
    /\ due' = [due EXCEPT ![a] = IF period[a] = 0 THEN Off ELSE @ + period[a]]
    /\ told' = <<"run", a>>
    /\ UNCHANGED <<clock, period>>

(* The queue is destroyed. *)
Drop ==
    /\ due' = [a \in Alarm |-> Off]
    /\ told' = <<"drop">>
    /\ UNCHANGED <<clock, period>>

Next ==
    \/ Advance
    \/ \E a \in Alarm : Set(a) \/ Cancel(a) \/ Fire(a)
    \/ Drop

Spec == Init /\ [][Next]_alarmVars
=============================================================================
