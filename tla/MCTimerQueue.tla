---------------------------- MODULE MCTimerQueue ----------------------------
(* TimerQueue for TLC: two timers within a horizon of three nanoseconds, a   *)
(* timerfd set for half of the delay and at least two nanoseconds' worth.    *)
EXTENDS TimerQueue

MCDelays == {0, 6}
MCIntervals == {2}

=============================================================================
