----------------------------- MODULE TimerQueue -----------------------------
(***************************************************************************)
(* TimerQueue and Timer (v1.7/src/TimerQueue.h, TimerQueue.cpp) in the     *)
(* event loop that owns them: a set of timers ordered by time, one timerfd *)
(* set for the first of them, and another channel of the same loop whose   *)
(* callback, like the timers' callbacks and the code before loop(), adds   *)
(* and cancels timers.                                                     *)
(*                                                                         *)
(* A timer is known by its address: it may be given out again once the     *)
(* timer is deleted.  Touching a deleted timer is undefined: the model     *)
(* stops there (`cause' tells why).  The unit of time is the nanosecond;   *)
(* system_clock and CLOCK_MONOTONIC are taken to advance together, time    *)
(* passes between any two steps, and not within one.                       *)
(***************************************************************************)
EXTENDS Integers

CONSTANTS
    Timers,         \* the addresses of timers
    NoTimer,        \* nullptr
    Scale,          \* 1000: durationFromNow() divides microseconds by nano::den
    MinDelay,       \* 1ms, the least it takes for a delay, in nanoseconds
    Delays,         \* arguments of runAfter()
    Intervals,      \* arguments of runEvery()
    Horizon,        \* bound: time passes the horizon only while no timer is handled
    MaxTime         \* bound: the end of time

ASSUME NoTimerAssumption == NoTimer \notin Timers \cup Int
ASSUME ScaleAssumption == Scale \in Nat \ {0}
ASSUME MinDelayAssumption == MinDelay \in Nat /\ Scale <= MinDelay
ASSUME DelaysAssumption == Delays \subseteq Int
ASSUME IntervalsAssumption == Intervals \subseteq Nat \ {0}
ASSUME BoundsAssumption == Horizon \in Nat /\ MaxTime \in Nat

VARIABLES
    now,        \* the time
    timer,      \* the Timer objects
    timerList,  \* timerList_, ordered by `when'
    timerfd,    \* {t} if it is set for t, {} if it is not set
    pc,         \* where the loop's thread is
    active,     \* activeChannels_ still to handle
    other,      \* the other channel's descriptor is readable
    expired,    \* what is left of handleTimingRead()'s vector
    curr,       \* its `curr'
    cur,        \* the timer whose callback runs
    calls,      \* history: what was called since epoll_wait returned
    told,       \* history: what happened to a timer last
    quit,       \* quit_
    cause       \* of the process's end, or "none"

vars == <<now, timer, timerList, timerfd, pc, active, other, expired, curr,
          cur, calls, told, quit, cause>>

Places == {"setup", "poll", "dispatch", "other", "timing", "callback",
           "exit", "gone", "dead"}

TypeOK ==
    /\ now \in Nat
    /\ timer \in [Timers -> [live : BOOLEAN, when : Int, interval : Nat]]
    /\ timerList \subseteq Timers
    /\ timerfd \subseteq Nat /\ \A t, u \in timerfd : t = u
    /\ pc \in Places
    /\ active \subseteq {"timer", "other"}
    /\ other \in BOOLEAN
    /\ expired \subseteq Timers
    /\ curr \in Nat
    /\ cur \in Timers \cup {NoTimer}
    /\ calls \subseteq {"arm", "cancel"}
    /\ quit \in BOOLEAN
    /\ cause \in {"none", "read", "expired", "freed"}

Init ==
    /\ now = 0
    /\ timer = [t \in Timers |-> [live |-> FALSE, when |-> 0, interval |-> 0]]
    /\ timerList = {}
    /\ timerfd = {}
    /\ pc = "setup"
    /\ active = {}
    /\ other = FALSE
    /\ expired = {}
    /\ curr = 0
    /\ cur = NoTimer
    /\ calls = {}
    /\ told = <<"none">>
    /\ quit = FALSE
    /\ cause = "none"

-----------------------------------------------------------------------------
(* durationFromNow(): at least MinDelay, and a thousand times too short. *)
DurationFromNow(when) ==
    (IF when - now < MinDelay THEN MinDelay ELSE when - now) \div Scale

(* setTimerfd(): the expiration is replaced, the ticks counted are lost. *)
SetTimerfd(when) == timerfd' = {now + DurationFromNow(when)}

(* epoll_wait reports the timerfd, and readTimerfd() succeeds. *)
TimerReady == \E t \in timerfd : t <= now

(* The timers of S that come first; equal times are ordered by address. *)
Earliest(S) == {t \in S : \A u \in S : timer[t].when <= timer[u].when}

InUserCode == pc \in {"setup", "other", "callback"}

-----------------------------------------------------------------------------
(* Mutant: a timer that becomes the first does not set the timerfd. *)
BecomesFirstIfEmpty(when) == {timerList = {}}

(* addTimer(): whether the timer is at timerList_.begin() after insert();    *)
(* among equal times the address decides.                                    *)
BecomesFirst(when) ==
    IF \E t \in timerList : timer[t].when < when THEN {FALSE}
    ELSE IF \E t \in timerList : timer[t].when = when THEN BOOLEAN
    ELSE {TRUE}

NewTimer(when, interval) ==
    [live |-> TRUE, when |-> when, interval |-> interval]

(* TimerQueue::addTimer(): `new' returns an address not in use.              *)
AddTimer(t, when, interval) ==
    /\ InUserCode
    /\ ~timer[t].live
    /\ t \notin expired \cup {cur}
    /\ timer' = [timer EXCEPT ![t] = NewTimer(when, interval)]
    /\ timerList' = timerList \cup {t}
    /\ \/ /\ TRUE \in BecomesFirst(when)
          /\ SetTimerfd(when)
          /\ calls' = calls \cup {"arm"}
       \/ /\ FALSE \in BecomesFirst(when)
          /\ UNCHANGED <<timerfd, calls>>
    /\ told' = <<"set", t>>
    /\ UNCHANGED <<now, pc, active, other, expired, curr, cur, quit, cause>>

RunAt(t, when) == AddTimer(t, when, 0)

RunAfter(t, delay) == RunAt(t, now + delay)

RunEvery(t, interval) == AddTimer(t, now + interval, interval)

(* TimerQueue::cancelTimer(): the timer is deleted whether or not it waits   *)
(* in `expired' or runs; the timerfd stays set.                              *)
CancelTimer(t) ==
    /\ InUserCode
    /\ timer[t].live
    /\ timer' = [timer EXCEPT ![t].live = FALSE]
    /\ timerList' = timerList \ {t}
    /\ calls' = calls \cup {"cancel"}
    /\ told' = <<"cancel", t>>
    /\ UNCHANGED <<now, timerfd, pc, active, other, expired, curr, cur, quit, cause>>

Quit ==
    /\ InUserCode
    /\ quit' = TRUE
    /\ UNCHANGED <<now, timer, timerList, timerfd, pc, active, other, expired,
                   curr, cur, calls, told, cause>>

-----------------------------------------------------------------------------
(* Time passes, also while handlers run; past the horizon only if the queue *)
(* has nothing to do.                                                        *)
Tick ==
    /\ pc \notin {"gone", "dead"}
    /\ \/ now < Horizon
       \/ now < MaxTime /\ ~TimerReady /\ pc \notin {"timing", "callback"}
    /\ now' = now + 1
    /\ UNCHANGED <<timer, timerList, timerfd, pc, active, other, expired, curr,
                   cur, calls, told, quit, cause>>

(* The other channel becomes readable; it makes no difference before the     *)
(* loop polls.                                                               *)
OtherArrives ==
    /\ pc = "poll"
    /\ other' = TRUE
    /\ UNCHANGED <<now, timer, timerList, timerfd, pc, active, expired, curr,
                   cur, calls, told, quit, cause>>

Goto(place) ==
    /\ pc' = place
    /\ UNCHANGED <<now, timer, timerList, timerfd, active, other, expired, curr,
                   cur, calls, told, quit, cause>>

EnterLoop == pc = "setup" /\ Goto("poll")

(* Epoller::poll() returns with the channels that are ready. *)
Poll ==
    /\ pc = "poll"
    /\ ~quit
    /\ TimerReady \/ other
    /\ active' = {c \in {"timer", "other"} :
                    IF c = "timer" THEN TimerReady ELSE other}
    /\ calls' = {}
    /\ pc' = "dispatch"
    /\ UNCHANGED <<now, timer, timerList, timerfd, other, expired, curr, cur,
                   told, quit, cause>>

(* The other channel's callback consumes what made it readable. *)
StartOther ==
    /\ pc = "dispatch"
    /\ "other" \in active
    /\ active' = active \ {"other"}
    /\ other' = FALSE
    /\ pc' = "other"
    /\ UNCHANGED <<now, timer, timerList, timerfd, expired, curr, cur, calls,
                   told, quit, cause>>

EndOther == pc = "other" /\ Goto("dispatch")

(* getExpired(): the entries below <curr + 1ns, UINTPTR_MAX>. *)
GetExpired == {t \in timerList : timer[t].when <= now + 1}

(* handleTimingRead() as far as its loop: read() of a timerfd without        *)
(* expirations fails.                                                        *)
StartTiming ==
    /\ pc = "dispatch"
    /\ "timer" \in active
    /\ active' = active \ {"timer"}
    /\ IF TimerReady
         THEN /\ timerfd' = {}
              /\ curr' = now
              /\ expired' = GetExpired
              /\ timerList' = timerList \ GetExpired
              /\ pc' = "timing"
              /\ UNCHANGED cause
         ELSE /\ pc' = "dead"
              /\ cause' = "read"
              /\ UNCHANGED <<timerfd, curr, expired, timerList>>
    /\ UNCHANGED <<now, timer, other, cur, calls, told, quit>>

Die(why) ==
    /\ pc' = "dead"
    /\ cause' = why
    /\ UNCHANGED <<now, timer, timerList, timerfd, active, other, expired, curr,
                   cur, calls, told, quit>>

(* Mutants: the assertion is not there; a timer is not due at its time yet. *)
IsExpiredAlways(t) == TRUE
IsExpiredBefore(t) == timer[t].when < curr

(* Timer::expired(curr) *)
IsExpired(t) == timer[t].when <= curr

(* The loop takes the next entry and runs its callback. *)
RunTimer(t) ==
    /\ pc = "timing"
    /\ t \in Earliest(expired)
    /\ timer[t].live
    /\ IsExpired(t)
    /\ pc' = "callback"
    /\ cur' = t
    /\ expired' = expired \ {t}
    /\ told' = <<"run", t>>
    /\ UNCHANGED <<now, timer, timerList, timerfd, active, other, curr, calls,
                   quit, cause>>

(* The next entry was cancelled by a callback before it. *)
TouchFreed(t) ==
    /\ pc = "timing"
    /\ t \in Earliest(expired)
    /\ ~timer[t].live
    /\ Die("freed")

(* assert(timer->expired(curr)) *)
AssertExpired(t) ==
    /\ pc = "timing"
    /\ t \in Earliest(expired)
    /\ timer[t].live
    /\ ~IsExpired(t)
    /\ Die("expired")

(* Timer::restart() *)
Restarted(t) == timer[t].when + timer[t].interval

(* Is the timer kept after its callback? *)
NeedRepeated(t) == timer[t].interval > 0

(* The callback returned: restart() and insert(), or delete. *)
EndCallback ==
    /\ pc = "callback"
    /\ timer[cur].live
    /\ pc' = "timing"
    /\ cur' = NoTimer
    /\ IF NeedRepeated(cur)
         THEN /\ timer' = [timer EXCEPT ![cur].when = Restarted(cur)]
              /\ timerList' = timerList \cup {cur}
         ELSE /\ timer' = [timer EXCEPT ![cur].live = FALSE]
              /\ UNCHANGED timerList
    /\ UNCHANGED <<now, timerfd, active, other, expired, curr, calls, told, quit,
                   cause>>

(* The callback cancelled its own timer: isCanceled() reads freed memory. *)
TouchOwnFreed ==
    /\ pc = "callback"
    /\ ~timer[cur].live
    /\ Die("freed")

(* Mutant: the timerfd is not set again. *)
RearmsNever == FALSE

(* Is the timerfd set again after the batch? *)
Rearms == timerList # {}

(* The end of handleTimingRead(). *)
EndTiming ==
    /\ pc = "timing"
    /\ expired = {}
    /\ IF Rearms
         THEN /\ \E t \in Earliest(timerList) : SetTimerfd(timer[t].when)
              /\ calls' = calls \cup {"arm"}
         ELSE UNCHANGED <<timerfd, calls>>
    /\ curr' = 0
    /\ pc' = "dispatch"
    /\ UNCHANGED <<now, timer, timerList, active, other, expired, cur, told,
                   quit, cause>>

EndBatch == pc = "dispatch" /\ active = {} /\ Goto("poll")

LeaveLoop == pc = "poll" /\ quit /\ Goto("exit")

(* Mutant: the destructor leaves the timers alone. *)
DestroyedNone == {}

(* The timers that ~TimerQueue() deletes. *)
Destroyed == timerList

(* TimerQueue::~TimerQueue() *)
Destroy ==
    /\ pc = "exit"
    /\ pc' = "gone"
    /\ timer' = [t \in Timers |-> IF t \in Destroyed
                                    THEN [timer[t] EXCEPT !.live = FALSE]
                                    ELSE timer[t]]
    /\ timerList' = {}
    /\ timerfd' = {}
    /\ told' = <<"drop">>
    /\ UNCHANGED <<now, active, other, expired, curr, cur, calls, quit, cause>>

HandleTimingRead ==
    \/ StartTiming
    \/ \E t \in Timers : RunTimer(t) \/ TouchFreed(t) \/ AssertExpired(t)
    \/ EndCallback
    \/ TouchOwnFreed
    \/ EndTiming

LoopStep ==
    \/ EnterLoop
    \/ Poll
    \/ StartOther
    \/ EndOther
    \/ HandleTimingRead
    \/ EndBatch
    \/ LeaveLoop
    \/ Destroy

UserStep ==
    \/ \E t \in Timers, d \in Delays : RunAfter(t, d)
    \/ \E t \in Timers, i \in Intervals : RunEvery(t, i)
    \/ \E t \in Timers : CancelTimer(t)
    \/ Quit

Next == LoopStep \/ UserStep \/ Tick \/ OtherArrives

(* The loop's thread is scheduled, every callback returns, and time passes. *)
Spec == Init /\ [][Next]_vars /\ WF_vars(LoopStep) /\ WF_vars(Tick)

-----------------------------------------------------------------------------
(* Whenever the loop waits or is about to, a queue that is not empty has the *)
(* timerfd set, and for a time no later than its first timer, or than the    *)
(* least delay from now if that timer is overdue: adding, cancelling,        *)
(* running and repeating timers never leaves one without a wake-up.          *)
(* (TimerQueue.cpp:109-128, 158-161)                                         *)
NotLate ==
    pc \in {"setup", "poll", "dispatch", "other"} =>
        \A t \in timerList : \E e \in timerfd :
            e <= timer[t].when \/ e <= now + MinDelay

(* Every Timer object is in exactly one place: in the list, in the batch     *)
(* being handled, or running; the list holds no deleted timer, and nothing   *)
(* is left when the queue is destroyed.  (TimerQueue.cpp:98-156)             *)
Owned ==
    /\ \A t \in timerList : timer[t].live /\ t \notin expired /\ t # cur
    /\ \A t \in Timers : timer[t].live => t \in timerList \cup expired \cup {cur}
    /\ pc = "gone" => \A t \in Timers : ~timer[t].live

(* The process ends badly in three ways only: the read of the timerfd fails  *)
(* after an earlier handler of the same batch has set it anew, a timer of    *)
(* the batch is due in the very next nanosecond, or a callback of the batch  *)
(* cancelled a timer that was already taken from the list.                   *)
(* (TimerQueue.cpp:28, 140-156)                                              *)
DeathCauses ==
    /\ cause = "read" => "arm" \in calls /\ timerfd # {}
    /\ cause = "expired" => \E t \in expired : timer[t].when = curr + 1
    /\ cause = "freed" => "cancel" \in calls

-----------------------------------------------------------------------------
(* When the alarm t is due next: a repeated timer whose callback runs is due *)
(* a period later, a timer in the batch is still pending.                    *)
Due(t) ==
    IF ~timer[t].live THEN NoTimer
    ELSE IF t # cur THEN timer[t].when
    ELSE IF NeedRepeated(t) THEN timer[t].when + timer[t].interval
    ELSE NoTimer

Queue == INSTANCE Alarms WITH
            Alarm <- Timers,
            Off <- NoTimer,
            clock <- now,
            due <- [t \in Timers |-> Due(t)],
            period <- [t \in Timers |-> timer[t].interval]

(* The queue implements Alarms: no timer runs before it is due, none is      *)
(* lost, none runs twice for one period or after it was cancelled.           *)
AlarmsSpec == Queue!Spec

(* Although the timerfd is set too early again and again, every timer runs   *)
(* in the end, unless it is cancelled or the loop ends.                      *)
EventuallyRuns ==
    \A t \in Timers :
        t \in timerList /\ timer[t].when <= Horizon
          ~> \/ pc \in {"callback", "timing"} /\ cur = t
             \/ ~timer[t].live
             \/ pc \in {"exit", "gone", "dead"}
=============================================================================
