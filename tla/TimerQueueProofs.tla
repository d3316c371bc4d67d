-------------------------- MODULE TimerQueueProofs --------------------------
(***************************************************************************)
(* For every set of timers, every scale and least delay, and without the   *)
(* bounds on time: the queue never leaves a timer without a wake-up, owns  *)
(* every timer exactly once, dies in the known ways only, and implements   *)
(* Alarms.                                                                 *)
(***************************************************************************)
EXTENDS TimerQueue, TLAPS

(* A duration is a natural number, however it is scaled down. *)
LEMMA Scaled ==
    ASSUME NEW d \in Nat, NEW k \in Nat \ {0}
    PROVE  d \div k \in Nat /\ d \div k <= d
<1> DEFINE q == d \div k
           r == d % k
<1>1. q \in Int /\ r \in 0..(k - 1) /\ d = k * q + r
  BY SMT
<1>2. q >= 0
  BY <1>1
<1> HIDE DEF q
<1>3. k * q >= q
  BY <1>1, <1>2
<1>4. QED
  BY <1>1, <1>2, <1>3 DEF q

(* What setTimerfd() sets is not later than the timer or the least delay. *)
LEMMA DurationBound ==
    ASSUME now \in Nat, NEW when \in Int
    PROVE  /\ now + DurationFromNow(when) \in Nat
           /\ \/ now + DurationFromNow(when) <= when
              \/ now + DurationFromNow(when) <= now + MinDelay
<1> DEFINE d == IF when - now < MinDelay THEN MinDelay ELSE when - now
<1>1. d \in Nat
  BY MinDelayAssumption
<1>2. d \div Scale \in Nat /\ d \div Scale <= d
  BY <1>1, Scaled, ScaleAssumption
<1>3. DurationFromNow(when) = d \div Scale
  BY DEF DurationFromNow
<1>4. d = MinDelay \/ d = when - now
  OBVIOUS
<1> HIDE DEF d
<1>5. QED
  BY <1>1, <1>2, <1>3, <1>4, MinDelayAssumption

-----------------------------------------------------------------------------
(* What holds of the batch that handleTimingRead() works on. *)
BatchInv ==
    /\ pc \notin {"timing", "callback", "dead"} => expired = {}
    /\ pc \notin {"callback", "dead"} => cur = NoTimer
    /\ pc = "callback" => cur \in Timers \ expired
    /\ curr <= now
    /\ \A t \in expired : timer[t].when <= curr + 1
    /\ pc = "callback" => timer[cur].when <= curr + 1
    /\ \A t \in expired : timer[t].live \/ "cancel" \in calls
    /\ pc = "callback" => timer[cur].live \/ "cancel" \in calls

(* A reported timerfd stays readable unless a callback sets it again. *)
ReportInv ==
    /\ pc \in {"dispatch", "other"} /\ "timer" \in active =>
          TimerReady \/ ("arm" \in calls /\ timerfd # {})
    /\ pc \in {"timing", "callback"} => "timer" \notin active
    /\ (pc = "dead") <=> (cause # "none")

(* The inductive invariant. *)
IInv ==
    /\ TypeOK
    /\ NotLate
    /\ Owned
    /\ DeathCauses
    /\ BatchInv
    /\ ReportInv

USE NoTimerAssumption, MinDelayAssumption, ScaleAssumption, DelaysAssumption,
    IntervalsAssumption
USE DEF NewTimer

LEMMA InitIInv == Init => IInv
<1> SUFFICES ASSUME Init PROVE IInv
  OBVIOUS
<1>0. timer \in [Timers -> [live : BOOLEAN, when : Int, interval : Nat]]
  BY DEF Init
<1>1. TypeOK
  BY <1>0 DEF Init, TypeOK, Places
<1>2. \A t \in Timers : ~timer[t].live
  BY DEF Init
<1>3. NotLate /\ Owned /\ DeathCauses
  BY <1>2 DEF Init, NotLate, Owned, DeathCauses
<1>4. BatchInv /\ ReportInv
  BY DEF Init, BatchInv, ReportInv
<1>5. QED
  BY <1>1, <1>3, <1>4 DEF IInv

LEMMA AddTimerIInv ==
    ASSUME IInv, NEW t \in Timers, NEW when \in Int, NEW interval \in Nat,
           AddTimer(t, when, interval)
    PROVE  IInv'
<1> DEFINE d == now + DurationFromNow(when)
           new == NewTimer(when, interval)
<1>0. now \in Nat /\ timer \in [Timers -> [live : BOOLEAN, when : Int, interval : Nat]]
  BY DEF IInv, TypeOK
<1>1. d \in Nat /\ (d <= when \/ d <= now + MinDelay)
  BY <1>0, DurationBound
<1>2. timer' = [timer EXCEPT ![t] = new]
  BY DEF AddTimer
<1>3. /\ timer' \in [Timers -> [live : BOOLEAN, when : Int, interval : Nat]]
      /\ timer'[t] = new
      /\ \A u \in Timers : u # t => timer'[u] = timer[u]
  BY <1>0, <1>2
<1>4. /\ timerList' = timerList \cup {t}
      /\ InUserCode /\ ~timer[t].live /\ t \notin expired \cup {cur}
      /\ UNCHANGED <<now, pc, active, other, expired, curr, cur, quit, cause>>
  BY DEF AddTimer
<1>5. \/ /\ ~\E u \in timerList : timer[u].when < when
         /\ timerfd' = {d} /\ calls' = calls \cup {"arm"}
      \/ /\ \E u \in timerList : timer[u].when <= when
         /\ UNCHANGED <<timerfd, calls>>
  <2>1. CASE TRUE \in BecomesFirst(when) /\ SetTimerfd(when) /\ calls' = calls \cup {"arm"}
    BY <2>1 DEF BecomesFirst, SetTimerfd
  <2>2. CASE FALSE \in BecomesFirst(when) /\ UNCHANGED <<timerfd, calls>>
    <3>1. \/ \E u \in timerList : timer[u].when < when
          \/ \E u \in timerList : timer[u].when = when
      BY <2>2 DEF BecomesFirst
    <3>2. \A u \in timerList : timer[u].when \in Int
      BY <1>0 DEF IInv, TypeOK
    <3>3. QED
      BY <2>2, <3>1, <3>2
  <2>3. QED
    BY <2>1, <2>2 DEF AddTimer
<1> HIDE DEF d
<1>6. TypeOK'
  BY <1>0, <1>1, <1>3, <1>4, <1>5 DEF IInv, TypeOK
<1>7. NotLate'
  <2>1. SUFFICES ASSUME NEW u \in timerList', pc \in {"setup", "poll", "dispatch", "other"}
                 PROVE  \E e \in timerfd' : e <= timer'[u].when \/ e <= now + MinDelay
    BY <1>4 DEF NotLate
  <2>2. \A v \in timerList : /\ v # t
                             /\ timer'[v].when = timer[v].when
                             /\ timer[v].when \in Int
    BY <1>0, <1>3, <1>4 DEF IInv, TypeOK, Owned
  <2>3. timer'[t].when = when
    BY <1>3
  <2>4. \A v \in timerList : \E e \in timerfd : e <= timer[v].when \/ e <= now + MinDelay
    BY <2>1 DEF IInv, NotLate
  <2>5. \A e \in timerfd : e \in Nat
    BY DEF IInv, TypeOK
  <2>6. u = t \/ u \in timerList
    BY <2>1, <1>4
  <2>7. CASE timerfd' = {d} /\ ~\E v \in timerList : timer[v].when < when
    <3>1. timer'[u].when \in Int /\ when <= timer'[u].when
      BY <2>2, <2>3, <2>6, <2>7
    <3>2. QED
      BY <1>0, <1>1, <2>7, <3>1
  <2>8. CASE timerfd' = timerfd /\ \E v \in timerList : timer[v].when <= when
    <3>1. PICK v \in timerList : timer[v].when <= when
      BY <2>8
    <3>2. \E w \in timerList : timer[w].when <= timer'[u].when /\ timer[w].when \in Int
                              /\ timer'[u].when \in Int
      BY <2>2, <2>3, <2>6, <3>1
    <3>3. PICK w \in timerList : timer[w].when <= timer'[u].when /\ timer[w].when \in Int
                              /\ timer'[u].when \in Int
      BY <3>2
    <3>4. PICK e \in timerfd : e <= timer[w].when \/ e <= now + MinDelay
      BY <2>4
    <3>5. QED
      BY <2>5, <2>8, <3>3, <3>4
  <2>9. QED
    BY <1>5, <2>7, <2>8
<1>8. Owned' /\ DeathCauses'
  BY <1>0, <1>3, <1>4, <1>5 DEF IInv, TypeOK, Owned, DeathCauses, InUserCode, ReportInv
<1>9. BatchInv'
  BY <1>0, <1>3, <1>4, <1>5 DEF IInv, TypeOK, BatchInv, InUserCode
<1>10. ReportInv'
  BY <1>4, <1>5 DEF IInv, ReportInv, InUserCode, TimerReady
<1>11. QED
  BY <1>6, <1>7, <1>8, <1>9, <1>10 DEF IInv

LEMMA CancelTimerIInv ==
    ASSUME IInv, NEW t \in Timers, CancelTimer(t)
    PROVE  IInv'
<1>0. timer \in [Timers -> [live : BOOLEAN, when : Int, interval : Nat]]
  BY DEF IInv, TypeOK
<1>1. /\ timer' \in [Timers -> [live : BOOLEAN, when : Int, interval : Nat]]
      /\ \A u \in Timers : /\ timer'[u].when = timer[u].when
                           /\ u # t => timer'[u].live = timer[u].live
      /\ ~timer'[t].live
  BY <1>0 DEF CancelTimer
<1>2. /\ timerList' = timerList \ {t} /\ calls' = calls \cup {"cancel"} /\ InUserCode
      /\ UNCHANGED <<now, timerfd, pc, active, other, expired, curr, cur, quit, cause>>
  BY DEF CancelTimer
<1>3. TypeOK'
  BY <1>1, <1>2 DEF IInv, TypeOK
<1>4. NotLate' /\ Owned' /\ DeathCauses'
  BY <1>1, <1>2 DEF IInv, TypeOK, NotLate, Owned, DeathCauses, InUserCode, ReportInv
<1>5. BatchInv' /\ ReportInv'
  BY <1>1, <1>2 DEF IInv, TypeOK, BatchInv, ReportInv, TimerReady, InUserCode
<1>6. QED
  BY <1>3, <1>4, <1>5 DEF IInv

(* Time passes: nothing that holds of the timerfd stops to hold. *)
LEMMA TickIInv ==
    ASSUME IInv, Tick
    PROVE  IInv'
<1>1. now' = now + 1 /\ now \in Nat /\ curr \in Nat /\ pc \notin {"gone", "dead"}
  BY DEF IInv, TypeOK, Tick
<1>2. UNCHANGED <<timer, timerList, timerfd, pc, active, other, expired, curr,
                  cur, calls, told, quit, cause>>
  BY DEF Tick
<1>3. \A e \in timerfd : e \in Nat
  BY DEF IInv, TypeOK
<1>4. TypeOK' /\ Owned' /\ DeathCauses'
  BY <1>1, <1>2 DEF IInv, TypeOK, Owned, DeathCauses
<1>5. NotLate'
  BY <1>1, <1>2, <1>3 DEF IInv, NotLate, TypeOK
<1>6. BatchInv' /\ ReportInv'
  BY <1>1, <1>2, <1>3 DEF IInv, BatchInv, ReportInv, TimerReady
<1>7. QED
  BY <1>4, <1>5, <1>6 DEF IInv

(* The steps between the handlers. *)
LEMMA QuietIInv ==
    ASSUME IInv,
           Quit \/ OtherArrives \/ EnterLoop \/ Poll \/ StartOther \/ EndOther
             \/ EndBatch \/ LeaveLoop
    PROVE  IInv'
<1>1. UNCHANGED <<now, timer, timerList, timerfd, expired, curr, cur, cause>>
  BY DEF Quit, OtherArrives, EnterLoop, Poll, StartOther, EndOther, EndBatch,
         LeaveLoop, Goto
<1>2. \/ Quit /\ UNCHANGED <<pc, active, calls>> /\ pc \in {"setup", "other", "callback"}
      \/ OtherArrives /\ UNCHANGED <<pc, active, calls>> /\ pc = "poll"
      \/ pc = "setup" /\ pc' = "poll" /\ UNCHANGED <<active, calls>>
      \/ Poll /\ pc = "poll" /\ pc' = "dispatch" /\ ("timer" \in active' => TimerReady)
           /\ active' \subseteq {"timer", "other"} /\ calls' = {}
      \/ pc = "dispatch" /\ pc' = "other" /\ active' = active \ {"other"} /\ calls' = calls
      \/ pc = "other" /\ pc' = "dispatch" /\ UNCHANGED <<active, calls>>
      \/ pc = "dispatch" /\ active = {} /\ pc' = "poll" /\ UNCHANGED <<active, calls>>
      \/ pc = "poll" /\ pc' = "exit" /\ UNCHANGED <<active, calls>>
  BY DEF Quit, OtherArrives, EnterLoop, Poll, StartOther, EndOther, EndBatch,
         LeaveLoop, Goto, InUserCode
<1>3. quit' \in BOOLEAN /\ other' \in BOOLEAN
  BY DEF IInv, TypeOK, Quit, OtherArrives, EnterLoop, Poll, StartOther, EndOther,
         EndBatch, LeaveLoop, Goto
<1>4. TypeOK'
  BY <1>1, <1>2, <1>3 DEF IInv, TypeOK, Places
<1>5. cause = "none"
  BY <1>2 DEF IInv, ReportInv
<1>6. NotLate' /\ Owned' /\ DeathCauses'
  BY <1>1, <1>2, <1>5 DEF IInv, NotLate, Owned, DeathCauses
<1>7. BatchInv'
  BY <1>1, <1>2 DEF IInv, BatchInv
<1>8. ReportInv'
  BY <1>1, <1>2 DEF IInv, ReportInv, TimerReady
<1>9. QED
  BY <1>4, <1>6, <1>7, <1>8 DEF IInv
(* handleTimingRead() takes the batch out of the list, or its read fails.    *)
LEMMA StartTimingIInv ==
    ASSUME IInv, StartTiming
    PROVE  IInv'
<1>1. /\ pc = "dispatch" /\ "timer" \in active /\ active' = active \ {"timer"}
      /\ UNCHANGED <<now, timer, other, cur, calls, told, quit>>
  BY DEF StartTiming
<1>2. /\ expired = {} /\ cur = NoTimer /\ cause = "none"
      /\ TimerReady \/ ("arm" \in calls /\ timerfd # {})
  BY <1>1 DEF IInv, BatchInv, ReportInv
<1>3. now \in Nat /\ \A t \in Timers : timer[t].when \in Int
  BY DEF IInv, TypeOK
<1>4. CASE TimerReady
  <2>1. /\ timerfd' = {} /\ curr' = now /\ pc' = "timing" /\ UNCHANGED cause
        /\ expired' = GetExpired /\ timerList' = timerList \ GetExpired
    BY <1>4 DEF StartTiming
  <2>2. /\ GetExpired \subseteq timerList
        /\ \A t \in GetExpired : timer[t].when <= now + 1
    BY DEF GetExpired
  <2>3. TypeOK'
    BY <1>1, <2>1, <2>2 DEF IInv, TypeOK, Places
  <2>4. NotLate' /\ Owned' /\ DeathCauses'
    BY <1>1, <1>2, <2>1, <2>2 DEF IInv, NotLate, Owned, DeathCauses
  <2>5. BatchInv' /\ ReportInv'
    BY <1>1, <1>2, <1>3, <2>1, <2>2 DEF IInv, BatchInv, ReportInv, Owned
  <2>6. QED
    BY <2>3, <2>4, <2>5 DEF IInv
<1>5. CASE ~TimerReady
  <2>1. pc' = "dead" /\ cause' = "read" /\ UNCHANGED <<timerfd, curr, expired, timerList>>
    BY <1>5 DEF StartTiming
  <2>2. TypeOK'
    BY <1>1, <2>1 DEF IInv, TypeOK, Places
  <2>3. NotLate' /\ Owned' /\ DeathCauses'
    BY <1>1, <1>2, <1>5, <2>1 DEF IInv, NotLate, Owned, DeathCauses
  <2>4. BatchInv' /\ ReportInv'
    BY <1>1, <1>2, <2>1 DEF IInv, BatchInv, ReportInv
  <2>5. QED
    BY <2>2, <2>3, <2>4 DEF IInv
<1>6. QED
  BY <1>4, <1>5

LEMMA RunTimerIInv ==
    ASSUME IInv, NEW t \in Timers, RunTimer(t)
    PROVE  IInv'
<1>1. /\ pc = "timing" /\ t \in expired /\ timer[t].live
      /\ pc' = "callback" /\ cur' = t /\ expired' = expired \ {t}
      /\ UNCHANGED <<now, timer, timerList, timerfd, active, other, curr, calls,
                     quit, cause>>
  BY DEF RunTimer, Earliest
<1>2. TypeOK'
  BY <1>1 DEF IInv, TypeOK, Places
<1>3. NotLate' /\ Owned' /\ DeathCauses'
  BY <1>1 DEF IInv, NotLate, Owned, DeathCauses, BatchInv, ReportInv
<1>4. BatchInv' /\ ReportInv'
  BY <1>1 DEF IInv, BatchInv, ReportInv
<1>5. QED
  BY <1>2, <1>3, <1>4 DEF IInv

LEMMA DieIInv ==
    ASSUME IInv,
           \/ \E t \in Timers : TouchFreed(t) \/ AssertExpired(t)
           \/ TouchOwnFreed
    PROVE  IInv'
<1>1. PICK why \in {"freed", "expired"} :
        /\ pc \in {"timing", "callback"}
        /\ Die(why)
        /\ why = "freed" => "cancel" \in calls
        /\ why = "expired" => \E t \in expired : timer[t].when = curr + 1
  <2>1. ASSUME NEW t \in Timers, TouchFreed(t)
        PROVE  pc = "timing" /\ Die("freed") /\ "cancel" \in calls
    BY <2>1 DEF TouchFreed, Earliest, IInv, BatchInv
  <2>2. ASSUME NEW t \in Timers, AssertExpired(t)
        PROVE  /\ pc = "timing" /\ Die("expired")
               /\ t \in expired /\ timer[t].when = curr + 1
    <3>1. /\ pc = "timing" /\ Die("expired") /\ t \in expired
          /\ ~(timer[t].when <= curr) /\ timer[t].when <= curr + 1
      BY <2>2 DEF AssertExpired, Earliest, IInv, BatchInv, IsExpired
    <3>2. timer[t].when \in Int /\ curr \in Nat
      BY DEF IInv, TypeOK
    <3>3. QED
      BY <3>1, <3>2
  <2>3. ASSUME TouchOwnFreed
        PROVE  pc = "callback" /\ Die("freed") /\ "cancel" \in calls
    BY <2>3 DEF TouchOwnFreed, IInv, BatchInv
  <2>4. QED
    BY <2>1, <2>2, <2>3
<1>2. /\ pc' = "dead" /\ cause' = why
      /\ UNCHANGED <<now, timer, timerList, timerfd, active, other, expired, curr,
                     cur, calls, quit>>
  BY <1>1 DEF Die
<1>3. TypeOK'
  BY <1>2 DEF IInv, TypeOK, Places
<1>4. NotLate' /\ Owned' /\ DeathCauses'
  BY <1>1, <1>2 DEF IInv, NotLate, Owned, DeathCauses
<1>5. BatchInv' /\ ReportInv'
  BY <1>2 DEF IInv, BatchInv, ReportInv
<1>6. QED
  BY <1>3, <1>4, <1>5 DEF IInv

LEMMA EndCallbackIInv ==
    ASSUME IInv, EndCallback
    PROVE  IInv'
<1>1. /\ pc = "callback" /\ cur \in Timers \ expired /\ timer[cur].live
      /\ pc' = "timing" /\ cur' = NoTimer
      /\ UNCHANGED <<now, timerfd, active, other, expired, curr, calls, quit, cause>>
  BY DEF EndCallback, IInv, BatchInv
<1>2. timer \in [Timers -> [live : BOOLEAN, when : Int, interval : Nat]]
  BY DEF IInv, TypeOK
<1>3. /\ timer' \in [Timers -> [live : BOOLEAN, when : Int, interval : Nat]]
      /\ \A t \in Timers : t # cur => timer'[t] = timer[t]
      /\ \/ timerList' = timerList \cup {cur} /\ timer'[cur].live
         \/ timerList' = timerList /\ ~timer'[cur].live
  <2>1. CASE NeedRepeated(cur)
    <3>1. Restarted(cur) \in Int
      BY <1>1, <1>2 DEF Restarted
    <3>2. timer' = [timer EXCEPT ![cur].when = Restarted(cur)] /\ timerList' = timerList \cup {cur}
      BY <2>1 DEF EndCallback
    <3>3. QED
      BY <1>1, <1>2, <3>1, <3>2
  <2>2. CASE ~NeedRepeated(cur)
    <3>1. timer' = [timer EXCEPT ![cur].live = FALSE] /\ timerList' = timerList
      BY <2>2 DEF EndCallback
    <3>2. QED
      BY <1>1, <1>2, <3>1
  <2>3. QED
    BY <2>1, <2>2
<1>4. TypeOK'
  BY <1>1, <1>3 DEF IInv, TypeOK, Places
<1>5. NotLate' /\ Owned' /\ DeathCauses'
  BY <1>1, <1>3 DEF IInv, TypeOK, NotLate, Owned, DeathCauses, ReportInv
<1>6. BatchInv' /\ ReportInv'
  BY <1>1, <1>3 DEF IInv, TypeOK, BatchInv, ReportInv
<1>7. QED
  BY <1>4, <1>5, <1>6 DEF IInv

(* The end of the batch sets the timerfd for the first timer of the list. *)
LEMMA EndTimingIInv ==
    ASSUME IInv, EndTiming
    PROVE  IInv'
<1>1. /\ pc = "timing" /\ expired = {} /\ pc' = "dispatch" /\ curr' = 0
      /\ UNCHANGED <<now, timer, timerList, active, other, expired, cur, quit, cause>>
      /\ calls' = calls \/ calls' = calls \cup {"arm"}
  BY DEF EndTiming
<1>2. now \in Nat /\ \A t \in Timers : timer[t].when \in Int
  BY DEF IInv, TypeOK
<1>3. \/ timerList = {} /\ timerfd' = timerfd
      \/ \E d \in Nat :
            /\ timerfd' = {d}
            /\ \A u \in timerList : d <= timer[u].when \/ d <= now + MinDelay
  <2>1. CASE ~Rearms
    BY <2>1 DEF EndTiming, Rearms
  <2>2. CASE Rearms
    <3>1. PICK t \in Earliest(timerList) : SetTimerfd(timer[t].when)
      BY <2>2 DEF EndTiming
    <3>2. t \in timerList /\ \A u \in timerList : timer[t].when <= timer[u].when
      BY <3>1 DEF Earliest
    <3>3. timerList \subseteq Timers
      BY DEF IInv, TypeOK
    <3> DEFINE d == now + DurationFromNow(timer[t].when)
    <3>4. d \in Nat /\ (d <= timer[t].when \/ d <= now + MinDelay)
      BY <1>2, <3>2, <3>3, DurationBound
    <3>5. timerfd' = {d}
      BY <3>1 DEF SetTimerfd
    <3> HIDE DEF d
    <3>6. \A u \in timerList : d <= timer[u].when \/ d <= now + MinDelay
      BY <1>2, <3>2, <3>3, <3>4
    <3>7. QED
      BY <3>4, <3>5, <3>6
  <2>3. QED
    BY <2>1, <2>2
<1>4. TypeOK'
  BY <1>1, <1>3 DEF IInv, TypeOK, Places
<1>5. NotLate'
  BY <1>1, <1>3 DEF NotLate
<1>6. Owned' /\ DeathCauses'
  BY <1>1 DEF IInv, Owned, DeathCauses, ReportInv
<1>7. BatchInv' /\ ReportInv'
  BY <1>1, <1>2 DEF IInv, BatchInv, ReportInv
<1>8. QED
  BY <1>4, <1>5, <1>6, <1>7 DEF IInv

LEMMA DestroyIInv ==
    ASSUME IInv, Destroy
    PROVE  IInv'
<1>1. /\ pc = "exit" /\ pc' = "gone" /\ timerList' = {} /\ timerfd' = {}
      /\ timer' = [t \in Timers |-> IF t \in timerList
                                      THEN [timer[t] EXCEPT !.live = FALSE]
                                      ELSE timer[t]]
      /\ UNCHANGED <<now, active, other, expired, curr, cur, calls, quit, cause>>
  BY DEF Destroy, Destroyed
<1>2. /\ expired = {} /\ cur = NoTimer /\ cause = "none" /\ curr <= now
  BY <1>1 DEF IInv, BatchInv, ReportInv
<1>3. timer \in [Timers -> [live : BOOLEAN, when : Int, interval : Nat]]
  BY DEF IInv, TypeOK
<1>4. \A t \in Timers : /\ timer'[t] \in [live : BOOLEAN, when : Int, interval : Nat]
                         /\ ~timer'[t].live
  <2>1. SUFFICES ASSUME NEW t \in Timers
                 PROVE  /\ timer'[t] \in [live : BOOLEAN, when : Int, interval : Nat]
                        /\ ~timer'[t].live
    OBVIOUS
  <2>2. t \notin timerList => ~timer[t].live
    BY <1>2 DEF IInv, Owned
  <2>3. CASE t \in timerList
    BY <1>1, <1>3, <2>3
  <2>4. QED
    BY <1>1, <1>3, <2>2, <2>3
<1>5. TypeOK'
  BY <1>1, <1>4 DEF IInv, TypeOK, Places
<1>6. NotLate' /\ Owned' /\ DeathCauses'
  BY <1>1, <1>2, <1>4 DEF NotLate, Owned, DeathCauses
<1>7. BatchInv' /\ ReportInv'
  BY <1>1, <1>2 DEF IInv, BatchInv, ReportInv
<1>8. QED
  BY <1>5, <1>6, <1>7 DEF IInv

LEMMA StutterIInv ==
    ASSUME IInv, UNCHANGED vars
    PROVE  IInv'
<1>1. TypeOK' /\ NotLate' /\ Owned' /\ DeathCauses'
  BY DEF vars, IInv, TypeOK, NotLate, Owned, DeathCauses
<1>2. BatchInv' /\ ReportInv'
  BY DEF vars, IInv, BatchInv, ReportInv, TimerReady
<1>3. QED
  BY <1>1, <1>2 DEF IInv

-----------------------------------------------------------------------------
(* Every call of runAfter() and runEvery() is a call of addTimer(). *)
LEMMA UserAddsTimer ==
    ASSUME IInv, NEW t \in Timers,
           (\E d \in Delays : RunAfter(t, d)) \/ (\E i \in Intervals : RunEvery(t, i))
    PROVE  \E when \in Int, interval \in Nat : AddTimer(t, when, interval)
<1>1. now \in Int
  BY DEF IInv, TypeOK
<1>2. CASE \E d \in Delays : RunAfter(t, d)
  <2>1. PICK d \in Delays : AddTimer(t, now + d, 0)
    BY <1>2 DEF RunAfter, RunAt
  <2>2. now + d \in Int
    BY <1>1
  <2>3. QED
    BY <2>1, <2>2
<1>3. CASE \E i \in Intervals : RunEvery(t, i)
  <2>1. PICK i \in Intervals : AddTimer(t, now + i, i)
    BY <1>3 DEF RunEvery
  <2>2. now + i \in Int /\ i \in Nat
    BY <1>1
  <2>3. QED
    BY <2>1, <2>2
<1>4. QED
  BY <1>2, <1>3

LEMMA NextIInv ==
    ASSUME IInv, [Next]_vars
    PROVE  IInv'
<1>1. CASE LoopStep
  BY <1>1, QuietIInv, StartTimingIInv, RunTimerIInv, DieIInv, EndCallbackIInv,
     EndTimingIInv, DestroyIInv DEF LoopStep, HandleTimingRead
<1>2. CASE UserStep
  <2>1. ASSUME NEW t \in Timers, \E d \in Delays : RunAfter(t, d) PROVE IInv'
    BY <2>1, UserAddsTimer, AddTimerIInv
  <2>2. ASSUME NEW t \in Timers, \E i \in Intervals : RunEvery(t, i) PROVE IInv'
    BY <2>2, UserAddsTimer, AddTimerIInv
  <2>3. QED
    BY <1>2, <2>1, <2>2, CancelTimerIInv, QuietIInv DEF UserStep
<1>3. QED
  BY <1>1, <1>2, TickIInv, QuietIInv, StutterIInv DEF Next

LEMMA SpecIInv == Spec => []IInv
<1>1. IInv /\ [Next]_vars => IInv'
  BY NextIInv
<1>2. QED
  BY InitIInv, <1>1, PTL DEF Spec

(* The state of the queue is of its types. *)
THEOREM TimerQueueType == Spec => []TypeOK
<1>1. IInv => TypeOK
  BY DEF IInv
<1>2. QED
  BY SpecIInv, <1>1, PTL

(* Between the handlers no timer of the list is without a wake-up.           *)
(* (TimerQueue.cpp:109-128, 158-161)                                         *)
THEOREM NeverLate == Spec => []NotLate
<1>1. IInv => NotLate
  BY DEF IInv
<1>2. QED
  BY SpecIInv, <1>1, PTL

(* Every timer is owned once and deleted once.  (TimerQueue.cpp:98-156)      *)
THEOREM TimersOwned == Spec => []Owned
<1>1. IInv => Owned
  BY DEF IInv
<1>2. QED
  BY SpecIInv, <1>1, PTL

(* The process dies of a lost expiration, of a timer that is due in the next *)
(* nanosecond, or of a cancelled timer of the batch, and of nothing else.    *)
THEOREM TimerDeaths == Spec => []DeathCauses
<1>1. IInv => DeathCauses
  BY DEF IInv
<1>2. QED
  BY SpecIInv, <1>1, PTL

-----------------------------------------------------------------------------
(* The refinement, one concrete action at a time. *)
DueOf == [t \in Timers |-> Due(t)]
PeriodOf == [t \in Timers |-> timer[t].interval]

LEMMA QueueNext ==
    ASSUME \/ /\ now' = now + 1
              /\ UNCHANGED <<DueOf, PeriodOf, told>>
           \/ \E t \in Timers :
                 \/ /\ DueOf[t] = NoTimer /\ DueOf'[t] # NoTimer
                    /\ DueOf' = [DueOf EXCEPT ![t] = DueOf'[t]]
                    /\ PeriodOf' = [PeriodOf EXCEPT ![t] = PeriodOf'[t]]
                    /\ told' = <<"set", t>> /\ UNCHANGED now
                 \/ /\ DueOf' = [DueOf EXCEPT ![t] = NoTimer]
                    /\ told' = <<"cancel", t>> /\ UNCHANGED <<now, PeriodOf>>
                 \/ /\ DueOf[t] # NoTimer /\ DueOf[t] <= now
                    /\ DueOf' = [DueOf EXCEPT ![t] =
                                   IF PeriodOf[t] = 0 THEN NoTimer ELSE @ + PeriodOf[t]]
                    /\ told' = <<"run", t>> /\ UNCHANGED <<now, PeriodOf>>
           \/ /\ DueOf' = [t \in Timers |-> NoTimer]
              /\ told' = <<"drop">> /\ UNCHANGED <<now, PeriodOf>>
           \/ UNCHANGED <<now, DueOf, PeriodOf, told>>
    PROVE  [Queue!Next]_(Queue!alarmVars)
BY DEF Queue!Next, Queue!alarmVars, Queue!Advance, Queue!Set, Queue!Cancel,
       Queue!Fire, Queue!Drop, DueOf, PeriodOf

(* What each step does to the alarms' times. *)
LEMMA SetStep ==
    ASSUME IInv, NEW t \in Timers, NEW when \in Int, NEW interval \in Nat,
           AddTimer(t, when, interval)
    PROVE  [Queue!Next]_(Queue!alarmVars)
<1> DEFINE new == NewTimer(when, interval)
<1>1. /\ timer' = [timer EXCEPT ![t] = new] /\ ~timer[t].live /\ t # cur
      /\ told' = <<"set", t>> /\ UNCHANGED <<now, cur>>
  BY DEF AddTimer
<1>2. timer \in [Timers -> [live : BOOLEAN, when : Int, interval : Nat]]
  BY DEF IInv, TypeOK
<1>3. /\ timer'[t] = new
      /\ \A u \in Timers : u # t => timer'[u] = timer[u]
  BY <1>1, <1>2
<1>4. DueOf[t] = NoTimer /\ DueOf'[t] # NoTimer
  BY <1>1, <1>3 DEF DueOf, Due
<1>5. DueOf' = [DueOf EXCEPT ![t] = DueOf'[t]]
  <2>1. \A u \in Timers : u # t => Due(u)' = Due(u)
    BY <1>1, <1>3 DEF Due, NeedRepeated
  <2>2. QED
    BY <2>1 DEF DueOf
<1>6. PeriodOf' = [PeriodOf EXCEPT ![t] = PeriodOf'[t]]
  BY <1>3 DEF PeriodOf
<1>7. QED
  BY <1>1, <1>4, <1>5, <1>6, QueueNext

LEMMA CancelStep ==
    ASSUME IInv, NEW t \in Timers, CancelTimer(t)
    PROVE  [Queue!Next]_(Queue!alarmVars)
<1>1. /\ told' = <<"cancel", t>> /\ UNCHANGED <<now, cur>>
      /\ timer' = [timer EXCEPT ![t].live = FALSE]
  BY DEF CancelTimer
<1>2. timer \in [Timers -> [live : BOOLEAN, when : Int, interval : Nat]]
  BY DEF IInv, TypeOK
<1>3. /\ \A u \in Timers : u # t => timer'[u] = timer[u]
      /\ ~timer'[t].live /\ timer'[t].interval = timer[t].interval
  BY <1>1, <1>2
<1>4. DueOf' = [DueOf EXCEPT ![t] = NoTimer]
  <2>1. \A u \in Timers : u # t => Due(u)' = Due(u)
    BY <1>1, <1>3 DEF Due, NeedRepeated
  <2>2. Due(t)' = NoTimer
    BY <1>1, <1>3 DEF Due
  <2>3. QED
    BY <2>1, <2>2 DEF DueOf
<1>5. PeriodOf' = PeriodOf
  BY <1>3 DEF PeriodOf
<1>6. QED
  BY <1>1, <1>4, <1>5, QueueNext

LEMMA FireStep ==
    ASSUME IInv, NEW t \in Timers, RunTimer(t)
    PROVE  [Queue!Next]_(Queue!alarmVars)
<1>1. /\ pc = "timing" /\ timer[t].live /\ timer[t].when <= curr
      /\ cur' = t /\ told' = <<"run", t>> /\ UNCHANGED <<now, timer>>
  BY DEF RunTimer, IsExpired
<1>2. /\ timer[t].when \in Int /\ timer[t].interval \in Nat
      /\ curr \in Nat /\ now \in Nat /\ curr <= now /\ cur = NoTimer
  BY <1>1 DEF IInv, TypeOK, BatchInv
<1>3. DueOf[t] = timer[t].when /\ DueOf[t] # NoTimer /\ DueOf[t] <= now
  BY <1>1, <1>2 DEF DueOf, Due
<1>4. DueOf' = [DueOf EXCEPT ![t] =
                  IF PeriodOf[t] = 0 THEN NoTimer ELSE @ + PeriodOf[t]]
  <2>1. \A u \in Timers : u # t => Due(u)' = Due(u)
    BY <1>1, <1>2 DEF Due, NeedRepeated
  <2>2. Due(t)' = IF PeriodOf[t] = 0 THEN NoTimer ELSE DueOf[t] + PeriodOf[t]
    BY <1>1, <1>2, <1>3 DEF Due, NeedRepeated, PeriodOf
  <2>3. QED
    BY <2>1, <2>2 DEF DueOf
<1>5. PeriodOf' = PeriodOf
  BY <1>1 DEF PeriodOf
<1>6. QED
  BY <1>1, <1>3, <1>4, <1>5, QueueNext

(* A repeated timer goes back into the list with the time it was told. *)
LEMMA CallbackStep ==
    ASSUME IInv, EndCallback
    PROVE  [Queue!Next]_(Queue!alarmVars)
<1>1. /\ cur \in Timers /\ timer[cur].live /\ cur' = NoTimer
      /\ UNCHANGED <<now, told>>
  BY DEF EndCallback, IInv, BatchInv
<1>2. timer \in [Timers -> [live : BOOLEAN, when : Int, interval : Nat]]
  BY DEF IInv, TypeOK
<1>3. /\ \A u \in Timers : u # cur => timer'[u] = timer[u]
      /\ timer'[cur].interval = timer[cur].interval
      /\ IF NeedRepeated(cur)
           THEN timer'[cur].live /\ timer'[cur].when = timer[cur].when + timer[cur].interval
           ELSE ~timer'[cur].live
  BY <1>1, <1>2 DEF EndCallback, Restarted
<1>4. DueOf' = DueOf
  <2>1. \A u \in Timers : Due(u)' = Due(u)
    BY <1>1, <1>3 DEF Due, NeedRepeated
  <2>2. QED
    BY <2>1 DEF DueOf
<1>5. PeriodOf' = PeriodOf
  BY <1>3 DEF PeriodOf
<1>6. QED
  BY <1>1, <1>4, <1>5, QueueNext

LEMMA DropStep ==
    ASSUME IInv, Destroy
    PROVE  [Queue!Next]_(Queue!alarmVars)
<1>1. /\ pc = "exit" /\ told' = <<"drop">> /\ UNCHANGED <<now, cur>>
      /\ timer' = [t \in Timers |-> IF t \in timerList
                                      THEN [timer[t] EXCEPT !.live = FALSE]
                                      ELSE timer[t]]
  BY DEF Destroy, Destroyed
<1>2. timer \in [Timers -> [live : BOOLEAN, when : Int, interval : Nat]]
  BY DEF IInv, TypeOK
<1>3. \A t \in Timers : ~timer'[t].live /\ timer'[t].interval = timer[t].interval
  <2>1. SUFFICES ASSUME NEW t \in Timers
                 PROVE  ~timer'[t].live /\ timer'[t].interval = timer[t].interval
    OBVIOUS
  <2>2. t \notin timerList => ~timer[t].live
    BY <1>1 DEF IInv, Owned, BatchInv
  <2>3. CASE t \in timerList
    BY <1>1, <1>2, <2>3
  <2>4. QED
    BY <1>1, <1>2, <2>2, <2>3
<1>4. DueOf' = [t \in Timers |-> NoTimer]
  BY <1>3 DEF DueOf, Due
<1>5. PeriodOf' = PeriodOf
  BY <1>3 DEF PeriodOf
<1>6. QED
  BY <1>1, <1>4, <1>5, QueueNext

(* The steps that change no alarm. *)
LEMMA OtherStep ==
    ASSUME IInv,
           \/ Quit \/ OtherArrives \/ EnterLoop \/ Poll \/ StartOther \/ EndOther
           \/ EndBatch \/ LeaveLoop \/ StartTiming \/ EndTiming \/ TouchOwnFreed
           \/ \E t \in Timers : TouchFreed(t) \/ AssertExpired(t)
           \/ UNCHANGED vars
    PROVE  [Queue!Next]_(Queue!alarmVars)
<1>1. UNCHANGED <<now, timer, cur, told>>
  BY DEF Quit, OtherArrives, EnterLoop, Poll, StartOther, EndOther, EndBatch,
         LeaveLoop, StartTiming, EndTiming, TouchOwnFreed, TouchFreed,
         AssertExpired, Goto, Die, vars
<1>2. DueOf' = DueOf /\ PeriodOf' = PeriodOf
  BY <1>1 DEF DueOf, PeriodOf, Due, NeedRepeated
<1>3. QED
  BY <1>1, <1>2, QueueNext

LEMMA TickStep ==
    ASSUME Tick
    PROVE  [Queue!Next]_(Queue!alarmVars)
<1>1. now' = now + 1 /\ UNCHANGED <<timer, cur, told>>
  BY DEF Tick
<1>2. DueOf' = DueOf /\ PeriodOf' = PeriodOf
  BY <1>1 DEF DueOf, PeriodOf, Due, NeedRepeated
<1>3. QED
  BY <1>1, <1>2, QueueNext

LEMMA QueueStep ==
    ASSUME IInv, [Next]_vars
    PROVE  [Queue!Next]_(Queue!alarmVars)
<1>1. CASE LoopStep
  BY <1>1, OtherStep, FireStep, CallbackStep, DropStep DEF LoopStep, HandleTimingRead
<1>2. CASE UserStep
  <2>1. ASSUME NEW t \in Timers,
               (\E d \in Delays : RunAfter(t, d)) \/ (\E i \in Intervals : RunEvery(t, i))
        PROVE  [Queue!Next]_(Queue!alarmVars)
    BY <2>1, UserAddsTimer, SetStep
  <2>2. QED
    BY <1>2, <2>1, CancelStep, OtherStep DEF UserStep
<1>3. QED
  BY <1>1, <1>2, TickStep, OtherStep DEF Next

(* The queue implements Alarms: never early, never lost, once per period,    *)
(* never after it was cancelled.                                             *)
THEOREM ImplementsAlarms == Spec => AlarmsSpec
<1>1. Init => Queue!Init
  BY DEF Init, Queue!Init, Due
<1>2. IInv /\ [Next]_vars => [Queue!Next]_(Queue!alarmVars)
  BY QueueStep
<1>3. QED
  BY SpecIInv, <1>1, <1>2, PTL DEF Spec, AlarmsSpec, Queue!Spec
=============================================================================
