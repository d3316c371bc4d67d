SPECIFICATION Spec
CONSTANTS
    Timers = {t1, t2}
    NoTimer = NoTimer
    Scale = 2
    MinDelay = 2
    Delays <- MCDelays
    Intervals <- MCIntervals
    Horizon = 3
    MaxTime = 5
INVARIANTS
    NotLate
    Owned
    DeathCauses
PROPERTIES
    AlarmsSpec
    EventuallyRuns
CHECK_DEADLOCK FALSE
