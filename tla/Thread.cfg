\* Three objects; the worker of the first may run early.
SPECIFICATION Spec
CONSTANTS
    Threads = {t1, t2, t3}
    EarlyRun = {t1}
INVARIANTS
    RunsOnce
    Handshake
PROPERTIES
    StartedRuns
CHECK_DEADLOCK FALSE
