\* An application that sends a farewell when it is told DOWN.
CONSTANTS
    Conns = {c1}
    Listener = listener
    OnUp = {}
    OnMessage = {"retrieve"}
    OnDown = {"send"}
    ChecksConnected = FALSE
    Message <- MCMessage
    MaxOut = 2
    MaxIn = 1
    SndBuf = 1
    Backlog = 1
    MaxFds = 4
SPECIFICATION Spec
INVARIANT RemovedWatchesNothing
CHECK_DEADLOCK FALSE
