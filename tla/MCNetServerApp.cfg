\* An application that sends, shuts down, removes and quits as it likes
\* (DayTimeServerTest.cpp and more), with descriptors for one connection
\* and a half.
CONSTANTS
    Conns = {c1, c2}
    Listener = listener
    OnUp = {"send", "shutdown", "quit"}
    OnMessage = {"send", "retrieve", "remove"}
    OnDown = {"quit"}
    ChecksConnected = TRUE
    Message <- MCMessage
    MaxOut = 2
    MaxIn = 1
    SndBuf = 1
    Backlog = 2
    MaxFds = 3
SPECIFICATION Spec
INVARIANTS
    NoDanglingChannel
    MapIsConnected
    ToldOnce
    DeathCauses
PROPERTY
    ConnectionSpec
CHECK_DEADLOCK FALSE
