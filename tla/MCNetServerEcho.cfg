\* The echo server (EchoServerTest.cpp), which may turn a client away in its UP
\* callback: two peers, descriptors for both.
CONSTANTS
    Conns = {c1, c2}
    Listener = listener
    OnUp = {"remove"}
    OnMessage = {"echo"}
    OnDown = {}
    ChecksConnected = FALSE
    Message <- MCMessage
    MaxOut = 2
    MaxIn = 3
    SndBuf = 1
    Backlog = 2
    MaxFds = 4
SPECIFICATION Spec
SYMMETRY MCSymmetry
INVARIANTS
    NobodyWaits
    WritingIffPending
    OutputConserved
    EchoInOrder
    MapAfterEarlyRemoval
CHECK_DEADLOCK FALSE
