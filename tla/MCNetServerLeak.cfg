\* The discard server (DiscardServerTest.cpp): who closes the descriptor?
CONSTANTS
    Conns = {c1}
    Listener = listener
    OnUp = {}
    OnMessage = {"retrieve"}
    OnDown = {}
    ChecksConnected = FALSE
    Message <- MCMessage
    MaxOut = 2
    MaxIn = 1
    SndBuf = 1
    Backlog = 1
    MaxFds = 4
SPECIFICATION Spec
INVARIANT FdClosedWithConnection
CHECK_DEADLOCK FALSE
