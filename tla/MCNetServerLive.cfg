\* A server that answers each message with more than the kernel takes at once:
\* two peers, descriptors for both, and every answer is a short write.
CONSTANTS
    Conns = {c1, c2}
    Listener = listener
    OnUp = {}
    OnMessage = {"send"}
    OnDown = {}
    ChecksConnected = FALSE
    Message <- MCMessage
    MaxOut = 2
    MaxIn = 1
    SndBuf = 1
    Backlog = 2
    MaxFds = 4
SPECIFICATION FairSpec
PROPERTIES
    ClosedIsRemoved
    QueuedIsAccepted
    PendingIsWritten
CHECK_DEADLOCK FALSE
