\* The servers of v1.0 to v1.5 and their loop, one at a time.
SPECIFICATION Spec
CONSTANTS
    Size <- MCSize
    Port <- MCPort
    Time <- MCTime
    Greeting <- MCTime
    LoopChannels = {a, b}
    LoopConditions <- MCConditions
    MaxEventNums = 1
INVARIANTS
    TypeOK
    NothingStale
    RecordsAgree
    InOrder
PROPERTIES
    OnlyNewestIsWronged
    ServiceSpec
    ClientsAreServed
    NoStarvation
CHECK_DEADLOCK FALSE
