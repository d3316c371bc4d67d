SPECIFICATION PortSpec
CONSTANTS
    Servers = {s1, s2, s3}
    Old = {s3}
INVARIANTS
    OneListener
PROPERTIES
    RestartSucceeds
CHECK_DEADLOCK FALSE
