SPECIFICATION FairSpec
CONSTANTS
    Client = {a, b}
    Station = {s1, s2}
    Thread = {t1}
    MaxSession = 2
    Timeout = 1
    None = None
INVARIANTS SessionOfMyStation
PROPERTIES DeadDeviceIsReleased
CHECK_DEADLOCK FALSE
