SPECIFICATION BeatingSpec
CONSTANTS
    Client = {a, b}
    Station = {s1}
    Thread = {t1}
    MaxSession = 2
    Timeout = 1
    None = None
CHECK_DEADLOCK FALSE
PROPERTIES LostLeaseStopsDevice
