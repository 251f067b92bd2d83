SPECIFICATION Spec
CONSTANTS
    Client = {a, b}
    Station = {s1}
    Thread = {t1, t2}
    MaxSession = 2
    Timeout = 1
    None = None
SYMMETRY Symmetry
INVARIANTS TypeOK OneHolder
PROPERTIES ClosedIsFinal LeaseContract
CHECK_DEADLOCK FALSE
