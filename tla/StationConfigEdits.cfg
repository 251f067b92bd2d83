SPECIFICATION Spec
CONSTANTS
    Thread = {t1, t2}
    Station = {s1, s2}
    s1 = s1
    s2 = s2
    Number = {1, 2}
    Order = {1, 2}
    Payloads <- Entered
    Templates <- SwitchRoute
    MaxStep = 3
    MaxEdit = 3
    Same = Same
    None = None
INVARIANTS TypeOK MainRule DeviceHasOneMain
SYMMETRY Symmetric
CHECK_DEADLOCK FALSE
