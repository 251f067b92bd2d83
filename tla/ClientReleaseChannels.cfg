SPECIFICATION Spec
CONSTANTS
    Thread = {t1, t2}
    Device = {d}
    Version <- Candidates
    Build = {b1, b2}
    b1 = b1
    b2 = b2
    Uploads <- NewerBuilds
    Calls <- OldCalls
    Installed <- OneEach
    MaxStamp = 3
    Broken = Broken
    None = None
CONSTRAINT Focus
SYMMETRY Symmetry
INVARIANTS TypeOK StoredMatchesRecord ReadyMatchesDigest
PROPERTIES ChannelIndependence OfferSurvives
CHECK_DEADLOCK FALSE
