SPECIFICATION FairSpec
CONSTANTS
    Steps <- ScanThenScrew
    Required = 2
    StableReads = 1
    Raises = {TRUE}
    Shows = {"running"}
    Uncounted = 1
    Disturbances = 1
    CallBound = 1
    ReportBound = 1
INVARIANTS
    TypeOK
    NoPhantomCount
    LockIsKnown
PROPERTIES
    GunComesBack
