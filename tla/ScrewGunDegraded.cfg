SPECIFICATION Spec
CONSTANTS
    Steps <- ScanThenScrew
    Required = 1
    StableReads = 2
    Raises = {TRUE, FALSE}
    Shows = {"forward", "running"}
    Uncounted = 1
    Disturbances = 1
    CallBound = 1
    ReportBound = 1
INVARIANTS
    DegradedReleasesGun
