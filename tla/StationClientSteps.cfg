CONSTANTS
    Layouts <- All
    Elsewhere <- Another
    Code = {a, b}
    None = None
    MaxCount = 2
    Disturbances = 2
    QueueBound = 1
SPECIFICATION Spec
SYMMETRY Interchangeable
INVARIANTS TypeOK ConfirmsFinishedPart NoStepSkipped OwnMagnet DisabledStandsStill
