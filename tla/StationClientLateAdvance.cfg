CONSTANTS
    Layouts <- OneLayout
    Elsewhere <- OneLayout
    Code = {a}
    None = None
    MaxCount = 1
    Disturbances = 1
    QueueBound = 1
SPECIFICATION Spec
INVARIANT EveryStepDone
