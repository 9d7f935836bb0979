SPECIFICATION Spec
CONSTANTS
    File = {f1}
    Window = {w1}
    Nobody = Nobody
    Size = 2
    Policies = {"ask"}
    MaxConcurrent = 1
    MaxTemp = 3
    MaxFaults = 1
    MaxAsks = 0
    MaxEvents = 1
PROPERTIES
    FailureIsSaid
CHECK_DEADLOCK FALSE
