SPECIFICATION Spec
CONSTANTS
    File = {f1}
    Window = {w1}
    Nobody = Nobody
    Size = 2
    Policies = {"ask"}
    MaxConcurrent = 1
    MaxTemp = 6
    MaxFaults = 1
    MaxAsks = 2
    MaxEvents = 3
INVARIANT NoHoles
CHECK_DEADLOCK FALSE
