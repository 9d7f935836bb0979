SPECIFICATION Spec
CONSTANTS
    Terminal = {t1, t2}
    MaxSaid = 3
    MaxTotal = 4
    MaxEvents = 1
    MaxConn = 2
    High = 2
    Low = 1
    BatchMax = 2
    EventSize = 2
    Header = 1
    PerTerminal = 6
    PerHub = 8
INVARIANTS
    CountsAreTrue
    OutputIsBounded
    QuietIsKept
    LastWordIsKept
PROPERTIES
    HeldBackResumes
    InOrderAtMostOnce
CHECK_DEADLOCK FALSE
