SPECIFICATION Spec
CONSTANTS
    MaxSeq = 4
    MaxLives = 2
    MaxAsked = 2
    MaxRestarts = 1
INVARIANTS
    NextSeqIsFree
PROPERTIES
    WrittenSinceStays
    NewestSnapshotStays
    OrphanIsEmptied
