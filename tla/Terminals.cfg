SPECIFICATION FairSpec
CONSTANTS
  Ids = {a}
  NoId = NoId
  MaxStarts = 2
  MaxConnects = 2
  MaxClock = 3
  MaxCrashes = 1
  MaxWire = 1
INVARIANTS OneStartAtATime RecordAgrees NothingRunsUnseen
PROPERTY JudgedIsGone ClaimIsReleased
CHECK_DEADLOCK FALSE
