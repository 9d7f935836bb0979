SPECIFICATION FairSpec
CONSTANTS
  NoClient = NoClient
  NoWindow = NoWindow
  Clients = {c1, c2}
  Windows = {w1, w2}
  Channels = {ch1}
INVARIANTS
  WriterMayType
  KeptWindowIsAway
  OneTimerPerKeptLock
  AttachedKnowTheLock
PROPERTIES WindowKeepsItsLock KeptLockIsResolved
CHECK_DEADLOCK FALSE
