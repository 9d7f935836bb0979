SPECIFICATION Spec
CONSTANTS
  MaxTasks = 4
  Requests = {"spawn", "connect", "reconnect", "disconnect", "attach", "restart", "close", "quit"}
INVARIANTS
  NoLeaseLeaks
  NobodyIsForgotten
  AgentServesASession
PROPERTIES
  QuitAdoptsNothing
  HoldIsKept
  OneConnection
CHECK_DEADLOCK FALSE
