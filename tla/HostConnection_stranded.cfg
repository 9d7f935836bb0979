SPECIFICATION Spec
CONSTANTS
  MaxTasks = 2
  Requests = {"spawn", "connect"}
INVARIANT
  FollowersHaveALeader
CHECK_DEADLOCK FALSE
