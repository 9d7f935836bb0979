SPECIFICATION Spec
CONSTANTS
  Client = {1, 2}
  MaxOps = 2
  MaxPrompts = 2
  Kinds = {"acquire", "reconnect", "test", "elevation"}
INVARIANTS
  WaiterIsAsked
  WaiterIsShown
  DialogIsLive
  OwnQuestionsStay
CHECK_DEADLOCK FALSE
