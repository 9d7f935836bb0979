SPECIFICATION Spec
CONSTANTS
  Pane = {p1}
  MaxPrint = 2
  MaxInFlight = 2
  MaxTail = 1
  MaxWaiting = 2
  MaxFaults = 1
  MaxAttach = 2
INVARIANTS
  StaleIsKnown
  SlotsComeBack
  PaneInOrder
PROPERTY
  ReplayCatchesUp
