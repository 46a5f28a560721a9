\* The comment "don't schedule twice".
SPECIFICATION Spec
CONSTANTS
  p1 = p1
  p2 = p2
  Procs = {p1, p2}
  NoProc = NoProc
  ForceTimeout = TRUE
  ResetApi = TRUE
  MayDisable = TRUE
  MaxFaults = 0
SYMMETRY Symmetry
INVARIANT ScheduledOnce
