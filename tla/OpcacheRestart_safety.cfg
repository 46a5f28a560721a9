\* Two workers; scripts may disable or reset the cache; one crash or aborted request.
SPECIFICATION Spec
CONSTANTS
  p1 = p1
  p2 = p2
  Procs = {p1, p2}
  NoProc = NoProc
  ForceTimeout = TRUE
  ResetApi = TRUE
  MayDisable = TRUE
  MaxFaults = 1
SYMMETRY Symmetry
INVARIANTS
  RestartWaitsForReaders
  LockedPointerValid
  OneRestartPerSchedule
  RestartLockAvailable
  RestartFlagNotStuck
