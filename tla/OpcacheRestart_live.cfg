\* No opcache_reset(); holders of byte 1 may be killed. Liveness: no symmetry.
SPECIFICATION FairSpec
CONSTANTS
  p1 = p1
  p2 = p2
  Procs = {p1, p2}
  NoProc = NoProc
  ForceTimeout = TRUE
  ResetApi = FALSE
  MayDisable = FALSE
  MaxFaults = 0
PROPERTY
  RestartHappens
  CacheSpec
INVARIANTS
  AcceleratorNotLost
