SPECIFICATION Spec
CONSTANTS
  Threshold = 3
  Interval = 3
  Boot = 4
  MaxTime = 9
  MaxHistory = 6
CHECK_DEADLOCK FALSE
INVARIANT
  TypeOK
PROPERTY
  ReloadExact
