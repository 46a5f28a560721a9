SPECIFICATION Spec
CONSTANTS
  w1 = w1
  w2 = w2
  file1 = file1
  file2 = file2
  link1 = link1
  None = None
  Workers = {w1, w2}
  Names = {file1}
  Links <- MCLinks
  Moves = {}
  Mapped = {file1}
  Renamed = {file1}
  MaxEntries = 2
  Memory = 4
  ScriptSize = 2
  KeySize = 1
  MinFree = 2
  MaxWasted = 2
  MaxEvents = 1
SYMMETRY Symmetry
INVARIANT
  RunsCurrent
