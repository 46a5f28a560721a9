SPECIFICATION FairSpec
CONSTANTS
  Pools = {"www"}
  c1 = c1
  Pids = {c1}
  Style = "static"
  N = 1
  Start = 1
  MinSpare = 1
  MaxSpare = 1
  pm <- MCpm
  pm_max_children <- MCmax
  pm_start_servers <- MCstart
  pm_min_spare_servers <- MCmin
  pm_max_spare_servers <- MCmaxspare
  process_max = 0
  FPM_MAX_SPAWN_RATE = 2
  TerminateTimeout = FALSE
  EmergencyRestart = FALSE
  Signals = {"QUIT"}
  MaxSignals = 1
  MaxConns = 0
  MaxFaults = 0
PROPERTY
  FinishCompletes
