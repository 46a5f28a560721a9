SPECIFICATION FairSpec
CONSTANTS
  Pools = {"www"}
  c1 = c1
  Pids = {c1}
  Style = "dynamic"
  N = 1
  Start = 1
  MinSpare = 1
  MaxSpare = 1
  pm <- MCpm
  pm_max_children <- MCmax
  pm_start_servers <- MCstart
  pm_min_spare_servers <- MCmin
  pm_max_spare_servers <- MCmaxspare
  process_max = 0
  FPM_MAX_SPAWN_RATE = 2
  TerminateTimeout = TRUE
  EmergencyRestart = FALSE
  Signals = {"USR2", "QUIT", "TERM"}
  MaxSignals = 2
  MaxConns = 2
  MaxFaults = 1
PROPERTY
  TerminateCompletes
  Served
