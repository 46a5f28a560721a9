\* A dynamic pool of one and an ondemand pool of two under process.max.
SPECIFICATION Spec
CONSTANTS
  Pools = {"www", "api"}
  c1 = c1
  c2 = c2
  c3 = c3
  Pids = {c1, c2, c3}
  Style = "dynamic"
  N = 1
  Start = 1
  MinSpare = 1
  MaxSpare = 1
  pm <- MCpm
  pm_max_children <- MCmax
  pm_start_servers <- MCstart
  pm_min_spare_servers <- MCmin
  pm_max_spare_servers <- MCmaxspare
  process_max = 2
  FPM_MAX_SPAWN_RATE = 2
  TerminateTimeout = FALSE
  EmergencyRestart = TRUE
  Signals = {"TERM"}
  MaxSignals = 1
  MaxConns = 2
  MaxFaults = 1
SYMMETRY Symmetry
INVARIANTS
  NoOrphans
  SlotsExact
  WithinLimits
  SlotForEveryFork
  IdleKillHeard
  ZombieNoticed
PROPERTY
  StopIsFinal
  SupervisorSpec
