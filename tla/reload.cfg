CONSTANTS
  A = A
  B = B
  c1 = c1
  c2 = c2
  c3 = c3
  c4 = c4
  None = None
  Pools = {A, B}
  Pids = {c1, c2, c3}
  Pm <- MixedPm
  PmMaxChildren <- MixedMax
  PmStartServers <- MixedNone
  PmMinSpare <- MixedNone
  PmMaxSpare <- MixedNone
  ProcessMax = 2
  EmergencyRestart = TRUE
  ExtSignals = {"INT", "TERM", "QUIT", "USR1", "USR2"}
  MaxSignals = 1
  MaxFaults = 1
  MaxForkFails = 1
  MaxBacklog = 1
  MaxSp = 2
\* An idle FPM with no clients and no signals left has nothing to do.
CHECK_DEADLOCK FALSE
SPECIFICATION Spec
SYMMETRY PidSymmetry
INVARIANTS
  ZombieNoticed
  NoOrphans
  ListsExact
  WithinLimits
PROPERTY ImplementsService
