CONSTANTS
  A = A
  B = B
  c1 = c1
  c2 = c2
  c3 = c3
  c4 = c4
  None = None
  Pools = {A}
  Pids = {c1, c2}
  Pm <- OnDemand
  PmMaxChildren <- Two
  PmStartServers <- Zero
  PmMinSpare <- Zero
  PmMaxSpare <- Zero
  ProcessMax = 0
  EmergencyRestart = FALSE
  ExtSignals = {}
  MaxSignals = 0
  MaxFaults = 0
  MaxForkFails = 0
  MaxBacklog = 1
  MaxSp = 1
\* An idle FPM with no clients and no signals left has nothing to do.
CHECK_DEADLOCK FALSE
SPECIFICATION ServingSpec
PROPERTY OnDemandServed
