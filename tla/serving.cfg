CONSTANTS
  A = A
  B = B
  c1 = c1
  c2 = c2
  c3 = c3
  c4 = c4
  None = None
  Pools = {A}
  Pids = {c1, c2}
  Pm <- Dynamic
  PmMaxChildren <- Two
  PmStartServers <- One
  PmMinSpare <- One
  PmMaxSpare <- One
  ProcessMax = 0
  EmergencyRestart = FALSE
  ExtSignals = {}
  MaxSignals = 0
  MaxFaults = 1
  MaxForkFails = 1
  MaxBacklog = 1
  MaxSp = 1
SPECIFICATION ServingSpec
PROPERTIES
  ZombiesReaped
  DynamicServed
