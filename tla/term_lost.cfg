CONSTANTS
  A = A
  B = B
  c1 = c1
  c2 = c2
  c3 = c3
  c4 = c4
  None = None
  Pools = {A}
  Pids = {c1}
  Pm <- Static
  PmMaxChildren <- One
  PmStartServers <- Zero
  PmMinSpare <- Zero
  PmMaxSpare <- Zero
  ProcessMax = 0
  EmergencyRestart = FALSE
  ExtSignals = {"TERM", "USR2"}
  MaxSignals = 2
  MaxFaults = 0
  MaxForkFails = 0
  MaxBacklog = 1
  MaxSp = 2
SPECIFICATION FairSpec
PROPERTY TermObeyed
