SPECIFICATION FairSpec
CONSTANTS
  p1 = p1
  p2 = p2
  Pids = {p1, p2}
  MaxChildren = 1
  SlowlogTimeout = 1
  TerminateTimeout = 2
  KeepAlive = TRUE
  MaxClock = 3
  MaxRequests = 1
  MaxFaults = 1
PROPERTY BacktraceDumped
CHECK_DEADLOCK FALSE
