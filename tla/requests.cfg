SPECIFICATION FairSpec
CONSTANTS
  p1 = p1
  p2 = p2
  Pids = {p1, p2}
  MaxChildren = 1
  SlowlogTimeout = 1
  TerminateTimeout = 2
  KeepAlive = TRUE
  MaxClock = 3
  MaxRequests = 3
  MaxFaults = 1
INVARIANT TypeOK
INVARIANT SlotsExact
INVARIANT SlotsClean
INVARIANT StopsTraced
PROPERTY BacktraceOnce
PROPERTY LateEnded
PROPERTY TraceEnds
CHECK_DEADLOCK FALSE
