CONSTANTS
  a1 = a1
  a2 = a2
  p1 = p1
  p2 = p2
  p3 = p3
  Addrs = {a1, a2}
  Procs = {p1, p2, p3}
  MaxBackground = 1
SPECIFICATION FairSpec
INVARIANT TypeOK
INVARIANT Watched
INVARIANT NoDangling
INVARIANT BatchValid
PROPERTY OutputRead
CHECK_DEADLOCK FALSE
