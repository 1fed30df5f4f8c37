\* A buffer of five header lengths, records of at most 47 bytes, and a write that
\* leaves, padded, no byte behind its record; three zvals and an object, with root
\* buffers that one or two of them fill; collections over an array, a zval of an
\* object and its object, each with up to two references, and all in the buffer.
CONSTANTS
  BufSize = 40
  MaxContent = 47
  stdout = stdout
  stderr = stderr
  Types = {stdout, stderr}
  Lens = {13, 60}
  Requests <- RequestsV
  PostBlock = 2
  Reads = {2}
  MaxReqs = 2
  MaxWrites = 2
  Zvals = {1, 2, 3}
  Handles = {o}
  Vars = {a, b, c}
  None = None
  MaxStored = 3
  RootMaxes = {1, 2}
  Arrays = {1}
  ObjectZvals = {2}
  Objects = {o}
  MaxElems = 2
  MaxRefs = 5
  MaxExtra = 1
  MaxBuffered = 3
SYMMETRY Symm
SPECIFICATION Spec
INVARIANT BufferBound
INVARIANT Framed
INVARIANT InOrder
INVARIANT InputAligned
INVARIANT Answered
INVARIANT GcExact
INVARIANT GcBuffered
INVARIANT GcComplete
INVARIANT ListsGarbage
INVARIANT CountsRestored
INVARIANT CountsNatural
INVARIANT Settled
INVARIANT PhasesAgree
PROPERTY WriterSpec
\* Clients need not send anything, and scripts end.
CHECK_DEADLOCK FALSE
