SPECIFICATION Spec
CONSTANTS
  p1 = p1
  p2 = p2
  p3 = p3
  Idle = Idle
  Proc <- MCReaders3
  STDIN_BUFSIZE = 2
  MaxKeys = 5
  MaxLen = 2
SYMMETRY MCReaderSymmetry
INVARIANTS NoReaderMissesInput WaitsHaveFrames
PROPERTIES RingIsQueue
