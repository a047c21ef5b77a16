SPECIFICATION ClientsSpec
CONSTANTS
  p1 = p1
  p2 = p2
  p3 = p3
  sa = sa
  sb = sb
  Idle = Idle
  Proc <- MCClients3
  Semaphore <- MCSems
  Initial <- MCInitial
  MaxValue = 2
SYMMETRY MCClientSymmetry
INVARIANTS WaitersAreQueued DownSucceeds
PROPERTIES CountsUnits FirstComeFirstServed
