SPECIFICATION FairSpec
CONSTANTS
  N = 4
  TIMES = 1
  Idle <- MCIdle
  Proc <- MCThreads
  Semaphore <- MCSemaphores
INVARIANTS OneInside CountsExact NeighboursExclude
PROPERTIES AllDine
