SPECIFICATION FairSpec
CONSTANTS
  MAX_PROCESS = 6
  MAX_PID = 7
INVARIANTS Unique NextFree
PROPERTIES Returns
