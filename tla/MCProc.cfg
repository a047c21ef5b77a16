SPECIFICATION Spec
CONSTANTS
  u1 = u1
  u2 = u2
  u3 = u3
  Idle = Idle
  Init = Init
  Proc <- MCProc3
  Killable <- UsersAndInit
  MaxSleep = 2
SYMMETRY UserSymmetry
INVARIANTS RunQueueExact NoMissedWakeup TimersHaveFrames AllReapedAtEnd
PROPERTIES ZombiesOnlyReaped SleepIsFullLength
CHECK_DEADLOCK FALSE
