SPECIFICATION ServedSpec
CONSTANTS
  u1 = u1
  u2 = u2
  u3 = u3
  Idle = Idle
  Init = Init
  Proc <- MCProc2
  Killable <- Users2
  MaxSleep = 2
PROPERTIES KillIsFatal
CHECK_DEADLOCK FALSE
