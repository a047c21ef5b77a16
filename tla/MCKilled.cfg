SPECIFICATION KilledFairSpec
CONSTANTS
  u1 = u1
  u2 = u2
  Idle = Idle
  Init = Init
  Proc <- MCProc
  Killable <- MCKillable
  MaxSleep = 2
PROPERTIES SleepersWake InitFinishes KilledSleepersDie
CHECK_DEADLOCK FALSE
