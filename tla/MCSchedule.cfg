SPECIFICATION ScheduleSpec
CONSTANTS
  idle = idle
  p1 = p1
  p2 = p2
  p3 = p3
  Proc <- MCProcs
  Idle = idle
  First = p1
  MaxExpires = 2
  MAX_TIME_SLICE = 1
  BIG_STRIDE = 2
  Priorities <- MCPriorities
  Setters <- MCSetters
  Sleepers <- MCSleepers
INVARIANTS RunPoolExact
CONSTRAINT FewAsleepWhenUnsteady
PROPERTIES PicksLeast Countdowns RunnableRuns
