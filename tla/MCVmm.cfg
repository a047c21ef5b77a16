SPECIFICATION Spec
CONSTANTS
  Frame <- MCFrame
  Page <- MCPage
  PTSIZE = 4
  Space <- MCSpace
  CHECK = CHECK
  p1 = p1
  p2 = p2
  FirstProc = p1
  Junk = Junk
  FromFile = FromFile
  Zeroes = Zeroes
  Arguments = Arguments
  Untouched = Untouched
  Gone = Gone
  Proc <- MCProc
  Image <- MCImages
  StackStart = 6
  UpFront = 1
  CheckFrame = {1, 2, 3}
  CheckPage = {1, 2, 3}
INVARIANTS FramesAccounted FaultsResolved SwapKeepsPages
PROPERTIES MemoryIsPrivate
CONSTRAINTS NotStale FewWritten
CHECK_DEADLOCK FALSE
