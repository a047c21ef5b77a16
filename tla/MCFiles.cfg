SPECIFICATION Spec
CONSTANTS
  p1 = p1
  p2 = p2
  fa = fa
  fb = fb
  Proc <- MCProcs
  File <- MCFiles
  Block <- MCBlocks
  SFS_BLKSIZE = 2
  SFS_NDIRECT = 1
  SFS_MAX_FILE_SIZE = 5
  SFS_BLK_NENTRY = 1
  MAX_INODE_COUNT = 3
  Fd <- MCFds
  OpenFlags <- MCOpenFlags
  Buffers <- MCBuffers
  Lengths <- MCLengths
  Positions <- MCPositions
  MaxOpen = 2
CONSTRAINT FewOpen
SYMMETRY MCFileSymmetry
INVARIANTS BlocksAccounted CountsExact AssertionsHold
PROPERTIES ReadsContent
CHECK_DEADLOCK FALSE
