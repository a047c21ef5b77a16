SPECIFICATION Spec
CONSTANTS
  NPAGE = 8
  NULL = NULL
  Usable <- MCUsable
  SLOB_UNIT = 2
  PAGE_SIZE = 8
  BIGBLOCK = 3
  Sizes <- MCSizes
  MaxSlobPages = 2
INVARIANTS BlocksMaximal HeapExact
PROPERTIES FirstFit
CONSTRAINT FewOthers
