SPECIFICATION Spec
CONSTANTS
  Threads = {t1, t2}
  MaxNodes = 3
  MaxContexts = 5
  MaxSteps = 2
  MaxAttributes = 2
SYMMETRY Symmetry
INVARIANTS
  SiblingsInOrder
  UnderInnermost
  AttributeIsHome
  NothingShared
CHECK_DEADLOCK FALSE
