SPECIFICATION FairSpec
CONSTANTS
  XferSize = 2
  FifoSize = 2
  MaxOut = 3
  MaxInject = 1
  MaxStops = 1
  FastLine = FALSE
INVARIANTS TypeOK OutputInOrder
PROPERTIES OutputLeaves
CHECK_DEADLOCK FALSE
