SPECIFICATION Spec
CONSTANTS
  XferSize = 2
  FifoSize = 1
  MaxOut = 3
  MaxInject = 0
  MaxStops = 1
  FastLine = TRUE
INVARIANTS FallbackOnlyIfHung
CHECK_DEADLOCK FALSE
