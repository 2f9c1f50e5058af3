SPECIFICATION FairSpec
CONSTANTS
  Lens = {1, 3, 16, 22}
  DLens = {1, 2, 3, 4}
  BurstMax = 16
  FifoSize = 2
  MaxXfers = 2
  MaxPulses = 2
INVARIANTS TypeOK StaysInBuffer SuccessIsExchange
PROPERTIES XferReturns
CHECK_DEADLOCK FALSE
