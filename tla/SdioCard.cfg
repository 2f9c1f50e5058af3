SPECIFICATION FairSpec
CONSTANTS
  Cards = 4
  Bad = {3}
INVARIANTS TypeOK NoForeignCard
PROPERTIES SlotKnown CdReturns KeepsPromise
CHECK_DEADLOCK FALSE
