SPECIFICATION FairSpec
CONSTANTS
  N = 3
  MaxLen = 2
  Frames = {1, 2}
  FlowModes = {TRUE, FALSE}
  MaxStops = 1
INVARIANTS TypeOK NoMixedPackets QueueServed MaskedHasOwner MaskedWhileBusy
PROPERTIES RingEmptied FlowStopLifted
CHECK_DEADLOCK FALSE
