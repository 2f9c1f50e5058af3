SPECIFICATION FairSpec
CONSTANTS
  N = 4
  MaxFrags = 2
  Packets = {1, 3}
  MaxSnd = 1
  MaxStops = 0
  LinkFlaps = FALSE
  GracefulStop = TRUE
INVARIANTS TypeOK RingCount LockHeld NeverHitsEnd NicInWindow
PROPERTIES FramesLeave MbufsFreed
