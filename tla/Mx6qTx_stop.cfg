SPECIFICATION Spec
CONSTANTS
  N = 4
  MaxFrags = 2
  Packets = {1}
  MaxSnd = 1
  MaxStops = 1
  LinkFlaps = TRUE
  GracefulStop = TRUE
INVARIANTS RingCount NeverHitsEnd NicInWindow
