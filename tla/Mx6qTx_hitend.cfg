SPECIFICATION Spec
CONSTANTS
  N = 4
  MaxFrags = 2
  Packets = {1, 2}
  MaxSnd = 1
  MaxStops = 1
  LinkFlaps = FALSE
  GracefulStop = TRUE
INVARIANTS NeverHitsEnd
