SPECIFICATION FairSpec
CONSTANTS
  N = 3
  MaxFrags = 1
  Packets = {1}
  MaxSnd = 1
  MaxStops = 0
  LinkFlaps = FALSE
  GracefulStop = TRUE
PROPERTIES TxResumes
