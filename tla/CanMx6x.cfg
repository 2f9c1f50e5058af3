SPECIFICATION FairSpec
CONSTANTS
  RxBoxes = {1, 2}
  TxBoxes = {3, 4}
  QSize = 2
  MdriverRx = 1
  MaxMsgs = 3
  FrameOutlastsIsr = FALSE
INVARIANTS TypeOK ElementsConserved TxInOrder TxNotStuck BusInOrder
PROPERTIES RxServed
CHECK_DEADLOCK FALSE
