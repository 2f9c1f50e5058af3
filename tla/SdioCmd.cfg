SPECIFICATION FairSpec
CONSTANTS
  Cmds = {c1, c2}
  CmdRetries = 1
  ResetRetries = 2
  Cached = FALSE
  None = None
INVARIANTS TypeOK NoDangling SuccessIsTrue NoTransferAfterReturn
PROPERTIES RequestReturns
CHECK_DEADLOCK FALSE
