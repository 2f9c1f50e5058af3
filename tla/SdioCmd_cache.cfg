SPECIFICATION Spec
CONSTANTS
  Cmds = {c1, c2}
  CmdRetries = 1
  ResetRetries = 1
  Cached = TRUE
  None = None
INVARIANTS CacheLossGuarded
CHECK_DEADLOCK FALSE
