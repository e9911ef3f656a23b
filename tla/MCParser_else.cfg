SPECIFICATION Spec
CONSTANTS
  Sources <- ShortBodies
  UninitCounts = {0}
  MAX_PARAM_COUNT = 2
INVARIANT
  StmtJumpLive
