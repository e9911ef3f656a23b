SPECIFICATION FairSpec
CONSTANTS
  Sources <- AllTexts
  UninitCounts = {0, 1}
  MAX_PARAM_COUNT = 2
INVARIANTS
  TypeOK
  ParamsInBounds
  ResumesInnermostOpenBlock
  DeclJumpLeavesNoBlock
  BracketsBalance
PROPERTIES
  OneErrorPerToken
  OnlyElseJumpsDead
  OnlyFullTablesOverflow
  Termination
