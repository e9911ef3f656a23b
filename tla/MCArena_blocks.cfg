SPECIFICATION Spec
CONSTANTS
  Addrs = {a1, a2, a3}
  NULL = NULL
  InitialCap = 1
  MaxItems = 5
  MaxLists = 2
SYMMETRY AddrsSymmetric
INVARIANTS
  TypeOK
  FreedOnce
  ListsOwnTheirBlocks
  StoresInRoom
  LeaksWhatStayed
