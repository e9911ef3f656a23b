SPECIFICATION BackendSpec
CONSTANTS
  Names <- NoneOf
  Types <- NoneOf
  ArrayLengths <- NoneOf
  Signatures <- NoneOf
  MaxNodes <- SixtyNodes
  ByteBase = 4
  Programs <- MCPrograms
INVARIANTS
  BackendTypeOK
  SugarOnlyInTargets
  CompiledRight
  StackBalanced
  StoresInSlots
PROPERTIES
  EndsWhatEnds
