SPECIFICATION BackendSpec
CONSTANTS
  Names <- NoneOf
  Types <- NoneOf
  ArrayLengths <- NoneOf
  Signatures <- NoneOf
  MaxNodes <- SixtyNodes
  ByteBase = 4
  Programs <- Assignments
INVARIANTS
  AssignmentCompiles
