SPECIFICATION Spec
CONSTANTS
  Names = {"x", "y"}
  Types <- IntType
  ArrayLengths = {}
  Signatures <- IntParam
  MaxNodes = 5
INVARIANT
  ShadowingLatest
