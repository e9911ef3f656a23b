SPECIFICATION Spec
CONSTANTS
  Names = {"x", "y"}
  Types <- TwoTypes
  ArrayLengths = {1, 2}
  Signatures <- FrameParams
  MaxNodes = 5
INVARIANTS
  TypeOK
  SlotsInFrame
  SlotsDisjoint
  UsesOwnFrame
  LexicalWhenUnambiguous
  FrameAlignedButParams
