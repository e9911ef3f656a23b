SPECIFICATION Spec
CONSTANTS
  Keys <- Short
  Symbols = {s1, s2}
  NULL = NULL
  MAX_IDENT_LEN = 3
  Size <- MCSize
  Hash <- HashOfShort
INVARIANTS
  TypeOK
  OneEntryPerKey
PROPERTY
  IsSymbolMap
