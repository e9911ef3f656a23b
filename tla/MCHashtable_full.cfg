SPECIFICATION Spec
CONSTANTS
  Keys <- AllKeys
  Symbols = {s1, s2}
  NULL = NULL
  MAX_IDENT_LEN = 3
  Size <- MCSize
  Hash <- HashOfAll
PROPERTY
  DuplicateRefused
