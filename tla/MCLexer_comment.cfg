SPECIFICATION Spec
CONSTANTS
  Texts <- AllTexts
  Letters <- MCLetters
  Digits <- MCDigits
  Keywords <- MCKeywords
  MAX_IDENT_LEN = 3
  MAX_NUMBER_LITERAL_LEN = 3
INVARIANT
  CommentEndRecognised
