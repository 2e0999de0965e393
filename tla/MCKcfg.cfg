SPECIFICATION Spec
CONSTANTS
  MaxMembers = 3
  BadCast = BadCast
  Types <- MCTypes
  Docs <- MCDocs
  Given <- MCGiven
  Names <- MCNames
  LexicalCast <- MCLexicalCast
  KeyText <- MCKeyText
  CString <- MCCString
CHECK_DEADLOCK FALSE
INVARIANTS
  ParsedAsMeant
  NothingHalfParsed
  RoundTrip
PROPERTY
  ParseReturns
