SPECIFICATION Spec
CONSTANTS
  AddrMax = 0
  SIZE_T_SIZE = 4
  NSMALLBINS = 4
  Chunks = {c1, c2, c3, c4}
  Sizes <- MixedSizes
  NULL = NULL
  Garbage = Garbage
  SizeBits <- BelowATebibyte
SYMMETRY Chunk_Symmetry
INVARIANTS
  BinsWellFormed
  UserMemoryUntouched
  SearchIsExact
  IndexIsExact
PROPERTIES
  ImplementsStore
