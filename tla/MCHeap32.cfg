SPECIFICATION Spec
CONSTANTS
  AddrMax = 22
  SIZE_T_SIZE = 4
  NSMALLBINS = 8
  SegBase = 1
  MSTATE_SIZE = 2
  InitTopSize = 18
  TOP_FOOT_SIZE = 5
  TRIM_THRESHOLD = 12
  MAX_RELEASE_CHECK_RATE = 2
  SIZE_T_MOD = 65536
  MallocSizes = {1, 32, 60}
  ReallocSizes = {}
  GrowSizes = {}
  TrimPads = {}
INVARIANTS
  TypeOK
  BoundaryTagsAgree
  NoAdjacentFree
  BinnedExactly
  NeverAborts
  FullCoalesce
  NullOnlyWhenFull
