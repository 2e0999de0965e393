SPECIFICATION Spec
CONSTANTS
  AddrMax = 15
  SIZE_T_SIZE = 4
  NSMALLBINS = 4
  SegBase = 1
  MSTATE_SIZE = 2
  InitTopSize = 11
  TOP_FOOT_SIZE = 5
  TRIM_THRESHOLD = 8
  MAX_RELEASE_CHECK_RATE = 1
  SIZE_T_MOD = 65536
  MallocSizes = {1}
  ReallocSizes = {20}
  GrowSizes = {}
  TrimPads = {}
INVARIANTS
  UsedIsExact
