SPECIFICATION SpecAlign
CONSTANTS
  AddrMax = 18
  SIZE_T_SIZE = 4
  NSMALLBINS = 4
  SegBase = 1
  MSTATE_SIZE = 2
  InitTopSize = 12
  TOP_FOOT_SIZE = 3
  TRIM_THRESHOLD = 16
  MAX_RELEASE_CHECK_RATE = 1
  SIZE_T_MOD = 32
  MallocSizes = {20}
  ReallocSizes = {}
  GrowSizes = {}
  TrimPads = {}
  Alignments = {8, 24}
  AlignSizes = {1, 12}
  CALLOC_HALF = 16
  CallocRequests <- MCCallocRequests
  Elements <- MCElements
INVARIANTS
  CutsKeepTheHeap
  HeldIntact
  AlignedAsAsked
  UsedIsExact
