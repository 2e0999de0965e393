SPECIFICATION Spec
CONSTANTS
  AddrMax = 25
  SIZE_T_SIZE = 8
  NSMALLBINS = 8
  SegBase = 1
  MSTATE_SIZE = 4
  InitTopSize = 16
  TOP_FOOT_SIZE = 9
  TRIM_THRESHOLD = 16
  MAX_RELEASE_CHECK_RATE = 2
  SIZE_T_MOD = 36
  MallocSizes = {1, 33, 600000}
  ReallocSizes = {17, 65, 600000}
  GrowSizes = {4}
  TrimPads = {0, 600000}
INVARIANTS
  Tiling
  WasteBounded
  TruncationKeepsHeld
  SegmentEndsAfterTop
PROPERTIES
  ImplementsHeap
