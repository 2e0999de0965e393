SPECIFICATION Spec
CONSTANTS
  m1 = m1
  m2 = m2
  m3 = m3
  NULL = NULL
  Mems = {m1, m2, m3}
  MemSize <- MCSize
  Base <- Aligned
  DirtyMems = {}
  WORD = 8
  SizeofState = 928
  PageSize = 65536
  SizeMax = 1000000000
  OptValues = {0, 4096, 5000, 1048576}
INVARIANT
  AcceptedHasMspace
