SPECIFICATION BSpec
CONSTANTS
  b1 = b1
  r1 = r1
  builder = builder
  reader = reader
  f1 = f1
  NULL = NULL
  s1 = s1
  s2 = s2
  Procs = {builder, reader}
  Objects = {b1, r1}
  Owner <- BuilderAndReader
  Builders = {b1}
  Overlapping = {}
  Files = {f1}
  FileSizes = {0, 1, 5}
  Slots = {s1, s2}
  MaxItems = 3
  TrimAbove = 1
  Careful = FALSE
  mfile = b1
  BufSizes = {1, 4}
  MaxLines = 3
INVARIANTS
  AnsweredMeansBuilt
  NothingStaysMapped
PROPERTIES
  BuildEnds
