SPECIFICATION Spec
CONSTANTS
  b1 = b1
  b2 = b2
  r1 = r1
  r2 = r2
  builder = builder
  reader = reader
  f1 = f1
  f2 = f2
  NULL = NULL
  s1 = s1
  s2 = s2
  Procs = {builder}
  Objects = {b1, b2}
  Owner <- TwoBuilders
  Builders = {b1, b2}
  Overlapping = {builder}
  Files = {f1, f2}
  FileSizes = {5}
  Slots = {s1, s2}
  MaxItems = 2
  TrimAbove = 1
  Careful = TRUE
INVARIANTS
  ParamsStayMapped
