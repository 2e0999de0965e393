SPECIFICATION Spec
CONSTANTS
  b1 = b1
  b2 = b2
  r1 = r1
  r2 = r2
  builder = builder
  reader = reader
  f1 = f1
  NULL = NULL
  s1 = s1
  s2 = s2
  Procs = {builder, reader}
  Objects = {b1, r1, r2}
  Owner <- BuilderAndReaders
  Builders = {b1}
  Overlapping = {reader}
  Files = {f1}
  FileSizes = {0, 1, 5}
  Slots = {s1, s2}
  MaxItems = 2
  TrimAbove = 1
  Careful = TRUE
SYMMETRY Alike
INVARIANTS
  ReaderSeesImage
  NoFault
  RootsAreConstructed
  NoMappingLeaks
