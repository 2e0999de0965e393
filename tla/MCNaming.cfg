SPECIFICATION Spec
CONSTANTS
  d1 = d1
  d2 = d2
  m1 = m1
  m2 = m2
  tiny = tiny
  short = short
  long = long
  NULL = NULL
  Process = Process
  MMDatas = {d1, d2}
  Mems = {m1, tiny}
  SmallMems = {tiny}
  Names = {short, long}
  LongNames = {long}
  Room = 4
  DefaultKeys = FALSE
SYMMETRY MMDatasAlike
INVARIANTS
  SelfContained
  NamesBindTheirObjects
  NothingElseLeaks
PROPERTIES
  NamesKeepTheirObjects
