SPECIFICATION Spec
CONSTANTS
  a = a
  b = b
  c = c
  d = d
  Free = Free
  Deleted = Deleted
  NoData = NoData
  Keys = {a, b, c, d}
  Data = {1, 2}
  Hash <- Hashes
  Row <- HashSizes
INVARIANTS
  TypeOK
  SearchesEnd
  IterationIsComplete
PROPERTIES
  IsDictionary
