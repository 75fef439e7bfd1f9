SPECIFICATION Spec
CONSTANTS
  a = a
  b = b
  c = c
  d = d
  Keys = {a, b, c, d}
  Values = {"v", "w"}
  Hash <- FourHashes
  Capacities <- SmallCapacities
  MaxEntries = 3
  MayFail = TRUE
INVARIANTS
  TypeOK
  IndexSound
  ProbingEnds
PROPERTY
  DictSpec
