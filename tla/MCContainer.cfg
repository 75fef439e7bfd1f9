SPECIFICATION Spec
CONSTANTS
  Files <- MCFiles
  Junk = {0, 255}
  Stubs <- MCStubs
  Damage = {0, 1, 2, 7, 64, 255}
INVARIANTS
  RoundTrip
  LoadedIsSound
  ReadsInside
  PackedIsFound
CHECK_DEADLOCK FALSE
