SPECIFICATION Spec
CONSTANTS
  Files <- DepartureFiles
  Junk = {0, 255}
  Stubs <- MCStubs
  Damage = {0, 1, 2, 7, 64, 255}
INVARIANTS
  ConstantsAsDocumented
CHECK_DEADLOCK FALSE
