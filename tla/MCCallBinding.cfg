CONSTANTS
  Functions <- MCLegal
  Calls <- MCCalls
SPECIFICATION Spec
INVARIANTS
  OwnersExact
  NothingLeft
  BindsAsPython
CHECK_DEADLOCK FALSE
