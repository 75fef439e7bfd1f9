CONSTANTS
  Bits = 7
  IntMax = 63
  LenMax = 15
  Digits = 2
  heap <- MCHeap
  Doubles <- MCDoubles
  ToDouble <- MCToDouble
  Absent = Absent
  Steps <- MCSteps
  Bounds <- MCBounds
  MaxItems <- MCMaxItems
SPECIFICATION Spec
INVARIANTS
  ArithmeticExact
  PowModAsInPython
  RangesExact
  SlicesAsInPython
  EqualityAsPython
  MembershipAsPython
  OrderAsPython
  SetAlgebra
CHECK_DEADLOCK FALSE
