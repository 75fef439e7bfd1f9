SPECIFICATION Spec
CONSTANTS
  MaxStackDepth = 24
  MaxCallDepth = 4
  MaxIterators = 40
  MaxHandlers = 6
  TypeNames <- ExceptionNames
  Ancestors <- SubtypeOf
  Programs <- Departures
  Modules <- Compiled
INVARIANTS
  AsInPython
