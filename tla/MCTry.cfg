SPECIFICATION FairSpec
CONSTANTS
  MaxStackDepth = 12
  MaxCallDepth = 4
  MaxIterators = 20
  MaxHandlers = 6
  TypeNames <- ExceptionNames
  Ancestors <- SubtypeOf
  Programs <- AllPrograms
  Modules <- Compiled
INVARIANTS
  AsInPython
  OperandsIsolated
  HandlersPaired
PROPERTIES
  Termination
