SPECIFICATION Spec
CONSTANTS
  MaxStackDepth = 4
  MaxCallDepth = 3
  MaxIterators = 1
  MaxHandlers = 2
  ControlLength = 4
  OperandLength = 3
  TypeNames <- ExceptionNames
  Ancestors <- SubtypeOf
  Modules <- MCModules
INVARIANTS
  TypeOK
  FrameBases
  RaisedHasException
  NativeNesting
PROPERTY
  CallbacksConfined
