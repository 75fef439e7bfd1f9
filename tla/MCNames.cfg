\* Programs about names, closures, comprehensions and the order of evaluation.
SPECIFICATION Spec
CHECK_DEADLOCK FALSE
CONSTANTS
  Programs <- AllPrograms
INVARIANTS
  NamesAsInPython
  StatementsStartEmpty
