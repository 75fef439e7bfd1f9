\* A program that meets the departures from Python.
SPECIFICATION Spec
CHECK_DEADLOCK FALSE
CONSTANTS
  Programs <- Departures
INVARIANTS
  NamesAsInPython
