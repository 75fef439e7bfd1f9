--------------------------- MODULE ExceptionTypes ---------------------------
(***************************************************************************)
(* The exception types of vm_c/exceptions.c that the failure codes name,   *)
(* and their bases.                                                        *)
(***************************************************************************)
EXTENDS Naturals, FiniteSets

\* The rows of EXCEPTION_SPECS: type name -> base, "" for the root.
Base ==
  [ BaseException |-> "",                    Exception |-> "BaseException",
    ArithmeticError |-> "Exception",         OverflowError |-> "ArithmeticError",
    ZeroDivisionError |-> "ArithmeticError", AttributeError |-> "Exception",
    LookupError |-> "Exception",             IndexError |-> "LookupError",
    KeyError |-> "LookupError",              MemoryError |-> "Exception",
    NameError |-> "Exception",               UnboundLocalError |-> "NameError",
    RuntimeError |-> "Exception",            RecursionError |-> "RuntimeError",
    StopIteration |-> "Exception",           TypeError |-> "Exception",
    ValueError |-> "Exception",              UnicodeError |-> "ValueError" ]

ExceptionNames == DOMAIN Base

\* exception_type_is_subtype: t is a subtype of what its chain of bases holds.
SubtypeOf ==
  LET chain[t \in ExceptionNames, n \in 0..Cardinality(ExceptionNames)] ==
        IF n = 0 \/ Base[t] = "" THEN {t} ELSE {t} \union chain[Base[t], n - 1]
  IN [t \in ExceptionNames |-> chain[t, Cardinality(ExceptionNames)]]
=============================================================================
