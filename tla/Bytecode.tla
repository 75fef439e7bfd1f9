------------------------------ MODULE Bytecode ------------------------------
(***************************************************************************)
(* The vocabulary the compiler and the virtual machine share: values,      *)
(* failure codes, instructions, functions.                                 *)
(***************************************************************************)
EXTENDS Naturals, Sequences

CONSTANTS
  TypeNames,       \* names of the exception types
  Ancestors        \* type name -> that type and its bases

(***************************************************************************)
(* The failure codes a running program meets, VM_ERR_x, and the exception  *)
(* type the unwinder makes of each.                                        *)
(***************************************************************************)
ErrorTypeName ==
  [ TYPE |-> "TypeError",            VALUE |-> "ValueError",
    KEY |-> "KeyError",              BOUNDS |-> "IndexError",
    ATTR |-> "AttributeError",       RUNTIME |-> "RuntimeError",
    OVERFLOW |-> "OverflowError",    DIV_ZERO |-> "ZeroDivisionError",
    STOP |-> "StopIteration",        LOOKUP |-> "LookupError",
    UNICODE |-> "UnicodeError",      STACK |-> "UnboundLocalError",
    FUNC_NOT_FOUND |-> "NameError",  RECURSION |-> "RecursionError",
    OOM |-> "MemoryError" ]

ErrorCodes == DOMAIN ErrorTypeName

\* How a native ends: with a value, by setting only last_error (vm_fail), or
\* by storing an exception of its own first (vm_fail_with_value).
Outcomes == ErrorCodes \union {"value", "raise"}

(***************************************************************************)
(* Values.                                                                 *)
(***************************************************************************)
None       == [tag |-> "none"]
Bool(b)    == [tag |-> "bool", is |-> b]
Obj(i)     == [tag |-> "obj", id |-> i]
Exc(t)     == [tag |-> "exception", type |-> t]
Types(S)   == [tag |-> "types", names |-> S]     \* one class, or a tuple of several
Func(i)    == [tag |-> "function", index |-> i]
Native(k)  == [tag |-> "native", kind |-> k]
RangeOf(n) == [tag |-> "range", len |-> n]
MapOf(f, n) == [tag |-> "map", fn |-> f, len |-> n] \* map(f, range(n)), f a function index
Iter(i)    == [tag |-> "iterator", iter |-> i]
Null       == [tag |-> "null"]                   \* an unset local, no exception

NativeKinds == Outcomes \union {"print", "apply"}

Value ==
  [tag: {"none"}] \union [tag: {"bool"}, is: BOOLEAN] \union [tag: {"obj"}, id: Nat]
    \union [tag: {"exception"}, type: TypeNames]
    \union [tag: {"types"}, names: SUBSET TypeNames]
    \union [tag: {"function"}, index: Nat] \union [tag: {"native"}, kind: NativeKinds]
    \union [tag: {"range"}, len: Nat] \union [tag: {"map"}, fn: Nat, len: Nat]
    \union [tag: {"iterator"}, iter: Nat]

Exceptions == [tag: {"exception"}, type: TypeNames]

Truthy(v) == v # None /\ v # Bool(FALSE)

Opcodes ==
  {"NOP", "LOAD_CONST", "LOAD_FAST", "STORE_FAST", "POP_TOP", "DUP_TOP", "NATIVE_OP",
   "JUMP", "JUMP_IF_FALSE", "CALL", "RETURN", "GET_ITER", "FOR_ITER", "SETUP_HANDLER",
   "POP_HANDLER", "EXCEPT_MATCH", "EXCEPT_CLEAR", "RERAISE", "RAISE_VARARGS"}

\* n is the operand, v the constant or global an instruction loads, o how a
\* NATIVE_OP ends.
Instruction == [op: Opcodes, n: Nat, v: Value, o: Outcomes]
Function    == [code_offset: Nat, params_count: Nat, locals_count: Nat]

\* An instruction by its name and the fields it uses.
Op(op)            == [op |-> op, n |-> 0, v |-> None, o |-> "value"]
OpN(op, n)        == [Op(op) EXCEPT !.n = n]
LoadValue(v)      == [Op("LOAD_CONST") EXCEPT !.v = v]
NativeCode(n, o)  == [Op("NATIVE_OP") EXCEPT !.n = n, !.o = o]

ASSUME TypesAssumption ==
  /\ Ancestors \in [TypeNames -> SUBSET TypeNames]
  /\ {ErrorTypeName[c] : c \in ErrorCodes} \subseteq TypeNames
=============================================================================
