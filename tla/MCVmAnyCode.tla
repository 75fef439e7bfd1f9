---------------------------- MODULE MCVmAnyCode ----------------------------
(***************************************************************************)
(* Vm under arbitrary bytecode: every module of two functions whose bodies *)
(* are words over one of two alphabets, of control and of operand          *)
(* instructions, well formed or not.  The limits on the stack and on the   *)
(* frame chain are reached, pops run into operands of the caller and       *)
(* handlers outlive their region.  A body that does not return runs on     *)
(* into the entry code.                                                    *)
(***************************************************************************)
EXTENDS Vm, ExceptionTypes

CONSTANTS
  ControlLength,   \* instructions in a body of the control alphabet
  OperandLength    \* and in one of the operand alphabet

\* Calls (also of the function itself), callbacks, handlers, raising, returning.
ControlAlphabet ==
  << LoadValue(Func(1)), OpN("CALL", 1), NativeCode(2, "DIV_ZERO"), Op("RETURN"),
     OpN("SETUP_HANDLER", 1), Op("POP_TOP"), Op("EXCEPT_CLEAR"), Op("RERAISE") >>

\* Entry code: list(map(f, range(2))) under a handler, and a loop over
\* map(f, range(2)) with an operand below the iterator.
ControlEntries ==
  << << OpN("SETUP_HANDLER", 5), LoadValue(Native("apply")), LoadValue(Func(1)),
        LoadValue(RangeOf(2)), OpN("CALL", 2), Op("RETURN") >>,
     << LoadValue(MapOf(1, 2)), Op("GET_ITER"), Op("DUP_TOP"), OpN("FOR_ITER", 5),
        OpN("JUMP", 2), Op("RETURN") >> >>

\* Operands of every kind, and every way an instruction on them can fail.
OperandAlphabet ==
  << LoadValue(RangeOf(1)), LoadValue(Types({"KeyError"})), LoadValue(Types({"KeyError", "TypeError"})),
     LoadValue(Native("raise")), OpN("CALL", 0), OpN("CALL", 1),
     OpN("LOAD_FAST", 0), OpN("LOAD_FAST", 2), OpN("STORE_FAST", 0), OpN("STORE_FAST", 2),
     Op("DUP_TOP"), Op("GET_ITER"), OpN("FOR_ITER", 9), OpN("JUMP_IF_FALSE", 1),
     Op("EXCEPT_MATCH"), OpN("RAISE_VARARGS", 0), OpN("RAISE_VARARGS", 1), Op("POP_HANDLER"),
     NativeCode(1, "raise"), NativeCode(1, "value") >>

\* The function under a handler, called with one argument by a callback or
\* directly, and the end of the code reached without a return.
OperandEntries ==
  << << OpN("SETUP_HANDLER", 6), LoadValue(Native("apply")), LoadValue(Func(1)),
        LoadValue(RangeOf(1)), OpN("CALL", 2), Op("RETURN"), Op("NOP") >>,
     << LoadValue(Func(1)), LoadValue(None), OpN("CALL", 1), OpN("JUMP", 9) >> >>

Families ==
  [ control  |-> [length |-> ControlLength, alphabet |-> ControlAlphabet, entries |-> ControlEntries],
    operands |-> [length |-> OperandLength, alphabet |-> OperandAlphabet, entries |-> OperandEntries] ]

\* By the body of the function, the entry code, and the number of parameters.
ModuleOf(family, word, entry, params) ==
  [ source    |-> <<word, entry, params>>,
    bytecode  |-> [i \in DOMAIN word |-> family.alphabet[word[i]]] \o family.entries[entry],
    functions |-> << [code_offset |-> 0, params_count |-> params, locals_count |-> params],
                     [code_offset |-> Len(word), params_count |-> 0, locals_count |-> 0] >>,
    entry     |-> 2 ]

Codes ==
  UNION { {name} \X [1..Families[name].length -> DOMAIN Families[name].alphabet]
                 \X (DOMAIN Families[name].entries) \X {0, 1} : name \in DOMAIN Families }

MCModules == {ModuleOf(Families[c[1]], c[2], c[3], c[4]) : c \in Codes}
=============================================================================
