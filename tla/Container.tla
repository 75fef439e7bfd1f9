----------------------------- MODULE Container -----------------------------
(***************************************************************************)
(* What the compiler writes: the constant pool, the table of names and the *)
(* container of compiler/constants.py, symbols.py, container.py and        *)
(* crypto.py, as sequences of bytes.                                       *)
(*                                                                         *)
(* A constant is <<kind>>, <<kind, bytes>> or, for a tuple, <<"tuple",     *)
(* items>>; numbers and text come encoded.  A name is its UTF-8 bytes.  A  *)
(* function has the fields of CompiledFunction, with names in the places   *)
(* of names.                                                               *)
(***************************************************************************)
EXTENDS Executable, FiniteSets, SequencesExt

Each(Op(_), s) == FlattenSeq([i \in DOMAIN s |-> Op(s[i])])
IndexOf(s, x)  == Min({i \in DOMAIN s : s[i] = x}) - 1
Intern(s, x)   == IF \E i \in DOMAIN s : s[i] = x THEN s ELSE Append(s, x)

-----------------------------------------------------------------------------
(* ConstantPool *)

TypeId == [none |-> 0, false |-> 1, true |-> 2, int |-> 3, float |-> 4, str |-> 5, bytes |-> 6,
           tuple |-> 7]

RECURSIVE EncodeTagged(_)
EncodeTagged(c) ==
  Pack8(TypeId[c[1]]) \o
  CASE c[1] \in {"none", "false", "true"} -> << >>
    [] c[1] \in {"int", "float"}          -> c[2]
    [] c[1] \in {"str", "bytes"}          -> Pack32(Len(c[2])) \o c[2]
    [] c[1] = "tuple"                     -> Pack32(Len(c[2])) \o Each(EncodeTagged, c[2])

\* One entry for each type and encoding: 1, 1.0 and True are three constants.
FaultyPoolAdd(pool, c) ==
  IF \E i \in DOMAIN pool : Tail(EncodeTagged(pool[i])) = Tail(EncodeTagged(c)) THEN pool
  ELSE Append(pool, c)

PoolAdd(pool, c) ==
  IF \E i \in DOMAIN pool : EncodeTagged(pool[i]) = EncodeTagged(c) THEN pool ELSE Append(pool, c)

SerializeConstants(pool) == Pack32(Len(pool)) \o Each(EncodeTagged, pool)

-----------------------------------------------------------------------------
(* The container *)

NamesOf(fn) == <<fn.name>> \o fn.param_names \o fn.kwonly_names \o fn.free_names

\* The names of the globals, then of the functions and their parameters.
NameTable(globals, functions) == FoldLeft(Intern, globals, Each(NamesOf, functions))

SerializeName(n)      == Pack8(Len(n)) \o n
SerializeNames(names) == Pack32(Len(names)) \o Each(SerializeName, names)

SerializeFunction(fn, names) ==
  LET name(n) == Pack32(IndexOf(names, n))
      line(l) == Pack32(l[1]) \o Pack32(l[2])
  IN name(fn.name) \o Pack16(fn.num_locals) \o Pack16(Len(fn.param_names))
     \o Pack16(fn.posonly_count) \o Pack16(fn.num_defaults) \o Pack16(Len(fn.kwonly_names))
     \o Pack16(fn.vararg_slot) \o Pack16(fn.kwarg_slot)
     \o Pack16(Len(fn.cell_slots)) \o Pack16(Len(fn.free_names))
     \o Each(name, fn.param_names) \o Each(name, fn.kwonly_names)
     \o Each(Pack16, fn.kwonly_slots) \o fn.kwonly_flags
     \o Each(Pack16, fn.cell_slots) \o Each(name, fn.free_names)
     \o Pack32(Len(fn.line_table)) \o Each(line, fn.line_table)
     \o Pack32(Len(fn.code)) \o fn.code

SerializeFunctions(functions, names) ==
  Pack32(Len(functions)) \o FlattenSeq([i \in DOMAIN functions |-> SerializeFunction(functions[i], names)])

\* What container.py refuses to write.
ContainerError(module) ==
  \E i \in DOMAIN module.functions :
    LET fn == module.functions[i]
    IN \/ Len(fn.param_names) > fn.num_locals
       \/ fn.num_defaults > Len(fn.param_names)
       \/ Len(fn.kwonly_names) # Len(fn.kwonly_flags)

Section(tag, payload) == Pack8(tag) \o Pack32(Len(payload)) \o payload

\* build_module; the entry is the last function of that name.
BuildModule(module, entry) ==
  LET names == NameTable(module.globals, module.functions)
      at    == {i \in DOMAIN module.functions : module.functions[i].name = entry}
  IN Pack32(Max(at) - 1)
     \o Section(1, SerializeConstants(module.constants))
     \o Section(2, SerializeNames(names))
     \o Section(3, SerializeFunctions(module.functions, names))
     \o Section(4, module.source)

Magic   == <<67, 86, 77, 50>>     \* "CVM2"
Zeros(n) == [i \in 1..n |-> 0]

EncodeContainer(plain) ==
  Magic \o Pack8(5) \o Pack8(1) \o Pack16(0)
    \o Pack32(Len(plain)) \o Pack32(Len(plain)) \o Pack32(16) \o Pack32(12)
    \o Zeros(16) \o Zeros(12) \o plain
=============================================================================
