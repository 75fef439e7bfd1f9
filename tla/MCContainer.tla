---------------------------- MODULE MCContainer ----------------------------
(***************************************************************************)
(* The loader on containers that the compiler wrote, whole, cut short at   *)
(* every length, followed by a byte too many and with any one byte         *)
(* changed, and the executable that the packer makes of them.              *)
(***************************************************************************)
EXTENDS Container, Loader

CONSTANTS Damage    \* what one byte of a file may become

\* Modules, with the code of their functions standing for itself.
Function(name, locals, code) ==
  [name |-> name, num_locals |-> locals, param_names |-> << >>, posonly_count |-> 0,
   num_defaults |-> 0, kwonly_names |-> << >>, kwonly_slots |-> << >>, kwonly_flags |-> << >>,
   vararg_slot |-> NoSlot, kwarg_slot |-> NoSlot, cell_slots |-> << >>, free_names |-> << >>,
   line_table |-> << >>, code |-> code]

a == <<97>>
f == <<102>>
main == <<95, 109>>

Plain ==
  [globals |-> << >>, constants |-> << <<"none">> >>, source |-> <<109>>,
   functions |-> << Function(main, 0, <<16, 0>>) >>]

\* def f(a, /, a=.., *, ff, **k) with a cell and a free variable, and its module.
Full ==
  [globals |-> <<a, f>>,
   constants |-> << <<"int", Pack64(258)>>, <<"float", Pack64(7)>>, <<"str", <<104, 105>> >>,
                    <<"tuple", << <<"true">>, <<"tuple", << <<"bytes", <<0, 5>> >> >> >>,
                                  <<"false">> >> >>, <<"str", << >> >>, <<"none">>,
                    <<"true">> >>,
   source |-> <<109, 46>>,
   functions |->
     << [Function(f, 6, <<1, 2, 3>>) EXCEPT
           !.param_names = <<a, f>>, !.posonly_count = 1, !.num_defaults = 1,
           !.kwonly_names = << <<120>>, a>>, !.kwonly_slots = <<2, 3>>, !.kwonly_flags = <<1, 0>>,
           !.kwarg_slot = 5, !.cell_slots = <<0, 3>>, !.free_names = << <<122>> >>,
           !.line_table = << <<0, 1>>, <<2, 300>> >>],
        [Function(f, 1, <<4>>) EXCEPT !.vararg_slot = 0, !.free_names = << <<122>>, main>>],
        [Function(main, 0, <<5, 6>>) EXCEPT !.line_table = << <<0, 9>> >>] >>]

Modules == {Plain, Full}

\* The compiler refuses none of them.
ASSUME ModulesAssumption == \A m \in Modules : ~ContainerError(m)

Interned(m) == [m EXCEPT !.constants = FoldLeft(PoolAdd, << >>, m.constants \o m.constants)]
ContainerOf(m) == EncodeContainer(BuildModule(Interned(m), main))
Whole == {ContainerOf(m) : m \in Modules}

\* A file that ends after a line table, with lengths that agree: the code of its one
\* function and the length of that code are missing.
EndsInRecord ==
  LET names_ == NameTable(Plain.globals, Plain.functions)
      record == SerializeFunctions(Plain.functions, names_)
  IN EncodeContainer(Pack32(0) \o Section(1, SerializeConstants(Plain.constants))
                       \o Section(2, SerializeNames(names_))
                       \o Section(3, SubSeq(record, 1, Len(record) - 6)))

MCFiles ==
  Whole \cup {EndsInRecord}
  \cup {SubSeq(w, 1, n) : w \in {ContainerOf(Plain)}, n \in 0..Len(ContainerOf(Plain))}
  \cup {Append(w, 0) : w \in Whole}
  \cup {[w EXCEPT ![i] = v] : w \in {ContainerOf(Plain)}, i \in 1..Len(ContainerOf(Plain)), v \in Damage}
  \cup {[w EXCEPT ![i] = v] : w \in {ContainerOf(Full)}, i \in (HeaderLen + 1)..Len(ContainerOf(Full)), v \in Damage}

-----------------------------------------------------------------------------
(* The module as the VM should hold it *)

RECURSIVE Flat(_)
Flat(c) ==
  LET tag == TypeId[c[1]]
  IN CASE tag \in {0, 1, 2} -> << <<tag>> >>
       [] tag = 7           -> << <<tag, Len(c[2])>> >> \o Each(Flat, c[2])
       [] OTHER             -> << <<tag, c[2]>> >>

NameAt(i)    == names[i + 1]
NamesAt(is)  == [i \in DOMAIN is |-> NameAt(is[i])]
CodeOf(g)    == SubSeq(bytecode, g.code_offset + 1, g.code_offset + g.code_len)

SameFunction(g, fn) ==
  /\ NameAt(g.name_index) = fn.name
  /\ g.locals_count = fn.num_locals
  /\ NamesAt(g.param_names) = fn.param_names
  /\ g.posonly_count = fn.posonly_count
  /\ g.defaults_count = fn.num_defaults
  /\ NamesAt(g.kwonly_names) = fn.kwonly_names
  /\ g.kwonly_slots = fn.kwonly_slots
  /\ g.kwonly_flags = fn.kwonly_flags
  /\ g.vararg_slot = fn.vararg_slot
  /\ g.kwarg_slot = fn.kwarg_slot
  /\ g.cell_slots = fn.cell_slots
  /\ NamesAt(g.free_names) = fn.free_names
  /\ g.lines = FlattenSeq(fn.line_table)
  /\ CodeOf(g) = fn.code

SameModule(m) ==
  /\ constants = FlattenSeq([i \in DOMAIN m.constants |-> Flat(m.constants[i])])
  /\ \A i \in DOMAIN m.globals : names[i] = m.globals[i]
  /\ Len(functions) = Len(m.functions)
  /\ \A i \in DOMAIN functions : SameFunction(functions[i], m.functions[i])
  /\ entry = Len(m.functions) - 1
  /\ source = m.source

\* What the compiler writes, the loader reads back: a container that was not damaged
\* is refused for want of memory only, and the VM then holds every constant, name,
\* parameter, slot, line and byte of code of the module, with its body as the entry.
\* Excepted is a str with a NUL, which is cut there; False and True are themselves and
\* not the integers the documents name (both: ConstantsAsDocumented).
RoundTrip ==
  \A m \in Modules : file = ContainerOf(m) =>
    /\ pc = "loaded" => SameModule(m)
    /\ pc = "failed" => err = "OOM"

\* A module with the two Booleans and the text "a\0b", alone.
Departing == [Plain EXCEPT !.constants = << <<"false">>, <<"true">>, <<"str", <<97, 0, 98>> >> >>]
DepartureFiles == {ContainerOf(Departing)}

\* What docs/CVM2_FORMAT.md:76-83 says a constant without items loads as.
Documented(c) == CASE c[1] = "false" -> <<3, Pack64(0)>>
                   [] c[1] = "true"  -> <<3, Pack64(1)>>
                   [] OTHER          -> Flat(c)[1]

\* The table of constants in docs/CVM2_FORMAT.md: once a container is loaded, False is
\* the integer 0, True is the integer 1 and a str has all the bytes its length counts.
\* parse_constant makes Booleans of the first two and ends the third at its first NUL.
ConstantsAsDocumented ==
  (pc = "loaded" /\ file = ContainerOf(Departing)) =>
    constants = [i \in DOMAIN Departing.constants |-> Documented(Departing.constants[i])]

MCStubs == {<< >>, <<77>>, [i \in 1..300 |-> i % 256], Trailer \o Trailer \o Trailer \o Trailer}
=============================================================================
