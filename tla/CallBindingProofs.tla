-------------------------- MODULE CallBindingProofs -------------------------
(***************************************************************************)
(* Proofs about a call of a Python function, for every signature and every *)
(* call: what every slot, array, container and cell holds after each       *)
(* statement, that the parameters are bound as Python binds them, that the *)
(* refcounts are the numbers of owners whichever allocation fails, and     *)
(* that a call that is over leaves nothing behind.                         *)
(*                                                                         *)
(* The binding is not inductive.  What a slot holds depends on the loops   *)
(* that went over it, and on how far the present one is: Bound says what   *)
(* Python wants in the end, BoundSoFar what each slot holds until then.    *)
(***************************************************************************)
EXTENDS CallBinding, FiniteSetTheorems, TLAPS

Before == {"ex_values", "ex_names", "enter"}
Binds  == {"rest", "keywords", "defaults", "kwdefaults", "kwargs"}

\* The locals are there and the call has not failed, the cells hold their part.
Filled == pc = "frame" \/ (pc \in {"drop_args", "body"} /\ err = "OK")
Live   == pc \in Binds \cup {"cells"} \/ Filled

Ncells == Len(func.cell_slots)
Nargs  == 1..NArgs
Slots  == 0..(func.nlocals - 1)

\* What a local may hold.
Given  == [i \in Nargs |-> Arg(i)]
Args   == {Arg(i) : i \in Nargs}
Things == Args \cup {Default(i) : i \in 1..func.defaults}
            \cup {KwDefault(i) : i \in 1..Len(func.kwonly)} \cup {Rest, Extra, Null}

TypeOK ==
  /\ func \in Functions /\ call \in Calls
  /\ pc \in Before \cup Binds \cup {"cells", "frame", "unwind", "drop_args", "body", "done"}
  /\ n \in Nat \ {0}
  /\ extra \in {Null, Extra}
  /\ rest_items \in Seq(Args)
  /\ entries \in Seq(STRING \X Args)
  /\ cells \in Seq(Objects)
  /\ inside \in [1..Ncells -> Things]
  /\ err \in {"OK", "OOM", "TYPE", "RECURSION"}

\* The C arrays of the arguments.
Arrays ==
  /\ pc \notin {"body", "done"} =>
       /\ lists = IF call.ex THEN Given ELSE << >>
       /\ values \in [Nargs -> Args \cup {Unset}]
       /\ \A i \in Nargs : values[i] \in {Arg(i), Unset}
  /\ pc = "ex_values" => \A i \in Nargs : values[i] = Unset
  /\ pc = "ex_names" => \A i \in Nargs : values[i] = IF i <= call.npos THEN Arg(i) ELSE Unset
  /\ pc \in {"enter", "cells", "frame", "unwind"} \cup Binds =>
       values = Given
  /\ pc \in {"ex_values", "ex_names"} => call.ex
  /\ pc \in {"body", "done"} => values = << >> /\ lists = << >>

\* What is there when.
Stages ==
  /\ pc \in Before => rest_items = << >>
  /\ Live \/ pc = "unwind" => locals \in [Slots -> Things]
  /\ ~(Live \/ pc = "unwind") => locals = << >> /\ cells = << >>
  /\ pc \in Before \cup Binds => cells = << >>
  /\ pc = "cells" => Len(cells) <= Ncells /\ \A i \in 1..Len(cells) : cells[i] = Cell(i)
  /\ pc \in Before \cup Binds \cup {"cells"} => inside = [i \in 1..Ncells |-> Null]
  /\ extra = Extra => pc \in Binds \cup {"unwind"} /\ func.kwarg
  /\ pc \in Before \cup Binds /\ extra = Null => entries = << >>
  /\ pc = "rest" => func.vararg /\ rest_items = << >> /\ extra = Null
  /\ pc \in Binds => \A s \in Slots : locals[s] # Extra
  /\ pc = "rest" => \A s \in Slots : locals[s] # Rest
  /\ pc = "keywords" => n <= Len(call.kwnames) \/ n = 1
  /\ pc = "kwdefaults" => n <= Len(func.kwonly) \/ n = 1
  /\ pc \in Before \cup Binds \cup {"cells", "frame", "body"} => err = "OK"
  /\ pc = "unwind" => err # "OK"

\* The local in a slot, which may have moved to a cell.
Local(s) == IF Filled THEN InSlot(s) ELSE locals[s]

\* How many keywords are bound, and what the i-th parameter got from the arguments.
Handled == IF pc = "rest" THEN 0 ELSE IF pc = "keywords" THEN n - 1 ELSE Len(call.kwnames)

NamedSoFar(name) == {k \in 1..Handled : call.kwnames[k] = name}

ParamSoFar(i) ==
  {Arg(j) : j \in {i} \cap (1..call.npos)}
    \cup {Arg(call.npos + k) : k \in IF i > func.posonly THEN NamedSoFar(func.params[i]) ELSE {}}

KwonlySoFar(i) == {Arg(call.npos + k) : k \in NamedSoFar(func.kwonly[i])}
ExtrasSoFar    == {k \in Extras(func, call) : k <= Handled}

\* Whether what no argument was given for has its default.
ParamsDone    == pc \notin {"rest", "keywords", "defaults"}
KwonlyDone(i) == ParamsDone /\ (pc = "kwdefaults" => i < n)

Bound1 ==
  \A i \in 1..NParams :
    /\ \A x \in ParamSoFar(i) : Local(i - 1) = x
    /\ ParamSoFar(i) = {} =>
         IF ParamsDone THEN HasDefault(func, i) /\ Local(i - 1) = Default(i - FirstDefault)
         ELSE Local(i - 1) = Null

Bound2 ==
  \A i \in 1..Len(func.kwonly) :
    /\ \A x \in KwonlySoFar(i) : Local(func.kwonly_slots[i]) = x
    /\ KwonlySoFar(i) = {} =>
         IF KwonlyDone(i) THEN func.kwflags[i] /\ Local(func.kwonly_slots[i]) = KwDefault(i)
         ELSE Local(func.kwonly_slots[i]) = Null

Bound3 ==
  IF func.vararg
  THEN /\ pc = "rest" => locals[func.vararg_slot] = Null
       /\ pc # "rest" => Local(func.vararg_slot) = Rest /\ rest_items = Bound(func, call).rest
  ELSE call.npos <= NParams

Bound4 ==
  IF func.kwarg
  THEN /\ Local(func.kwarg_slot) = IF pc \in Binds THEN Null ELSE Extra
       /\ Range(entries) = {<<call.kwnames[k], Arg(call.npos + k)>> : k \in ExtrasSoFar}
  ELSE ExtrasSoFar = {}

BoundSoFar == Live => Bound1 /\ Bound2 /\ Bound3 /\ Bound4

\* A TypeError is one in Python, or the loss of an entry of **kwargs.
TypeErrors == err = "TYPE" => BindError(func, call) \/ (func.kwarg /\ Extras(func, call) # {})

Inv == TypeOK /\ Arrays /\ Stages /\ BoundSoFar /\ TypeErrors
-----------------------------------------------------------------------------
(***************************************************************************)
(* Objects, signatures and calls.                                          *)
(***************************************************************************)
LEMMA IsSequence ==
  ASSUME NEW S, NEW m \in Nat, NEW f \in [1..m -> S]
  PROVE  f \in Seq(S) /\ Len(f) = m
OBVIOUS

LEMMA AppendIs ==
  ASSUME NEW S, NEW s \in Seq(S), NEW e \in S
  PROVE  /\ Append(s, e) \in Seq(S) /\ Len(s) \in Nat /\ Len(Append(s, e)) = Len(s) + 1
         /\ \A k \in 1..Len(s) : Append(s, e)[k] = s[k]
         /\ Append(s, e)[Len(s) + 1] = e
OBVIOUS

\* Objects of different kinds or numbers are different.
LEMMA Distinct ==
  /\ \A i, j : /\ Arg(i) = Arg(j) => i = j
               /\ Default(i) = Default(j) => i = j
               /\ KwDefault(i) = KwDefault(j) => i = j
               /\ Cell(i) = Cell(j) => i = j
               /\ Free(i) = Free(j) => i = j
               /\ Arg(i) # Default(j) /\ Arg(i) # KwDefault(j) /\ Arg(i) # Cell(j) /\ Arg(i) # Free(j)
               /\ Default(i) # KwDefault(j) /\ Default(i) # Cell(j) /\ Default(i) # Free(j)
               /\ KwDefault(i) # Cell(j) /\ KwDefault(i) # Free(j) /\ Cell(i) # Free(j)
  /\ \A i : \A o \in {Null, Unset, Rest, Extra} :
       o # Arg(i) /\ o # Default(i) /\ o # KwDefault(i) /\ o # Cell(i) /\ o # Free(i)
  /\ Null # Unset /\ Null # Rest /\ Null # Extra /\ Unset # Rest /\ Unset # Extra /\ Rest # Extra
BY DEF Arg, Default, KwDefault, Cell, Free, Null, Unset, Rest, Extra

\* What the assumptions say of the function and of the call under way.
LEMMA Signatures ==
  ASSUME TypeOK
  PROVE  /\ func.nlocals \in Nat /\ func.frees \in Nat
         /\ func.params \in Seq(STRING) /\ IsInjective(func.params) /\ NParams <= func.nlocals
         /\ NParams \in Nat /\ DOMAIN func.params = 1..NParams
         /\ func.posonly \in 0..NParams /\ func.defaults \in 0..NParams
         /\ func.kwonly \in Seq(STRING) /\ IsInjective(func.kwonly)
         /\ Len(func.kwonly) \in Nat /\ DOMAIN func.kwonly = 1..Len(func.kwonly)
         /\ Range(func.kwonly) \cap Range(func.params) = {}
         /\ func.kwflags \in [1..Len(func.kwonly) -> BOOLEAN]
         /\ func.kwonly_slots \in [1..Len(func.kwonly) -> OtherSlots(func)]
         /\ IsInjective(func.kwonly_slots)
         /\ func.vararg \in BOOLEAN /\ func.kwarg \in BOOLEAN
         /\ func.vararg => func.vararg_slot \in OtherSlots(func) \ Range(func.kwonly_slots)
         /\ func.kwarg => /\ func.kwarg_slot \in OtherSlots(func) \ Range(func.kwonly_slots)
                          /\ ~(func.vararg /\ func.vararg_slot = func.kwarg_slot)
         /\ func.cell_slots \in Seq(Slots) /\ IsInjective(func.cell_slots)
         /\ Ncells \in Nat /\ DOMAIN func.cell_slots = 1..Ncells
         /\ call.npos \in Nat /\ call.ex \in BOOLEAN
         /\ call.kwnames \in Seq(STRING) /\ IsInjective(call.kwnames)
         /\ Len(call.kwnames) \in Nat /\ DOMAIN call.kwnames = 1..Len(call.kwnames)
         /\ NArgs \in Nat
<1>1. func \in Functions /\ call \in Calls
  BY DEF TypeOK
<1>2. /\ func.params \in Seq(STRING) /\ func.kwonly \in Seq(STRING)
      /\ func.cell_slots \in Seq(Slots) /\ call.kwnames \in Seq(STRING) /\ call.npos \in Nat
  BY <1>1, FunctionsAssumption, CallsAssumption DEF Slots
<1>3. /\ NParams \in Nat /\ DOMAIN func.params = 1..NParams
      /\ Len(func.kwonly) \in Nat /\ DOMAIN func.kwonly = 1..Len(func.kwonly)
      /\ Ncells \in Nat /\ DOMAIN func.cell_slots = 1..Ncells
      /\ Len(call.kwnames) \in Nat /\ DOMAIN call.kwnames = 1..Len(call.kwnames)
      /\ NArgs \in Nat
  BY <1>2 DEF NParams, Ncells, NArgs
<1> QED
  BY <1>1, <1>2, <1>3, FunctionsAssumption, CallsAssumption DEF NParams, Slots

\* The function and the call stay the same, and what is made of them.
LEMMA SameCall ==
  ASSUME UNCHANGED <<func, call>>
  PROVE  /\ Args' = Args /\ Things' = Things /\ Objects' = Objects /\ Slots' = Slots
         /\ Nargs' = Nargs /\ Ncells' = Ncells /\ Given' = Given /\ NArgs' = NArgs
         /\ NParams' = NParams /\ Supplied' = Supplied /\ FirstDefault' = FirstDefault
BY DEF Args, Things, Objects, Slots, Nargs, Ncells, Given, NArgs, NParams, Supplied, FirstDefault

\* The smaller of two numbers.
LEMMA SuppliedIs ==
  ASSUME TypeOK
  PROVE  /\ Supplied \in Nat /\ Supplied <= call.npos /\ Supplied <= NParams
         /\ Supplied = call.npos \/ Supplied = NParams
<1>1. call.npos \in Nat /\ NParams \in Nat
  BY Signatures
<1>2. \E x \in {call.npos, NParams} : \A y \in {call.npos, NParams} : x <= y
  BY <1>1
<1> QED
  BY <1>1, <1>2 DEF Supplied, Min
\* Every parameter has a slot of its own.
LEMMA OwnSlots ==
  ASSUME TypeOK
  PROVE  /\ \A i \in 1..NParams : i - 1 \in Slots
         /\ \A i \in 1..Len(func.kwonly) :
              /\ func.kwonly_slots[i] \in Slots /\ func.kwonly_slots[i] >= NParams
              /\ func.vararg => func.kwonly_slots[i] # func.vararg_slot
              /\ func.kwarg => func.kwonly_slots[i] # func.kwarg_slot
         /\ \A i, j \in 1..Len(func.kwonly) : func.kwonly_slots[i] = func.kwonly_slots[j] => i = j
         /\ func.vararg => func.vararg_slot \in Slots /\ func.vararg_slot >= NParams
         /\ func.kwarg => func.kwarg_slot \in Slots /\ func.kwarg_slot >= NParams
         /\ func.vararg /\ func.kwarg => func.vararg_slot # func.kwarg_slot
<1> USE Signatures DEF OtherSlots, Slots
<1>1. \A i \in 1..NParams : i - 1 \in Slots
  OBVIOUS
<1>2. \A i \in 1..Len(func.kwonly) :
        /\ func.kwonly_slots[i] \in Slots /\ func.kwonly_slots[i] >= NParams
        /\ func.kwonly_slots[i] \in Range(func.kwonly_slots)
  <2>1. DOMAIN func.kwonly_slots = 1..Len(func.kwonly)
    OBVIOUS
  <2>2. \A i \in 1..Len(func.kwonly) : func.kwonly_slots[i] \in NParams..(func.nlocals - 1)
    BY DEF NParams
  <2>3. \A i \in 1..Len(func.kwonly) : func.kwonly_slots[i] \in Range(func.kwonly_slots)
    BY <2>1, Zenon DEF Range
  <2> QED
    BY <2>2, <2>3
<1>3. \A i, j \in 1..Len(func.kwonly) : func.kwonly_slots[i] = func.kwonly_slots[j] => i = j
  BY DEF IsInjective
<1> QED
  BY <1>1, <1>2, <1>3

LEMMA GivenType == Given \in [Nargs -> Args \cup {Unset}] /\ \A i \in Nargs : Given[i] = Arg(i)
BY DEF Given, Args

\* A keyword has no slot if it names no parameter.
LEMMA ExtraKeyword ==
  ASSUME TypeOK, IsExtra
  PROVE  Name \notin ByKeyword(func)
<1>1. SUFFICES ASSUME Name \in ByKeyword(func) PROVE FALSE
  OBVIOUS
<1>2. CASE \E i \in (func.posonly + 1)..NParams : Name = func.params[i]
  BY <1>2 DEF IsExtra, KeywordSlot
<1>3. CASE \E i \in 1..Len(func.kwonly) : Name = func.kwonly[i]
  BY <1>3 DEF IsExtra, KwonlySlot
<1> QED
  BY <1>1, <1>2, <1>3 DEF ByKeyword, NParams
-----------------------------------------------------------------------------
(***************************************************************************)
(* The statements of vm_call_ex, and those that fail.                      *)
(***************************************************************************)
LEMMA ExValuesInv ==
  ASSUME Inv, ExValues
  PROVE  Inv'
<1> USE DEF Inv, ExValues, Keep, Goto
<1>1. NArgs = call.npos + Len(call.kwnames) /\ call.npos \in Nat /\ Len(call.kwnames) \in Nat
      /\ (call.kwnames = << >> <=> Len(call.kwnames) = 0)
  BY Signatures DEF NArgs
<1>2. pc' \in {"enter", "ex_names"} /\ (pc' = "enter" <=> call.kwnames = << >>)
  OBVIOUS
<1>3. /\ values' = [i \in Nargs |-> IF i <= call.npos THEN Arg(i) ELSE Unset]
      /\ \A i \in Nargs : values'[i] = IF i <= call.npos THEN Arg(i) ELSE Unset
  BY <1>1 DEF Arrays, Nargs, Given
<1>4. TypeOK'
  BY <1>2, SameCall DEF TypeOK, Before, Binds
<1>5. Arrays'
  <2>1. values' \in [Nargs -> Args \cup {Unset}]
    BY <1>3 DEF Arrays, Nargs, Args
  <2>2. call.kwnames = << >> => values' = Given
    BY <1>1, <1>3 DEF Nargs, Given
  <2> QED
    BY <1>1, <1>2, <1>3, <2>1, <2>2, SameCall DEF Arrays, Binds
<1>6. Stages'
  BY <1>2, SameCall DEF Stages, Before, Binds, Live, Filled
<1>7. BoundSoFar' /\ TypeErrors'
  BY <1>2 DEF BoundSoFar, Live, Filled, Binds, TypeErrors
<1> QED
  BY <1>4, <1>5, <1>6, <1>7

LEMMA ExNamesInv ==
  ASSUME Inv, ExNames
  PROVE  Inv'
<1> USE DEF Inv, ExNames, Keep, Goto
<1>1. values' = Given
  BY DEF Arrays
<1>2. TypeOK'
  BY SameCall DEF TypeOK, Before, Binds
<1>3. Arrays'
  BY <1>1, SameCall, GivenType DEF Arrays, Binds
<1>4. Stages'
  BY SameCall DEF Stages, Before, Binds, Live, Filled
<1>5. BoundSoFar' /\ TypeErrors'
  BY DEF BoundSoFar, Live, Filled, Binds, TypeErrors
<1> QED
  BY <1>2, <1>3, <1>4, <1>5

\* The failures before there are locals.
LEMMA EarlyFailInv ==
  ASSUME Inv, ExNamesFail \/ EnterFail
  PROVE  Inv'
<1> USE DEF Inv
<1>1. /\ pc \in {"ex_names", "enter"} /\ pc' = "drop_args" /\ n' = 1 /\ err' \in {"OOM", "RECURSION"}
      /\ UNCHANGED <<func, call, lists, values, locals, extra, rest_items, entries, cells, inside>>
  BY DEF ExNamesFail, EnterFail, Keep, Goto, Bindings
<1>2. TypeOK'
  BY <1>1, SameCall DEF TypeOK, Before, Binds
<1>3. Arrays'
  BY <1>1, SameCall DEF Arrays, Binds, Before
<1>4. Stages'
  BY <1>1, SameCall DEF Stages, Before, Binds, Live, Filled
<1>5. BoundSoFar' /\ TypeErrors'
  BY <1>1 DEF BoundSoFar, Live, Filled, Binds, TypeErrors
<1> QED
  BY <1>2, <1>3, <1>4, <1>5

\* The failures that unwind what is bound so far.
LEMMA UnwindingInv ==
  ASSUME Inv, pc \in Binds \cup {"cells", "frame"}, NEW e \in {"OOM", "TYPE"}, Fail(e),
         UNCHANGED <<func, call, lists, values, locals, rest_items, entries, cells, inside>>,
         extra' = extra \/ (pc \in Binds /\ extra' = Extra /\ func.kwarg),
         e = "TYPE" => BindError(func, call) \/ (func.kwarg /\ Extras(func, call) # {})
  PROVE  Inv'
<1> USE DEF Inv, Fail, Goto
<1>1. pc' = "unwind" /\ n' = 1 /\ err' = e
  OBVIOUS
<1>2. TypeOK'
  BY <1>1, SameCall DEF TypeOK, Before, Binds
<1>3. Arrays'
  BY <1>1, SameCall DEF Arrays, Binds, Before
<1>4. Stages'
  BY <1>1, SameCall DEF Stages, Before, Binds, Live, Filled
<1>5. BoundSoFar'
  BY <1>1 DEF BoundSoFar, Live, Filled, Binds
<1>6. TypeErrors'
  BY <1>1 DEF TypeErrors
<1> QED
  BY <1>2, <1>3, <1>4, <1>5, <1>6

LEMMA AllocationFailsInv ==
  ASSUME Inv, BindRestFail \/ BindExtraFail \/ StoreKwargsFail \/ NewCellFail \/ NewFrameFail
  PROVE  Inv'
<1> USE DEF Keep, Bindings, Binds
<1>1. CASE BindRestFail \/ StoreKwargsFail \/ NewCellFail \/ NewFrameFail
  BY <1>1, UnwindingInv DEF BindRestFail, StoreKwargsFail, NewCellFail, NewFrameFail
<1>2. CASE BindExtraFail
  <2>1. n \in 1..Len(call.kwnames) /\ func.kwarg
    BY <1>2, Signatures DEF BindExtraFail, Inv, TypeOK
  <2>2. n \in Extras(func, call)
    BY <1>2, <2>1, ExtraKeyword DEF BindExtraFail, Extras, Name, Inv
  <2>3. \E e \in {"OOM", "TYPE"} : Fail(e) /\ (extra' = extra \/ extra' = Extra)
    BY <1>2 DEF BindExtraFail
  <2> QED
    BY <1>2, <2>1, <2>2, <2>3, UnwindingInv DEF BindExtraFail
<1> QED
  BY <1>1, <1>2
-----------------------------------------------------------------------------
(***************************************************************************)
(* The statements that bind.                                               *)
(***************************************************************************)
\* A call that has no more to go wrong with its positional arguments.
LEMMA EnterInv ==
  ASSUME Inv, Enter
  PROVE  Inv'
<1> USE DEF Inv, Enter, Keep, Goto
<1>0. \A s \in Slots : s < Supplied => s + 1 \in Nargs
  BY Signatures, SuppliedIs DEF Slots, Nargs, NArgs
<1>1. locals' = [s \in Slots |-> IF s < Supplied THEN Arg(s + 1) ELSE Null]
  <2>1. values = Given
    BY DEF Arrays
  <2> QED
    BY <1>0, <2>1, GivenType DEF Slots
<1>2. locals' \in [Slots -> Things]
  <2>1. \A s \in Slots : s < Supplied => Arg(s + 1) \in Args
    BY <1>0 DEF Args
  <2> QED
    BY <1>1, <2>1 DEF Things
<1>3. \A s \in Slots : locals'[s] # Extra /\ locals'[s] # Rest
  BY <1>1, Distinct
<1>4. /\ pc' \in {"rest", "keywords", "unwind"} /\ n' = 1 /\ err' \in {"OK", "TYPE"}
      /\ pc' = "unwind" <=> (call.npos > NParams /\ ~func.vararg)
      /\ pc' = "unwind" <=> err' = "TYPE"
      /\ pc' = "rest" => func.vararg
      /\ pc' = "keywords" => ~func.vararg
  BY DEF Stages, Before, Fail
<1>5. TypeOK'
  BY <1>4, SameCall DEF TypeOK, Binds
<1>6. Arrays'
  BY <1>4, SameCall DEF Arrays, Binds, Before
<1>7. Stages'
  <2>1. /\ cells = << >> /\ inside = [i \in 1..Ncells |-> Null] /\ extra = Null
        /\ entries = << >> /\ rest_items = << >> /\ Ncells' = Ncells /\ Slots' = Slots /\ Things' = Things
    BY SameCall DEF Stages, Before, Binds, TypeOK
  <2>2. UNCHANGED <<cells, inside, extra, entries, rest_items, func>>
    OBVIOUS
  <2> HIDE DEF Inv, Enter
  <2> QED
    BY <1>2, <1>3, <1>4, <2>1, <2>2, Distinct DEF Stages, Before, Binds, Live, Filled
<1>8. TypeErrors'
  BY <1>4, Signatures DEF TypeErrors, BindError, NParams
<1>9. ASSUME Live' PROVE Bound1' /\ Bound2' /\ Bound3' /\ Bound4'
  <2>1. pc' \in {"rest", "keywords"} /\ Handled' = 0 /\ ~Filled' /\ ~ParamsDone'
    BY <1>4, <1>9 DEF Live, Filled, Binds, Handled, ParamsDone
  <2>2. (\A x : NamedSoFar(x)' = {}) /\ ExtrasSoFar' = {}
    BY <2>1, Signatures DEF NamedSoFar, ExtrasSoFar, Extras
  <2>3. \A s : Local(s)' = locals'[s]
    BY <2>1 DEF Local
  <2>4. Bound1'
    <3>1. \A i \in 1..NParams : ParamSoFar(i)' = IF i <= call.npos THEN {Arg(i)} ELSE {}
      BY <2>2, Signatures DEF ParamSoFar
    <3>2. \A i \in 1..NParams : locals'[i - 1] = IF i <= call.npos THEN Arg(i) ELSE Null
      <4> TAKE i \in 1..NParams
      <4>1. i - 1 \in Slots /\ (i - 1) + 1 = i /\ (i - 1 < Supplied <=> i <= call.npos)
        BY OwnSlots, SuppliedIs, Signatures
      <4> QED
        BY <1>1, <4>1
    <3> QED
      BY <2>1, <2>3, <3>1, <3>2, SameCall DEF Bound1
  <2>5. Bound2'
    <3>1. \A i \in 1..Len(func.kwonly) : KwonlySoFar(i)' = {}
      BY <2>2 DEF KwonlySoFar
    <3>2. \A i \in 1..Len(func.kwonly) : locals'[func.kwonly_slots[i]] = Null
      BY <1>1, OwnSlots, SuppliedIs, Signatures DEF Slots
    <3> QED
      BY <2>1, <2>3, <3>1, <3>2 DEF Bound2, KwonlyDone
  <2>6. Bound3'
    BY <1>1, <1>4, <2>1, OwnSlots, SuppliedIs, Signatures, SameCall DEF Bound3, Slots
  <2>7. Bound4'
    <3>1. func.kwarg => locals'[func.kwarg_slot] = Null
      BY <1>1, OwnSlots, SuppliedIs, Signatures DEF Slots
    <3>2. Range(entries) = {}
      <4>1. entries = << >>
        BY DEF Stages, Before, Binds, TypeOK
      <4> QED
        BY <4>1 DEF Range
    <3> QED
      BY <2>1, <2>2, <2>3, <3>1, <3>2 DEF Bound4, Binds
  <2> QED
    BY <2>4, <2>5, <2>6, <2>7
<1> QED
  BY <1>5, <1>6, <1>7, <1>8, <1>9 DEF BoundSoFar

\* What is known while the parameters are bound, and what a statement that binds owes.
LEMMA AtBinds ==
  ASSUME Inv, pc \in Binds
  PROVE  /\ TypeOK /\ values = Given /\ locals \in [Slots -> Things] /\ err = "OK"
         /\ Live /\ ~Filled /\ (\A s : Local(s) = locals[s])
         /\ \A s \in Slots : locals[s] # Extra
         /\ extra = Null => entries = << >>
         /\ Bound1 /\ Bound2 /\ Bound3 /\ Bound4
<1>1. Live /\ ~Filled
  BY DEF Live, Filled, Binds
<1>2. \A s : Local(s) = locals[s]
  BY <1>1 DEF Local
<1> QED
  BY <1>1, <1>2 DEF Inv, Arrays, Stages, BoundSoFar

LEMMA BindingInv ==
  ASSUME Inv, pc \in Binds, pc' \in {"keywords", "defaults", "kwdefaults", "kwargs", "cells"},
         UNCHANGED <<func, call, lists, values, cells, inside, err>>,
         n' \in Nat \ {0},
         pc' = "keywords" => n' <= Len(call.kwnames) \/ n' = 1,
         pc' = "kwdefaults" => n' <= Len(func.kwonly) \/ n' = 1,
         locals' \in [Slots -> Things], rest_items' \in Seq(Args),
         pc' # "cells" => \A s \in Slots : locals'[s] # Extra,
         (extra' = extra /\ entries' = entries /\ pc' # "cells") \/
           (extra' = Null /\ entries' = entries /\ pc' = "cells") \/
           (extra' = Extra /\ entries' \in Seq(STRING \X Args) /\ pc' # "cells" /\ func.kwarg)
  PROVE  (TypeOK /\ Arrays /\ Stages /\ TypeErrors)'
<1> USE DEF Inv
<1>1. /\ cells = << >> /\ inside = [i \in 1..Ncells |-> Null] /\ err = "OK"
      /\ extra = Null => entries = << >>
  BY DEF Stages
<1>2. TypeOK'
  BY SameCall DEF TypeOK, Binds
<1>3. Arrays'
  BY SameCall DEF Arrays, Binds, Before
<1>4. Stages'
  <2>1. /\ cells' = << >> /\ inside' = [i \in 1..Ncells' |-> Null] /\ err' = "OK"
        /\ locals' \in [Slots' -> Things'] /\ Slots' = Slots
        /\ pc' # "cells" => \A s \in Slots' : locals'[s] # Extra
    BY <1>1, SameCall
  <2>2. extra' = Null /\ pc' # "cells" => entries' = << >>
    BY <1>1, Distinct
  <2>3. extra' = Extra => pc' # "cells" /\ func'.kwarg
    BY Distinct DEF Stages
  <2>4. Live' /\ pc' \notin Before
    BY DEF Live, Binds, Before
  <2>5. Ncells' \in Nat /\ Len(cells') = 0
    BY <2>1, Signatures, SameCall
  <2> QED
    BY <2>1, <2>2, <2>3, <2>4, <2>5 DEF Stages, Binds, Before
<1>5. TypeErrors'
  BY <1>1 DEF TypeErrors
<1> QED
  BY <1>2, <1>3, <1>4, <1>5

\* One slot is written, and the others keep what they hold.
LEMMA OneSlot ==
  ASSUME Inv, pc \in Binds, NEW t \in Slots, NEW o \in Things,
         locals' = [locals EXCEPT ![t] = o], pc' \in Binds \cup {"cells"}
  PROVE  /\ locals' \in [Slots -> Things] /\ ~Filled'
         /\ Local(t)' = o
         /\ \A s \in Slots : s # t => Local(s)' = Local(s)
<1>1. ~Filled'
  BY DEF Filled, Binds
<1>2. \A s : Local(s)' = locals'[s]
  BY <1>1 DEF Local
<1> QED
  BY <1>1, <1>2, AtBinds

LEMMA BindRestInv ==
  ASSUME Inv, BindRest
  PROVE  Inv'
<1> USE DEF BindRest, Keep, Goto
<1>1. /\ pc \in Binds /\ func.vararg /\ func.vararg_slot \in Slots /\ func.vararg_slot >= NParams
      /\ pc' = "keywords" /\ n' = 1
  BY OwnSlots DEF Inv, Stages, Binds
<1>2. Rest \in Things /\ Rest # Extra
  BY Distinct DEF Things
<1>3. /\ locals' \in [Slots -> Things] /\ ~Filled'
      /\ Local(func.vararg_slot)' = Rest
      /\ \A s \in Slots : s # func.vararg_slot => Local(s)' = Local(s)
  BY <1>1, <1>2, OneSlot DEF Binds
<1>4. rest_items' \in Seq(Args) /\ rest_items' = Bound(func, call).rest
  <2>1. rest_items' = SubSeq(Given, NParams + 1, call.npos)
    BY <1>1, AtBinds
  <2>2. NParams \in Nat /\ call.npos \in Nat /\ call.npos <= NArgs /\ NArgs \in Nat
    BY Signatures DEF Inv, NArgs
  <2>3. Given = [i \in 1..NArgs |-> Arg(i)] /\ \A i \in 1..NArgs : Arg(i) \in Args
    BY DEF Given, Args, Nargs
  <2> HIDE DEF BindRest
  <2>4. SubSeq(Given, NParams + 1, call.npos)
          = [j \in 1..(IF call.npos > NParams THEN call.npos - NParams ELSE 0) |-> Arg(NParams + j)]
    <3>1. CASE call.npos > NParams
      <4>1. \A j \in 1..(call.npos - NParams) :
              /\ NParams + j \in 1..NArgs
              /\ Given[NParams + j] = Arg(NParams + j)
        BY <2>2, <2>3, <3>1
      <4> QED
        BY <2>2, <3>1, <4>1
    <3>2. CASE ~(call.npos > NParams)
      BY <2>2, <3>2
    <3> QED
      BY <3>1, <3>2
  <2>5. \A j \in 1..(IF call.npos > NParams THEN call.npos - NParams ELSE 0) : Arg(NParams + j) \in Args
    BY <2>2, <2>3
  <2>6. rest_items' \in Seq(Args)
    <3> DEFINE m == IF call.npos > NParams THEN call.npos - NParams ELSE 0
    <3>1. m \in Nat
      BY <2>2
    <3>2. rest_items' \in [1..m -> Args]
      BY <2>1, <2>4, <2>5
    <3> HIDE DEF m
    <3> QED
      BY <3>1, <3>2, IsSequence
  <2> QED
    BY <2>1, <2>4, <2>6 DEF Bound, NParams
<1>5. (TypeOK /\ Arrays /\ Stages /\ TypeErrors)'
  <2>1. \A s \in Slots : locals'[s] # Extra
    BY <1>1, <1>2, <1>3, AtBinds
  <2>2. extra' = extra /\ entries' = entries /\ UNCHANGED <<func, call, lists, values, cells, inside, err>>
    OBVIOUS
  <2> QED
    BY <1>1, <1>3, <1>4, <2>1, <2>2, BindingInv
<1>6. Bound1' /\ Bound2' /\ Bound3' /\ Bound4'
  <2>1. Handled' = Handled /\ ParamsDone' = ParamsDone /\ ~ParamsDone
    BY <1>1 DEF Handled, ParamsDone
  <2>2. (\A x : NamedSoFar(x)' = NamedSoFar(x)) /\ ExtrasSoFar' = ExtrasSoFar
    BY <2>1 DEF NamedSoFar, ExtrasSoFar
  <2>3. Bound1'
    <3>1. \A i \in 1..NParams : ParamSoFar(i)' = ParamSoFar(i) /\ Local(i - 1)' = Local(i - 1)
      BY <1>1, <1>3, <2>2, OwnSlots, Signatures DEF ParamSoFar, Inv
    <3> QED
      BY <1>1, <2>1, <3>1, AtBinds, SameCall DEF Bound1
  <2>4. Bound2'
    <3>1. \A i \in 1..Len(func.kwonly) :
            KwonlySoFar(i)' = KwonlySoFar(i) /\ Local(func.kwonly_slots[i])' = Local(func.kwonly_slots[i])
      BY <1>1, <1>3, <2>2, OwnSlots DEF KwonlySoFar, Inv
    <3> QED
      BY <1>1, <2>1, <3>1, AtBinds DEF Bound2, KwonlyDone
  <2>5. Bound3'
    BY <1>1, <1>3, <1>4 DEF Bound3
  <2>6. Bound4'
    <3>1. func.kwarg => Local(func.kwarg_slot)' = Local(func.kwarg_slot)
      BY <1>1, <1>3, OwnSlots DEF Inv
    <3> QED
      BY <1>1, <2>2, <3>1, AtBinds DEF Bound4, Binds
  <2> QED
    BY <2>3, <2>4, <2>5, <2>6
<1> QED
  BY <1>5, <1>6 DEF BoundSoFar, Inv

-----------------------------------------------------------------------------
(***************************************************************************)
(* The loop over the keywords.                                             *)
(***************************************************************************)
\* What a parameter gets is among the arguments, which are finitely many.
LEMMA SourcesAreArgs ==
  ASSUME TypeOK
  PROVE  /\ IsFiniteSet(Args)
         /\ \A i : ParamSources(func, call, i) \subseteq Args
         /\ \A i : KwonlySources(func, call, i) \subseteq Args
<1>1. IsFiniteSet(Args)
  <2>1. IsFiniteSet(Nargs)
    BY Signatures, FS_Interval DEF Nargs
  <2>2. Given \in Surjection(Nargs, Args)
    BY DEF Given, Args, Surjection
  <2> QED
    BY <2>1, <2>2, FS_Surjection
<1>2. (\A j \in 1..call.npos : Arg(j) \in Args) /\ (\A k \in 1..Len(call.kwnames) : Arg(call.npos + k) \in Args)
  <2>1. /\ \A j \in 1..call.npos : j \in Nargs
        /\ \A k \in 1..Len(call.kwnames) : call.npos + k \in Nargs
    <3> HIDE DEF TypeOK
    <3>1. call.npos \in Nat /\ Len(call.kwnames) \in Nat
      BY Signatures
    <3> QED
      BY <3>1 DEF Nargs, NArgs
  <2> QED
    BY <2>1 DEF Args
<1> QED
  BY <1>1, <1>2 DEF ParamSources, KwonlySources, Named

\* Two of them are one too many.
LEMMA TwoSources ==
  ASSUME TypeOK, NEW S \in SUBSET Args, NEW x \in S, NEW y \in S, x # y
  PROVE  Cardinality(S) > 1
<1>1. IsFiniteSet(S) /\ IsFiniteSet({x, y}) /\ Cardinality(S) \in Nat
  BY SourcesAreArgs, FS_Subset, FS_CardinalityType
<1>2. Cardinality({x, y}) = 2
  <2>1. IsFiniteSet({x}) /\ Cardinality({x}) = 1 /\ y \notin {x} /\ {x} \cup {y} = {x, y}
    BY FS_Singleton
  <2> QED
    BY <2>1, FS_AddElement
<1>3. Cardinality({x, y}) <= Cardinality(S)
  BY <1>1, FS_Subset
<1> QED
  BY <1>1, <1>2, <1>3

\* One keyword more.
LEMMA KeywordLoop ==
  ASSUME TypeOK, pc = "keywords", n <= Len(call.kwnames), More(Len(call.kwnames), "defaults"),
         UNCHANGED <<func, call>>
  PROVE  /\ pc' \in {"keywords", "defaults"} /\ n' \in Nat \ {0} /\ n \in 1..Len(call.kwnames)
         /\ pc' = "keywords" => n' <= Len(call.kwnames)
         /\ Handled = n - 1 /\ Handled' = n /\ ~ParamsDone /\ ~ParamsDone'
         /\ \A x : NamedSoFar(x)' = NamedSoFar(x) \cup (IF x = Name THEN {n} ELSE {})
         /\ NamedSoFar(Name) = {}
         /\ ExtrasSoFar' = ExtrasSoFar \cup (IF n \in Extras(func, call) THEN {n} ELSE {})
<1>1. n \in 1..Len(call.kwnames) /\ Len(call.kwnames) \in Nat
  BY Signatures DEF TypeOK
<1>2. /\ pc' \in {"keywords", "defaults"} /\ n' \in Nat \ {0}
      /\ pc' = "keywords" => n' = n + 1 /\ n < Len(call.kwnames)
      /\ pc' = "defaults" => n = Len(call.kwnames)
  BY <1>1 DEF More, Goto
<1>3. Handled = n - 1 /\ Handled' = n
  <2>1. CASE pc' = "keywords"
    BY <1>1, <1>2, <2>1 DEF Handled
  <2>2. CASE pc' = "defaults"
    BY <1>1, <1>2, <2>2 DEF Handled
  <2> QED
    BY <1>2, <2>1, <2>2
<1>4. \A x : NamedSoFar(x)' = NamedSoFar(x) \cup (IF x = Name THEN {n} ELSE {})
  BY <1>1, <1>3 DEF NamedSoFar, Name
<1>5. NamedSoFar(Name) = {}
  BY <1>1, <1>3, Signatures DEF NamedSoFar, Name, IsInjective
<1>6. ExtrasSoFar' = ExtrasSoFar \cup (IF n \in Extras(func, call) THEN {n} ELSE {})
  BY <1>1, <1>3, Signatures DEF ExtrasSoFar, Extras
<1> QED
  BY <1>1, <1>2, <1>3, <1>4, <1>5, <1>6 DEF ParamsDone

\* The value of a keyword.
LEMMA ValueIs ==
  ASSUME Inv, pc \in Binds, n \in 1..Len(call.kwnames)
  PROVE  Value = Arg(call.npos + n) /\ Value \in Args /\ Value \in Things /\ Value \notin {Null, Extra}
<1>1. call.npos + n \in Nargs
  BY Signatures DEF Nargs, NArgs, Inv
<1>2. Value = Arg(call.npos + n)
  BY <1>1, AtBinds, GivenType DEF Value
<1> QED
  BY <1>1, <1>2, Distinct DEF Args, Things

\* A keyword that stands for a plain parameter which has no argument.
LEMMA BindParamInv ==
  ASSUME Inv, pc = "keywords", n <= Len(call.kwnames), Keep,
         NEW i \in (func.posonly + 1)..NParams, func.params[i] = Name, i > call.npos,
         locals' = [locals EXCEPT ![i - 1] = Value], err' = err, More(Len(call.kwnames), "defaults"),
         UNCHANGED <<values, extra, rest_items, entries, cells, inside>>
  PROVE  Inv'
<1> USE DEF Keep
<1>1. pc \in Binds /\ i \in 1..NParams /\ i - 1 \in Slots
  BY OwnSlots, Signatures DEF Binds, Inv
<1>2. /\ pc' \in {"keywords", "defaults"} /\ n' \in Nat \ {0} /\ n \in 1..Len(call.kwnames)
      /\ pc' = "keywords" => n' <= Len(call.kwnames)
      /\ Handled = n - 1 /\ Handled' = n /\ ~ParamsDone /\ ~ParamsDone'
      /\ \A x : NamedSoFar(x)' = NamedSoFar(x) \cup (IF x = Name THEN {n} ELSE {})
      /\ NamedSoFar(Name) = {}
      /\ ExtrasSoFar' = ExtrasSoFar \cup (IF n \in Extras(func, call) THEN {n} ELSE {})
  BY KeywordLoop DEF Inv
<1>3. Value = Arg(call.npos + n) /\ Value \in Things /\ Value # Extra
  BY <1>1, <1>2, ValueIs
<1>4. /\ locals' \in [Slots -> Things] /\ ~Filled'
      /\ Local(i - 1)' = Value
      /\ \A s \in Slots : s # i - 1 => Local(s)' = Local(s)
  BY <1>1, <1>2, <1>3, OneSlot DEF Binds
<1>5. (TypeOK /\ Arrays /\ Stages /\ TypeErrors)'
  <2>1. \A s \in Slots : locals'[s] # Extra
    BY <1>1, <1>3, AtBinds
  <2>2. rest_items' \in Seq(Args)
    BY DEF Inv, TypeOK
  <2> QED
    BY <1>1, <1>2, <1>4, <2>1, <2>2, BindingInv
<1>6. Name \in Range(func.params) /\ Name \notin Range(func.kwonly) /\ n \notin Extras(func, call)
  <2>1. Name \in Range(func.params) /\ func.params[i] \in ByKeyword(func)
    BY <1>1, Signatures DEF Range, Inv, ByKeyword, NParams
  <2> QED
    BY <1>2, <2>1, Signatures DEF Extras, Name, Inv
<1>7. Bound1'
  <2>1. ParamSoFar(i) = {} /\ ParamSoFar(i)' = {Arg(call.npos + n)}
    <3>1. {i} \cap (1..call.npos) = {} /\ i > func.posonly
      BY <1>1, Signatures DEF Inv
    <3>2. NamedSoFar(func.params[i]) = {} /\ NamedSoFar(func.params[i])' = {n}
      BY <1>2
    <3> QED
      BY <3>1, <3>2 DEF ParamSoFar
  <2>2. \A j \in 1..NParams : j # i => ParamSoFar(j)' = ParamSoFar(j) /\ Local(j - 1)' = Local(j - 1)
    <3> TAKE j \in 1..NParams
    <3> HAVE j # i
    <3>1. func.params[j] # Name
      BY <1>1, Signatures DEF IsInjective, Inv
    <3>2. ParamSoFar(j)' = ParamSoFar(j)
      BY <1>2, <3>1 DEF ParamSoFar
    <3> QED
      BY <1>1, <1>4, <3>2, OwnSlots DEF Inv
  <2>3. Bound1
    BY <1>1, AtBinds
  <2> QED
    BY <1>1, <1>2, <1>3, <1>4, <2>1, <2>2, <2>3, SameCall DEF Bound1
<1>8. Bound2'
  <2>1. \A j \in 1..Len(func.kwonly) : func.kwonly[j] # Name
    BY <1>6, Signatures DEF Range, Inv
  <2>2. \A j \in 1..Len(func.kwonly) :
          KwonlySoFar(j)' = KwonlySoFar(j) /\ Local(func.kwonly_slots[j])' = Local(func.kwonly_slots[j])
    <3> TAKE j \in 1..Len(func.kwonly)
    <3>1. func.kwonly_slots[j] \in Slots /\ func.kwonly_slots[j] # i - 1
      BY <1>1, OwnSlots, Signatures DEF Inv, Slots
    <3>2. KwonlySoFar(j)' = KwonlySoFar(j)
      BY <1>2, <2>1 DEF KwonlySoFar
    <3> QED
      BY <1>4, <3>1, <3>2
  <2> QED
    BY <1>1, <1>2, <2>2, AtBinds DEF Bound2, KwonlyDone
<1>9. Bound3' /\ Bound4'
  <2>1. /\ func.vararg => Local(func.vararg_slot)' = Local(func.vararg_slot)
        /\ func.kwarg => Local(func.kwarg_slot)' = Local(func.kwarg_slot)
    BY <1>1, <1>4, OwnSlots, Signatures DEF Inv, Slots
  <2>2. ExtrasSoFar' = ExtrasSoFar
    BY <1>2, <1>6
  <2> QED
    BY <1>1, <1>2, <2>1, <2>2, AtBinds, SameCall DEF Bound3, Bound4, Binds
<1> QED
  BY <1>5, <1>7, <1>8, <1>9 DEF BoundSoFar, Inv

\* A keyword that stands for a keyword-only parameter.
LEMMA BindKwonlyInv ==
  ASSUME Inv, pc = "keywords", n <= Len(call.kwnames), Keep, KeywordSlot(Name) = {},
         NEW i \in 1..Len(func.kwonly), func.kwonly[i] = Name,
         locals' = [locals EXCEPT ![func.kwonly_slots[i]] = Value], err' = err,
         More(Len(call.kwnames), "defaults"),
         UNCHANGED <<values, extra, rest_items, entries, cells, inside>>
  PROVE  Inv'
<1> USE DEF Keep
<1> DEFINE t == func.kwonly_slots[i]
<1>1. /\ pc \in Binds /\ t \in Slots /\ t >= NParams
      /\ func.vararg => t # func.vararg_slot
      /\ func.kwarg => t # func.kwarg_slot
  BY OwnSlots DEF Binds, Inv
<1>2. /\ pc' \in {"keywords", "defaults"} /\ n' \in Nat \ {0} /\ n \in 1..Len(call.kwnames)
      /\ pc' = "keywords" => n' <= Len(call.kwnames)
      /\ Handled = n - 1 /\ Handled' = n /\ ~ParamsDone /\ ~ParamsDone'
      /\ \A x : NamedSoFar(x)' = NamedSoFar(x) \cup (IF x = Name THEN {n} ELSE {})
      /\ NamedSoFar(Name) = {}
      /\ ExtrasSoFar' = ExtrasSoFar \cup (IF n \in Extras(func, call) THEN {n} ELSE {})
  BY KeywordLoop DEF Inv
<1>3. Value = Arg(call.npos + n) /\ Value \in Things /\ Value # Extra
  BY <1>1, <1>2, ValueIs
<1>4. /\ locals' \in [Slots -> Things] /\ ~Filled'
      /\ Local(t)' = Value
      /\ \A s \in Slots : s # t => Local(s)' = Local(s)
  BY <1>1, <1>2, <1>3, OneSlot DEF Binds
<1>5. (TypeOK /\ Arrays /\ Stages /\ TypeErrors)'
  <2>1. \A s \in Slots : locals'[s] # Extra
    BY <1>1, <1>3, AtBinds
  <2>2. rest_items' \in Seq(Args)
    BY DEF Inv, TypeOK
  <2> QED
    BY <1>1, <1>2, <1>4, <2>1, <2>2, BindingInv
<1>6. n \notin Extras(func, call)
  BY <1>2, Signatures DEF Extras, ByKeyword, Name, Inv
<1>7. Bound1'
  <2>1. \A j \in 1..NParams : j > func.posonly => func.params[j] # Name
    <3> TAKE j \in 1..NParams
    <3> HAVE j > func.posonly
    <3>1. j \in (func.posonly + 1)..NParams
      BY Signatures DEF Inv
    <3> QED
      BY <3>1 DEF KeywordSlot
  <2>2. \A j \in 1..NParams : ParamSoFar(j)' = ParamSoFar(j)
    BY <1>2, <2>1 DEF ParamSoFar
  <2>3. \A j \in 1..NParams : Local(j - 1)' = Local(j - 1)
    <3> TAKE j \in 1..NParams
    <3>1. j - 1 \in Slots /\ j - 1 # t
      BY <1>1, OwnSlots, Signatures DEF Inv, Slots
    <3> QED
      BY <1>4, <3>1
  <2>4. Bound1
    BY <1>1, AtBinds
  <2> QED
    BY <1>2, <2>2, <2>3, <2>4, SameCall DEF Bound1
<1>8. Bound2'
  <2>1. KwonlySoFar(i)' = {Arg(call.npos + n)}
    BY <1>2 DEF KwonlySoFar
  <2>2. \A j \in 1..Len(func.kwonly) :
          j # i => KwonlySoFar(j)' = KwonlySoFar(j) /\ Local(func.kwonly_slots[j])' = Local(func.kwonly_slots[j])
    <3> TAKE j \in 1..Len(func.kwonly)
    <3> HAVE j # i
    <3>1. func.kwonly_slots[j] \in Slots /\ func.kwonly_slots[j] # t
      BY OwnSlots DEF Inv
    <3>2. func.kwonly[j] # Name
      BY Signatures DEF IsInjective, Inv
    <3>3. KwonlySoFar(j)' = KwonlySoFar(j)
      BY <1>2, <3>2 DEF KwonlySoFar
    <3> QED
      BY <1>4, <3>1, <3>3
  <2>3. Bound2
    BY <1>1, AtBinds
  <2> QED
    BY <1>2, <1>3, <1>4, <2>1, <2>2, <2>3 DEF Bound2, KwonlyDone
<1>9. Bound3' /\ Bound4'
  <2>1. /\ func.vararg => Local(func.vararg_slot)' = Local(func.vararg_slot)
        /\ func.kwarg => Local(func.kwarg_slot)' = Local(func.kwarg_slot)
    BY <1>1, <1>4, OwnSlots DEF Inv
  <2>2. ExtrasSoFar' = ExtrasSoFar
    BY <1>2, <1>6
  <2> QED
    BY <1>1, <1>2, <2>1, <2>2, AtBinds, SameCall DEF Bound3, Bound4, Binds
<1> QED
  BY <1>5, <1>7, <1>8, <1>9 DEF BoundSoFar, Inv

LEMMA BindKeywordInv ==
  ASSUME Inv, BindKeyword
  PROVE  Inv'
<1> USE DEF BindKeyword, Keep
<1>1. n \in 1..Len(call.kwnames) /\ pc \in Binds
  BY Signatures DEF Inv, TypeOK, Binds
<1>2. CASE KeywordSlot(Name) # {}
  <2>1. PICK s \in KeywordSlot(Name) :
          IF s < Supplied THEN Fail("TYPE") /\ UNCHANGED <<locals, refs>>
          ELSE locals' = [locals EXCEPT ![s] = Value] /\ err' = err /\ More(Len(call.kwnames), "defaults")
    BY <1>2
  <2>2. PICK i \in (func.posonly + 1)..NParams : func.params[i] = Name /\ s = i - 1
    BY <2>1 DEF KeywordSlot
  <2>3. /\ i \in 1..NParams /\ (s < Supplied <=> i <= call.npos) /\ i > func.posonly
        /\ call.npos \in Nat /\ NParams = Len(func.params)
    BY <2>2, SuppliedIs, Signatures DEF Inv, NParams
  <2>4. CASE s < Supplied
    <3>1. n \in Named(call, func.params[i])
      BY <1>1, <2>2 DEF Named, Name
    <3>2. Arg(i) \in ParamSources(func, call, i) /\ Arg(call.npos + n) \in ParamSources(func, call, i)
      BY <2>3, <2>4, <3>1 DEF ParamSources
    <3>3. Arg(i) # Arg(call.npos + n)
      BY <1>1, <2>3, <2>4, Distinct
    <3>4. Cardinality(ParamSources(func, call, i)) > 1
      BY <3>2, <3>3, SourcesAreArgs, TwoSources DEF Inv
    <3>5. BindError(func, call)
      BY <2>3, <3>4 DEF BindError
    <3> QED
      BY <1>1, <2>1, <2>4, <3>5, UnwindingInv
  <2>5. CASE ~(s < Supplied)
    <3>1. i > call.npos
      BY <2>3, <2>5
    <3> QED
      BY <2>1, <2>2, <2>5, <3>1, BindParamInv
  <2> QED
    BY <2>4, <2>5
<1>3. CASE KeywordSlot(Name) = {}
  <2>1. PICK s \in KwonlySlot(Name) :
          IF locals[s] # Null THEN Fail("TYPE") /\ UNCHANGED <<locals, refs>>
          ELSE locals' = [locals EXCEPT ![s] = Value] /\ err' = err /\ More(Len(call.kwnames), "defaults")
    BY <1>3
  <2>2. PICK i \in 1..Len(func.kwonly) : func.kwonly[i] = Name /\ s = func.kwonly_slots[i]
    BY <2>1 DEF KwonlySlot
  <2>3. locals[s] = Null
    <3>1. Handled = n - 1 /\ ~ParamsDone
      BY DEF Handled, ParamsDone
    <3>2. KwonlySoFar(i) = {}
      BY <1>1, <2>2, <3>1, Signatures DEF KwonlySoFar, NamedSoFar, Name, IsInjective, Inv
    <3> QED
      BY <1>1, <2>2, <3>1, <3>2, AtBinds DEF Bound2, KwonlyDone
  <2> QED
    BY <1>3, <2>1, <2>2, <2>3, BindKwonlyInv
<1> QED
  BY <1>2, <1>3

\* A keyword that names no parameter.
LEMMA BindExtraInv ==
  ASSUME Inv, BindExtra
  PROVE  Inv'
<1> USE DEF BindExtra, Keep
<1>1. n \in 1..Len(call.kwnames) /\ pc \in Binds
  BY Signatures DEF Inv, TypeOK, Binds
<1>2. n \in Extras(func, call)
  BY <1>1, ExtraKeyword DEF Extras, Name, Inv
<1>3. CASE ~func.kwarg
  <2>1. BindError(func, call)
    BY <1>2, <1>3 DEF BindError
  <2> QED
    BY <1>1, <1>3, <2>1, UnwindingInv
<1>4. CASE func.kwarg
  <2>1. /\ pc' \in {"keywords", "defaults"} /\ n' \in Nat \ {0} /\ n \in 1..Len(call.kwnames)
        /\ pc' = "keywords" => n' <= Len(call.kwnames)
        /\ Handled = n - 1 /\ Handled' = n /\ ~ParamsDone /\ ~ParamsDone'
        /\ \A x : NamedSoFar(x)' = NamedSoFar(x) \cup (IF x = Name THEN {n} ELSE {})
        /\ NamedSoFar(Name) = {}
        /\ ExtrasSoFar' = ExtrasSoFar \cup (IF n \in Extras(func, call) THEN {n} ELSE {})
    BY <1>4, KeywordLoop DEF Inv
  <2>2. Value = Arg(call.npos + n) /\ Value \in Args
    BY <1>1, ValueIs
  <2>3. ~Filled' /\ \A s : Local(s)' = Local(s)
    <3>1. ~Filled'
      BY <2>1 DEF Filled
    <3> QED
      BY <1>1, <1>4, <3>1, AtBinds DEF Local
  <2>4. entries \in Seq(STRING \X Args) /\ Name \in STRING
    BY <1>1, Signatures DEF Inv, TypeOK, Name
  <2>5. entries' \in Seq(STRING \X Args) /\ Range(entries') = Range(entries) \cup {<<Name, Value>>}
    <3>1. <<Name, Value>> \in STRING \X Args
      BY <2>2, <2>4
    <3>2. entries' = Append(entries, <<Name, Value>>)
      BY <1>4
    <3> HIDE DEF BindExtra
    <3>3. /\ entries' \in Seq(STRING \X Args) /\ Len(entries') = Len(entries) + 1 /\ Len(entries) \in Nat
          /\ \A k \in 1..Len(entries) : entries'[k] = entries[k]
          /\ entries'[Len(entries) + 1] = <<Name, Value>>
      <4> DEFINE S == STRING \X Args
                 e == <<Name, Value>>
      <4>1. entries \in Seq(S) /\ e \in S /\ entries' = Append(entries, e)
        BY <2>4, <3>1, <3>2
      <4>2. /\ entries' \in Seq(S) /\ Len(entries') = Len(entries) + 1 /\ Len(entries) \in Nat
            /\ \A k \in 1..Len(entries) : entries'[k] = entries[k]
            /\ entries'[Len(entries) + 1] = e
        <5> HIDE DEF S, e
        <5> QED
          BY <4>1, AppendIs
      <4> QED
        BY <4>2
    <3>4. DOMAIN entries = 1..Len(entries) /\ DOMAIN entries' = 1..(Len(entries) + 1)
      BY <2>4, <3>3
    <3>5. ASSUME NEW e PROVE e \in Range(entries') <=> e \in Range(entries) \cup {<<Name, Value>>}
      <4>1. \A k \in DOMAIN entries' : k \in DOMAIN entries \/ k = Len(entries) + 1
        BY <3>3, <3>4
      <4>2. \A k \in DOMAIN entries : k \in DOMAIN entries'
        BY <3>3, <3>4
      <4>3. Len(entries) + 1 \in DOMAIN entries'
        BY <3>3, <3>4
      <4> QED
        BY <3>3, <3>4, <4>1, <4>2, <4>3 DEF Range
    <3> QED
      BY <3>3, <3>5
  <2>6. (TypeOK /\ Arrays /\ Stages /\ TypeErrors)'
    <3>1. locals' \in [Slots -> Things] /\ \A s \in Slots : locals'[s] # Extra
      BY <1>1, <1>4, AtBinds
    <3>2. rest_items' \in Seq(Args)
      BY DEF Inv, TypeOK
    <3> QED
      BY <1>1, <1>4, <2>1, <2>5, <3>1, <3>2, BindingInv
  <2>7. Name \notin ByKeyword(func)
    BY ExtraKeyword DEF Inv
  <2>8. Bound1'
    <3>1. \A j \in 1..NParams : j > func.posonly => func.params[j] # Name
      BY <2>7, Signatures DEF ByKeyword, NParams, Inv
    <3>2. \A j \in 1..NParams : ParamSoFar(j)' = ParamSoFar(j)
      BY <1>4, <2>1, <3>1 DEF ParamSoFar
    <3> QED
      BY <1>1, <2>1, <2>3, <3>2, AtBinds, SameCall DEF Bound1
  <2>9. Bound2'
    <3>1. \A j \in 1..Len(func.kwonly) : KwonlySoFar(j)' = KwonlySoFar(j)
      BY <2>1, <2>7 DEF KwonlySoFar, ByKeyword
    <3> QED
      BY <1>1, <2>1, <2>3, <3>1, AtBinds DEF Bound2, KwonlyDone
  <2>10. Bound3'
    BY <1>1, <2>1, <2>3, AtBinds, SameCall DEF Bound3
  <2>11. Bound4'
    <3>1. ExtrasSoFar' = ExtrasSoFar \cup {n}
      BY <1>2, <2>1
    <3>2. Range(entries) = {<<call.kwnames[k], Arg(call.npos + k)>> : k \in ExtrasSoFar}
      BY <1>1, <1>4, AtBinds DEF Bound4
    <3>3. Range(entries') = {<<call.kwnames[k], Arg(call.npos + k)>> : k \in ExtrasSoFar'}
      BY <2>2, <2>5, <3>1, <3>2 DEF Name
    <3>4. Local(func.kwarg_slot)' = Null
      BY <1>1, <1>4, <2>3, AtBinds DEF Bound4
    <3>5. pc' \in Binds /\ Range(entries)' = Range(entries')
      BY <2>1 DEF Binds, Range
    <3> QED
      BY <1>4, <3>3, <3>4, <3>5 DEF Bound4
  <2> QED
    BY <2>6, <2>8, <2>9, <2>10, <2>11 DEF BoundSoFar, Inv
<1> QED
  BY <1>3, <1>4, Signatures DEF Inv

-----------------------------------------------------------------------------
(***************************************************************************)
(* Defaults and **kwargs.                                                  *)
(***************************************************************************)
\* When the keywords are done every argument has been looked at.
LEMMA AllSources ==
  ASSUME TypeOK, pc \notin {"rest", "keywords"}
  PROVE  /\ \A i \in 1..NParams : ParamSoFar(i) = ParamSources(func, call, i)
         /\ \A i \in 1..Len(func.kwonly) : KwonlySoFar(i) = KwonlySources(func, call, i)
         /\ ExtrasSoFar = Extras(func, call)
<1>1. Handled = Len(call.kwnames)
  BY DEF Handled
<1>2. \A x : NamedSoFar(x) = Named(call, x)
  BY <1>1 DEF NamedSoFar, Named
<1>3. ExtrasSoFar = Extras(func, call)
  BY <1>1, Signatures DEF ExtrasSoFar, Extras
<1> QED
  BY <1>2, <1>3 DEF ParamSoFar, ParamSources, KwonlySoFar, KwonlySources

\* A statement that binds nothing; it may move locals to the cells.
LEMMA BoundCarried ==
  ASSUME Inv, Live, UNCHANGED <<func, call, rest_items, entries>>,
         \A s \in Slots : Local(s)' = Local(s),
         Handled' = Handled, ParamsDone' = ParamsDone,
         \A i \in 1..Len(func.kwonly) : KwonlyDone(i)' = KwonlyDone(i),
         pc \in Binds <=> pc' \in Binds, pc # "rest", pc' # "rest"
  PROVE  BoundSoFar'
<1>1. Bound1 /\ Bound2 /\ Bound3 /\ Bound4
  BY DEF Inv, BoundSoFar
<1>2. /\ \A i \in 1..NParams : Local(i - 1)' = Local(i - 1)
      /\ \A i \in 1..Len(func.kwonly) : Local(func.kwonly_slots[i])' = Local(func.kwonly_slots[i])
      /\ func.vararg => Local(func.vararg_slot)' = Local(func.vararg_slot)
      /\ func.kwarg => Local(func.kwarg_slot)' = Local(func.kwarg_slot)
  BY OwnSlots DEF Inv
<1>3. (\A x : NamedSoFar(x)' = NamedSoFar(x)) /\ ExtrasSoFar' = ExtrasSoFar
  BY DEF NamedSoFar, ExtrasSoFar
<1>4. \A i : ParamSoFar(i)' = ParamSoFar(i) /\ KwonlySoFar(i)' = KwonlySoFar(i)
  BY <1>3 DEF ParamSoFar, KwonlySoFar
<1>5. Bound1'
  BY <1>1, <1>2, <1>4, SameCall DEF Bound1
<1>6. Bound2'
  BY <1>1, <1>2, <1>4 DEF Bound2
<1>7. Bound3'
  BY <1>1, <1>2, SameCall DEF Bound3
<1>8. Bound4'
  BY <1>1, <1>2, <1>3 DEF Bound4
<1> QED
  BY <1>5, <1>6, <1>7, <1>8 DEF BoundSoFar

LEMMA LocalsKept ==
  ASSUME UNCHANGED <<func, locals, inside>>, Filled' = Filled
  PROVE  \A s : Local(s)' = Local(s)
BY DEF Local, InSlot

LEMMA NothingToBindInv ==
  ASSUME Inv, NoKeywords \/ NoKwonly
  PROVE  Inv'
<1> USE DEF Keep, Bindings, Goto
<1>1. /\ pc \in {"keywords", "kwdefaults"} /\ n' = 1
      /\ pc = "keywords" => pc' = "defaults" /\ call.kwnames = << >>
      /\ pc = "kwdefaults" => pc' = "kwargs" /\ func.kwonly = << >>
      /\ UNCHANGED <<func, call, lists, values, locals, extra, rest_items, entries, cells, inside, err>>
  BY DEF NoKeywords, NoKwonly
<1>2. pc \in Binds /\ pc' \in Binds /\ pc # "rest" /\ pc' # "rest" /\ pc' # "keywords" /\ pc' # "kwdefaults"
  BY <1>1 DEF Binds
<1>3. (TypeOK /\ Arrays /\ Stages /\ TypeErrors)'
  <2>1. locals' \in [Slots -> Things] /\ \A s \in Slots : locals'[s] # Extra
    BY <1>1, <1>2, AtBinds
  <2>2. rest_items' \in Seq(Args)
    BY <1>1 DEF Inv, TypeOK
  <2> QED
    BY <1>1, <1>2, <2>1, <2>2, BindingInv
<1>4. BoundSoFar'
  <2>1. Live /\ Filled' = Filled
    BY <1>1 DEF Live, Filled, Binds
  <2>2. Handled' = Handled /\ ParamsDone' = ParamsDone
    <3>1. pc = "keywords" => n = 1 /\ Len(call.kwnames) = 0
      BY <1>1 DEF Inv, Stages, TypeOK
    <3> QED
      BY <1>1, <3>1 DEF Handled, ParamsDone
  <2>3. \A i \in 1..Len(func.kwonly) : KwonlyDone(i)' = KwonlyDone(i)
    BY <1>1, <2>2 DEF KwonlyDone, ParamsDone
  <2> QED
    BY <1>1, <1>2, <2>1, <2>2, <2>3, LocalsKept, BoundCarried
<1> QED
  BY <1>3, <1>4 DEF Inv

LEMMA FillDefaultsInv ==
  ASSUME Inv, FillDefaults
  PROVE  Inv'
<1> DEFINE missing == {s \in 0..(NParams - 1) : locals[s] = Null}
           fill == IF \E s \in missing : s < FirstDefault THEN {} ELSE missing
<1>1. /\ pc = "defaults" /\ pc \in Binds
      /\ locals' = [s \in DOMAIN locals |-> IF s \in fill THEN Default(s - FirstDefault + 1) ELSE locals[s]]
      /\ IF fill # missing THEN Fail("TYPE") ELSE err' = err /\ Goto("kwdefaults")
      /\ UNCHANGED <<func, call, lists, values, extra, rest_items, entries, cells, inside>>
  BY DEF FillDefaults, Binds, Keep
<1>2. /\ NParams \in Nat /\ func.defaults \in 0..NParams /\ FirstDefault = NParams - func.defaults
      /\ NParams <= func.nlocals /\ func.nlocals \in Nat
  BY Signatures DEF Inv, FirstDefault
<1>3. DOMAIN locals = Slots /\ locals \in [Slots -> Things] /\ 0..(NParams - 1) \subseteq Slots
  BY <1>1, <1>2, AtBinds DEF Slots
<1>4. \A i \in 1..NParams : ParamSoFar(i) = ParamSources(func, call, i)
  BY <1>1, AllSources DEF Inv
<1>5. CASE fill # missing
  <2>1. PICK s \in missing : s < FirstDefault
    BY <1>5
  <2>2. s + 1 \in 1..NParams /\ (s + 1) - 1 = s /\ ~HasDefault(func, s + 1)
    BY <1>2, <2>1 DEF HasDefault, NParams
  <2>3. ParamSources(func, call, s + 1) = {}
    <3>1. \A x \in ParamSoFar(s + 1) : locals[s] = x
      BY <1>1, <2>2, AtBinds DEF Bound1
    <3>2. \A x \in ParamSoFar(s + 1) : x # Null
      BY <1>4, <2>2, SourcesAreArgs, Distinct DEF Args, Inv
    <3> QED
      BY <1>4, <2>1, <2>2, <3>1, <3>2
  <2>4. BindError(func, call)
    BY <2>2, <2>3 DEF BindError, NParams
  <2>5. locals' = locals
    BY <1>1, <1>3, <1>5
  <2>6. Fail("TYPE")
    BY <1>1, <1>5
  <2> HIDE DEF fill, missing
  <2> QED
    BY <1>1, <2>4, <2>5, <2>6, UnwindingInv
<1>6. CASE fill = missing
  <2>1. pc' = "kwdefaults" /\ n' = 1 /\ err' = err
    BY <1>1, <1>6 DEF Goto
  <2>2. \A s \in Slots : locals'[s] = IF s \in missing THEN Default(s - FirstDefault + 1) ELSE locals[s]
    BY <1>1, <1>3, <1>6
  <2>3. \A s \in missing : s >= FirstDefault /\ s - FirstDefault + 1 \in 1..func.defaults
    <3> TAKE s \in missing
    <3>1. s \in 0..(NParams - 1) /\ ~(s < FirstDefault)
      BY <1>6
    <3> QED
      BY <1>2, <3>1
  <2>4. locals' \in [Slots -> Things] /\ \A s \in Slots : locals'[s] # Extra
    <3>1. \A s \in missing : Default(s - FirstDefault + 1) \in Things /\ Default(s - FirstDefault + 1) # Extra
      BY <2>3, Distinct DEF Things
    <3>2. \A s \in Slots : locals[s] # Extra
      BY <1>1, AtBinds
    <3>3. locals' = [s \in Slots |-> IF s \in missing THEN Default(s - FirstDefault + 1) ELSE locals[s]]
      BY <1>1, <1>3, <1>6
    <3> HIDE DEF fill, missing
    <3> QED
      BY <1>3, <2>2, <3>1, <3>2, <3>3
  <2>5. (TypeOK /\ Arrays /\ Stages /\ TypeErrors)'
    <3>1. rest_items' \in Seq(Args)
      BY <1>1 DEF Inv, TypeOK
    <3> HIDE DEF fill, missing
    <3> QED
      BY <1>1, <2>1, <2>4, <3>1, BindingInv
  <2>6. /\ ~Filled' /\ Handled' = Handled /\ ~ParamsDone /\ ParamsDone'
        /\ \A i : KwonlyDone(i) = FALSE /\ (i \in 1..Len(func.kwonly) => KwonlyDone(i)' = FALSE)
    BY <1>1, <2>1 DEF Filled, Handled, ParamsDone, KwonlyDone
  <2>7. /\ \A i : ParamSoFar(i)' = ParamSoFar(i) /\ KwonlySoFar(i)' = KwonlySoFar(i)
        /\ ExtrasSoFar' = ExtrasSoFar
    BY <1>1, <2>6 DEF ParamSoFar, KwonlySoFar, NamedSoFar, ExtrasSoFar
  <2>8. \A s : Local(s)' = locals'[s] /\ Local(s) = locals[s]
    BY <1>1, <2>6, AtBinds DEF Local
  <2>9. Bound1'
    <3> SUFFICES ASSUME NEW i \in 1..NParams
                 PROVE  /\ \A x \in ParamSoFar(i) : locals'[i - 1] = x
                        /\ ParamSoFar(i) = {} =>
                             HasDefault(func, i) /\ locals'[i - 1] = Default(i - FirstDefault)
      BY <1>1, <2>6, <2>7, <2>8, SameCall DEF Bound1
    <3>1. i - 1 \in Slots /\ i - 1 \in 0..(NParams - 1)
      BY <1>2, <1>3
    <3>2. /\ \A x \in ParamSoFar(i) : locals[i - 1] = x
          /\ ParamSoFar(i) = {} => locals[i - 1] = Null
      BY <1>1, <2>6, <2>8, AtBinds DEF Bound1
    <3>3. \A x \in ParamSoFar(i) : x # Null
      BY <1>4, SourcesAreArgs, Distinct DEF Args, Inv
    <3>4. CASE ParamSoFar(i) = {}
      <4>1. i - 1 \in missing
        BY <3>1, <3>2, <3>4
      <4>2. locals'[i - 1] = Default((i - 1) - FirstDefault + 1) /\ i - 1 >= FirstDefault
        BY <2>2, <2>3, <3>1, <4>1
      <4>3. (i - 1) - FirstDefault + 1 = i - FirstDefault /\ HasDefault(func, i)
        BY <1>2, <4>2 DEF HasDefault, NParams
      <4> QED
        BY <3>4, <4>2, <4>3
    <3>5. CASE ParamSoFar(i) # {}
      <4>1. i - 1 \notin missing
        BY <3>2, <3>3, <3>5
      <4> QED
        BY <2>2, <3>1, <3>2, <3>5, <4>1
    <3> QED
      BY <3>4, <3>5
  <2>10. \A s \in Slots : s >= NParams => locals'[s] = locals[s]
    BY <1>2, <2>2 DEF Slots
  <2>11. Bound2'
    <3>1. \A i \in 1..Len(func.kwonly) : locals'[func.kwonly_slots[i]] = locals[func.kwonly_slots[i]]
      BY <2>10, OwnSlots DEF Inv
    <3> QED
      BY <1>1, <2>6, <2>7, <2>8, <3>1, AtBinds DEF Bound2
  <2>12. Bound3'
    <3>1. func.vararg => locals'[func.vararg_slot] = locals[func.vararg_slot]
      BY <2>10, OwnSlots DEF Inv
    <3> QED
      BY <1>1, <2>1, <2>8, <3>1, AtBinds, SameCall DEF Bound3
  <2>13. Bound4'
    <3>1. func.kwarg => locals'[func.kwarg_slot] = locals[func.kwarg_slot]
      BY <2>10, OwnSlots DEF Inv
    <3> QED
      BY <1>1, <2>1, <2>7, <2>8, <3>1, AtBinds DEF Bound4, Binds
  <2> QED
    BY <2>5, <2>9, <2>11, <2>12, <2>13 DEF BoundSoFar, Inv
<1> QED
  BY <1>5, <1>6

\* A keyword-only parameter takes its default, or has its argument.
LEMMA FillKwDefaultInv ==
  ASSUME Inv, FillKwDefault
  PROVE  Inv'
<1> USE DEF FillKwDefault, Keep
<1> DEFINE t == func.kwonly_slots[n]
<1>1. /\ n \in 1..Len(func.kwonly) /\ pc = "kwdefaults" /\ pc \in Binds /\ Len(func.kwonly) \in Nat
      /\ UNCHANGED <<func, call, lists, values, extra, rest_items, entries, cells, inside>>
  BY Signatures DEF Inv, TypeOK, Binds
<1>2. /\ t \in Slots /\ t >= NParams /\ NParams \in Nat
      /\ func.vararg => t # func.vararg_slot
      /\ func.kwarg => t # func.kwarg_slot
      /\ \A i \in 1..Len(func.kwonly) : i # n => func.kwonly_slots[i] # t
  BY <1>1, OwnSlots, Signatures DEF Inv
<1>3. ParamsDone /\ Handled = Len(call.kwnames) /\ \A i : KwonlyDone(i) <=> i < n
  BY <1>1 DEF ParamsDone, Handled, KwonlyDone
<1>4. /\ \A x \in KwonlySoFar(n) : locals[t] = x
      /\ KwonlySoFar(n) = {} => locals[t] = Null
      /\ KwonlySoFar(n) = KwonlySources(func, call, n)
      /\ \A x \in KwonlySoFar(n) : x # Null
  <2>1. ~(n < n)
    BY <1>1
  <2>2. KwonlySoFar(n) = KwonlySources(func, call, n)
    BY <1>1, AllSources DEF Inv
  <2>3. \A x \in KwonlySoFar(n) : x # Null
    BY <2>2, SourcesAreArgs, Distinct DEF Args, Inv
  <2> QED
    BY <1>1, <1>3, <2>1, <2>2, <2>3, AtBinds DEF Bound2
<1>5. CASE locals[t] = Null /\ ~func.kwflags[n]
  <2>1. KwonlySources(func, call, n) = {}
    BY <1>4, <1>5
  <2>2. BindError(func, call)
    BY <1>1, <1>5, <2>1 DEF BindError
  <2> QED
    BY <1>1, <1>5, <2>2, UnwindingInv
<1>6. CASE locals[t] # Null \/ func.kwflags[n]
  <2>1. /\ err' = err /\ More(Len(func.kwonly), "kwargs")
        /\ locals' = IF locals[t] # Null THEN locals ELSE [locals EXCEPT ![t] = KwDefault(n)]
    BY <1>6
  <2>2. /\ pc' \in {"kwdefaults", "kwargs"} /\ n' \in Nat \ {0}
        /\ pc' = "kwdefaults" => n' = n + 1 /\ n' <= Len(func.kwonly)
        /\ pc' = "kwargs" => n = Len(func.kwonly)
    BY <1>1, <2>1 DEF More, Goto
  <2>3. KwDefault(n) \in Things /\ KwDefault(n) # Extra
    BY <1>1, Distinct DEF Things
  <2>4. /\ ~Filled' /\ Handled' = Handled /\ ParamsDone'
        /\ \A i \in 1..Len(func.kwonly) : KwonlyDone(i)' <=> i <= n
    <3>1. CASE pc' = "kwdefaults"
      BY <1>1, <1>3, <2>2, <3>1 DEF Filled, Handled, ParamsDone, KwonlyDone
    <3>2. CASE pc' = "kwargs"
      BY <1>1, <1>3, <2>2, <3>2 DEF Filled, Handled, ParamsDone, KwonlyDone
    <3> QED
      BY <2>2, <3>1, <3>2
  <2>5. \A s : Local(s)' = locals'[s] /\ Local(s) = locals[s]
    BY <1>1, <2>4, AtBinds DEF Local
  <2>6. /\ locals \in [Slots -> Things] /\ \A s \in Slots : locals[s] # Extra
        /\ Bound1 /\ Bound2 /\ Bound3 /\ Bound4
    BY <1>1, AtBinds
  <2>7. /\ locals' \in [Slots -> Things] /\ \A s \in Slots : locals'[s] # Extra
        /\ \A s \in Slots : s # t => locals'[s] = locals[s]
        /\ locals'[t] = IF locals[t] # Null THEN locals[t] ELSE KwDefault(n)
    <3> HIDE DEF FillKwDefault, t
    <3> QED
      BY <1>2, <2>1, <2>3, <2>6
  <2>8. (TypeOK /\ Arrays /\ Stages /\ TypeErrors)'
    <3>1. rest_items' \in Seq(Args)
      BY <1>1 DEF Inv, TypeOK
    <3> HIDE DEF FillKwDefault
    <3> QED
      BY <1>1, <2>1, <2>2, <2>7, <3>1, BindingInv
  <2>9. /\ \A i : ParamSoFar(i)' = ParamSoFar(i) /\ KwonlySoFar(i)' = KwonlySoFar(i)
        /\ ExtrasSoFar' = ExtrasSoFar
    BY <1>1, <2>4 DEF ParamSoFar, KwonlySoFar, NamedSoFar, ExtrasSoFar
  <2>10. Bound1'
    <3>1. \A i \in 1..NParams : locals'[i - 1] = locals[i - 1]
      <4> TAKE i \in 1..NParams
      <4>1. i - 1 \in Slots /\ i - 1 # t
        BY <1>2, OwnSlots DEF Inv, Slots
      <4> QED
        BY <2>7, <4>1
    <3> QED
      BY <1>1, <1>3, <2>4, <2>5, <2>6, <2>9, <3>1, SameCall DEF Bound1
  <2>11. Bound2'
    <3> SUFFICES ASSUME NEW i \in 1..Len(func.kwonly)
                 PROVE  /\ \A x \in KwonlySoFar(i) : locals'[func.kwonly_slots[i]] = x
                        /\ KwonlySoFar(i) = {} =>
                             IF i <= n THEN func.kwflags[i] /\ locals'[func.kwonly_slots[i]] = KwDefault(i)
                             ELSE locals'[func.kwonly_slots[i]] = Null
      BY <1>1, <2>4, <2>5, <2>9 DEF Bound2
    <3>1. CASE i = n
      BY <1>1, <1>4, <1>6, <2>7, <3>1
    <3>2. CASE i # n
      <4>1. locals'[func.kwonly_slots[i]] = locals[func.kwonly_slots[i]]
        BY <1>2, <2>7, <3>2, OwnSlots DEF Inv
      <4>2. i <= n <=> i < n
        BY <1>1, <3>2
      <4> QED
        BY <1>3, <2>5, <2>6, <4>1, <4>2 DEF Bound2
    <3> QED
      BY <3>1, <3>2
  <2>12. Bound3'
    <3>1. func.vararg => locals'[func.vararg_slot] = locals[func.vararg_slot]
      BY <1>2, <2>7, OwnSlots DEF Inv
    <3> QED
      BY <1>1, <2>2, <2>5, <2>6, <3>1, SameCall DEF Bound3
  <2>13. Bound4'
    <3>1. func.kwarg => locals'[func.kwarg_slot] = locals[func.kwarg_slot]
      BY <1>2, <2>7, OwnSlots DEF Inv
    <3> QED
      BY <1>1, <2>2, <2>5, <2>6, <2>9, <3>1 DEF Bound4, Binds
  <2> QED
    BY <2>8, <2>10, <2>11, <2>12, <2>13 DEF BoundSoFar, Inv
<1> QED
  BY <1>1, <1>5, <1>6, Signatures DEF Inv

LEMMA StoreKwargsInv ==
  ASSUME Inv, StoreKwargs
  PROVE  Inv'
<1> USE DEF StoreKwargs, Keep, Goto
<1> DEFINE t == func.kwarg_slot
<1>1. /\ pc = "kwargs" /\ pc \in Binds /\ pc' = "cells" /\ n' = 1 /\ extra' = Null
      /\ locals' = IF func.kwarg THEN [locals EXCEPT ![t] = Extra] ELSE locals
      /\ UNCHANGED <<func, call, lists, values, rest_items, entries, cells, inside, err>>
  BY DEF Binds
<1>2. /\ NParams \in Nat
      /\ func.kwarg => t \in Slots /\ t >= NParams
      /\ func.kwarg => \A i \in 1..Len(func.kwonly) : func.kwonly_slots[i] # t
      /\ func.kwarg /\ func.vararg => func.vararg_slot # t
  BY OwnSlots, Signatures DEF Inv
<1>3. /\ locals \in [Slots -> Things] /\ Bound1 /\ Bound2 /\ Bound3 /\ Bound4
      /\ \A s : Local(s) = locals[s]
  BY <1>1, AtBinds
<1>4. Extra \in Things
  BY DEF Things
<1>5. /\ locals' \in [Slots -> Things]
      /\ \A s \in Slots : ~(func.kwarg /\ s = t) => locals'[s] = locals[s]
      /\ func.kwarg => locals'[t] = Extra
  <2> HIDE DEF StoreKwargs, t
  <2> QED
    BY <1>1, <1>2, <1>3, <1>4
<1>6. (TypeOK /\ Arrays /\ Stages /\ TypeErrors)'
  <2>1. rest_items' \in Seq(Args)
    BY <1>1 DEF Inv, TypeOK
  <2> HIDE DEF StoreKwargs
  <2> QED
    BY <1>1, <1>5, <2>1, BindingInv
<1>7. /\ ~Filled' /\ Handled' = Handled /\ ParamsDone' /\ ParamsDone
      /\ \A i : KwonlyDone(i)' /\ KwonlyDone(i)
  BY <1>1 DEF Filled, Handled, ParamsDone, KwonlyDone
<1>8. /\ \A i : ParamSoFar(i)' = ParamSoFar(i) /\ KwonlySoFar(i)' = KwonlySoFar(i)
      /\ ExtrasSoFar' = ExtrasSoFar
  BY <1>1, <1>7 DEF ParamSoFar, KwonlySoFar, NamedSoFar, ExtrasSoFar
<1>9. \A s : Local(s)' = locals'[s]
  BY <1>7 DEF Local
<1>10. Bound1'
  <2>1. \A i \in 1..NParams : locals'[i - 1] = locals[i - 1]
    <3> TAKE i \in 1..NParams
    <3>1. i - 1 \in Slots /\ ~(func.kwarg /\ i - 1 = t)
      BY <1>2, OwnSlots DEF Inv, Slots
    <3> QED
      BY <1>5, <3>1
  <2> QED
    BY <1>1, <1>3, <1>7, <1>8, <1>9, <2>1, SameCall DEF Bound1
<1>11. Bound2'
  <2>1. \A i \in 1..Len(func.kwonly) : locals'[func.kwonly_slots[i]] = locals[func.kwonly_slots[i]]
    BY <1>2, <1>5, OwnSlots DEF Inv
  <2> QED
    BY <1>1, <1>3, <1>7, <1>8, <1>9, <2>1 DEF Bound2
<1>12. Bound3'
  <2>1. func.vararg => locals'[func.vararg_slot] = locals[func.vararg_slot]
    BY <1>2, <1>5, OwnSlots DEF Inv
  <2> QED
    BY <1>1, <1>3, <1>9, <2>1, SameCall DEF Bound3
<1>13. Bound4'
  BY <1>1, <1>3, <1>5, <1>8, <1>9 DEF Bound4, Binds
<1> QED
  BY <1>6, <1>10, <1>11, <1>12, <1>13 DEF BoundSoFar, Inv

-----------------------------------------------------------------------------
(***************************************************************************)
(* The cells, the frame, and the end of the call.                          *)
(***************************************************************************)
LEMMA NewCellInv ==
  ASSUME Inv, NewCell
  PROVE  Inv'
<1> USE DEF NewCell, Keep
<1>1. /\ pc = "cells" /\ pc' = pc /\ n' = n /\ err' = err
      /\ cells' = Append(cells, Cell(Len(cells) + 1)) /\ Len(cells) < Ncells
      /\ UNCHANGED <<func, call, lists, values, locals, extra, rest_items, entries, inside>>
  BY DEF Ncells
<1>2. cells \in Seq(Objects) /\ Ncells \in Nat /\ \A i \in 1..Len(cells) : cells[i] = Cell(i)
  BY <1>1, Signatures DEF Inv, TypeOK, Stages
<1>3. Len(cells) + 1 \in 1..Ncells /\ Cell(Len(cells) + 1) \in Objects
  BY <1>1, <1>2 DEF Objects, Ncells
<1>4. /\ cells' \in Seq(Objects) /\ Len(cells') <= Ncells
      /\ \A i \in 1..Len(cells') : cells'[i] = Cell(i)
  <2>1. /\ cells' \in Seq(Objects) /\ Len(cells) \in Nat /\ Len(cells') = Len(cells) + 1
        /\ \A k \in 1..Len(cells) : cells'[k] = cells[k]
        /\ cells'[Len(cells) + 1] = Cell(Len(cells) + 1)
    BY <1>1, <1>2, <1>3, AppendIs
  <2>2. \A i \in 1..Len(cells') : i \in 1..Len(cells) \/ i = Len(cells) + 1
    BY <2>1
  <2> QED
    BY <1>1, <1>2, <2>1, <2>2
<1> HIDE DEF NewCell
<1>5. TypeOK'
  BY <1>1, <1>4, SameCall DEF Inv, TypeOK
<1>6. Arrays'
  BY <1>1, SameCall DEF Inv, Arrays
<1>7. Stages'
  BY <1>1, <1>4, SameCall DEF Inv, Stages, Live, Filled, Before, Binds
<1>8. TypeErrors'
  BY <1>1 DEF Inv, TypeErrors
<1>9. BoundSoFar'
  <2>1. Live /\ Filled' = Filled
    BY <1>1 DEF Live, Filled
  <2>2. /\ Handled' = Handled /\ ParamsDone' = ParamsDone
        /\ \A i \in 1..Len(func.kwonly) : KwonlyDone(i)' = KwonlyDone(i)
    BY <1>1 DEF Handled, ParamsDone, KwonlyDone
  <2> QED
    BY <1>1, <2>1, <2>2, LocalsKept, BoundCarried
<1> QED
  BY <1>5, <1>6, <1>7, <1>8, <1>9 DEF Inv

LEMMA FillCellsInv ==
  ASSUME Inv, FillCells
  PROVE  Inv'
<1> USE DEF FillCells, Keep, Goto
<1>1. /\ pc = "cells" /\ pc' = "frame" /\ n' = 1 /\ err' = err /\ err = "OK"
      /\ inside' = [i \in DOMAIN inside |-> locals[func.cell_slots[i]]]
      /\ locals' = [s \in DOMAIN locals |-> IF s \in Range(func.cell_slots) THEN Null ELSE locals[s]]
      /\ cells' = cells \o [i \in 1..func.frees |-> Free(i)]
      /\ UNCHANGED <<func, call, lists, values, extra, rest_items, entries>>
  BY DEF Inv, Stages
<1>2. ~Filled /\ Filled' /\ Live /\ Live'
  BY <1>1 DEF Filled, Live
<1>3. locals \in [Slots -> Things] /\ DOMAIN inside = 1..Ncells
  BY <1>2 DEF Inv, TypeOK, Stages
<1>4. \A i \in 1..Ncells : func.cell_slots[i] \in Slots
  BY Signatures DEF Inv
<1>5. inside' \in [1..Ncells -> Things] /\ locals' \in [Slots -> Things] /\ Null \in Things
  BY <1>1, <1>3, <1>4 DEF Things
<1>6. cells' \in Seq(Objects)
  <2>1. func.frees \in Nat /\ \A i \in 1..func.frees : Free(i) \in Objects
    BY Signatures DEF Inv, Objects
  <2>2. [i \in 1..func.frees |-> Free(i)] \in Seq(Objects)
    BY <2>1, IsSequence
  <2>3. cells \in Seq(Objects)
    BY DEF Inv, TypeOK
  <2> HIDE DEF FillCells
  <2> QED
    BY <1>1, <2>2, <2>3
<1> HIDE DEF FillCells
<1>7. TypeOK'
  BY <1>1, <1>5, <1>6, SameCall DEF Inv, TypeOK
<1>8. Arrays'
  BY <1>1, SameCall DEF Inv, Arrays
<1>9. Stages'
  <2>1. extra' # Extra
    BY <1>1 DEF Inv, Stages, Binds
  <2> QED
    BY <1>1, <1>2, <1>5, <2>1, SameCall DEF Inv, Stages, Before, Binds
<1>10. TypeErrors'
  BY <1>1 DEF Inv, TypeErrors
<1>11. \A s \in Slots : Local(s)' = Local(s)
  <2> TAKE s \in Slots
  <2> DEFINE at == {i \in 1..Ncells : func.cell_slots[i] = s}
  <2>1. Local(s) = locals[s]
    BY <1>2 DEF Local
  <2>2. Local(s)' = IF at = {} THEN locals'[s] ELSE inside'[CHOOSE i \in at : TRUE]
    <3>1. DOMAIN inside' = 1..Ncells
      BY <1>1, <1>3
    <3> QED
      BY <1>1, <1>2, <3>1 DEF Local, InSlot
  <2>3. CASE at = {}
    <3>1. s \notin Range(func.cell_slots)
      BY <2>3, Signatures DEF Range, Inv
    <3> QED
      BY <1>1, <1>3, <2>1, <2>2, <2>3, <3>1
  <2>4. CASE at # {}
    <3>1. PICK i : i = (CHOOSE j \in at : TRUE)
      OBVIOUS
    <3>2. i \in at
      BY <2>4, <3>1
    <3>3. inside'[i] = locals[s]
      BY <1>1, <1>3, <3>2
    <3> QED
      BY <2>1, <2>2, <2>4, <3>1, <3>3
  <2> QED
    BY <2>3, <2>4
<1>12. BoundSoFar'
  <2>1. /\ Handled' = Handled /\ ParamsDone' = ParamsDone
        /\ \A i \in 1..Len(func.kwonly) : KwonlyDone(i)' = KwonlyDone(i)
        /\ (pc \in Binds <=> pc' \in Binds)
    BY <1>1 DEF Handled, ParamsDone, KwonlyDone, Binds
  <2> QED
    BY <1>1, <1>2, <1>11, <2>1, BoundCarried
<1> QED
  BY <1>7, <1>8, <1>9, <1>10, <1>12 DEF Inv

LEMMA NewFrameInv ==
  ASSUME Inv, NewFrame
  PROVE  Inv'
<1>1. /\ pc = "frame" /\ pc' = "drop_args" /\ n' = 1 /\ err = "OK"
      /\ UNCHANGED <<func, call, lists, values, locals, extra, rest_items, entries, cells, inside, err>>
  BY DEF NewFrame, Goto, Keep, Bindings, Inv, Stages
<1>2. Live /\ Live' /\ Filled /\ Filled'
  BY <1>1 DEF Live, Filled
<1>3. TypeOK'
  BY <1>1, SameCall DEF Inv, TypeOK
<1>4. Arrays'
  BY <1>1, SameCall, GivenType DEF Inv, Arrays, Binds
<1>5. Stages'
  BY <1>1, <1>2, SameCall DEF Inv, Stages, Before, Binds
<1>6. TypeErrors'
  BY <1>1 DEF Inv, TypeErrors
<1>7. BoundSoFar'
  <2>1. /\ Handled' = Handled /\ ParamsDone' = ParamsDone
        /\ \A i \in 1..Len(func.kwonly) : KwonlyDone(i)' = KwonlyDone(i)
        /\ (pc \in Binds <=> pc' \in Binds)
    BY <1>1 DEF Handled, ParamsDone, KwonlyDone, Binds
  <2> QED
    BY <1>1, <1>2, <2>1, LocalsKept, BoundCarried
<1> QED
  BY <1>3, <1>4, <1>5, <1>6, <1>7 DEF Inv

LEMMA UnwindInv ==
  ASSUME Inv, Unwind
  PROVE  Inv'
<1>1. /\ pc = "unwind" /\ pc' = "drop_args" /\ n' = 1 /\ err' = err /\ err # "OK"
      /\ cells' = << >> /\ locals' = << >> /\ extra' = Null
      /\ UNCHANGED <<func, call, lists, values, rest_items, entries, inside>>
  BY DEF Unwind, Goto, Keep, Inv, Stages
<1>2. ~Live'
  BY <1>1 DEF Live, Filled, Binds
<1>3. TypeOK'
  BY <1>1, SameCall DEF Inv, TypeOK
<1>4. Arrays'
  BY <1>1, SameCall, GivenType DEF Inv, Arrays, Binds
<1>5. Stages'
  BY <1>1, <1>2, SameCall, Distinct DEF Inv, Stages, Before, Binds
<1> QED
  BY <1>1, <1>2, <1>3, <1>4, <1>5 DEF Inv, TypeErrors, BoundSoFar

LEMMA DropArgsInv ==
  ASSUME Inv, DropArgs
  PROVE  Inv'
<1>1. /\ pc = "drop_args" /\ pc' = IF err = "OK" THEN "body" ELSE "done"
      /\ n' = 1 /\ values' = << >> /\ lists' = << >>
      /\ UNCHANGED <<func, call, locals, extra, rest_items, entries, cells, inside, err>>
  BY DEF DropArgs, Goto
<1>2. (Live' <=> err = "OK") /\ (Live <=> err = "OK") /\ (Filled' <=> err = "OK") /\ (Filled <=> err = "OK")
  BY <1>1 DEF Live, Filled, Binds
<1>3. TypeOK'
  BY <1>1, SameCall DEF Inv, TypeOK
<1>4. Arrays'
  BY <1>1, SameCall DEF Inv, Arrays, Binds
<1>5. Stages'
  BY <1>1, <1>2, SameCall DEF Inv, Stages, Before, Binds
<1>6. TypeErrors'
  BY <1>1 DEF Inv, TypeErrors
<1>7. BoundSoFar'
  <2>1. CASE err = "OK"
    <3>1. /\ Handled' = Handled /\ ParamsDone' = ParamsDone
          /\ \A i \in 1..Len(func.kwonly) : KwonlyDone(i)' = KwonlyDone(i)
          /\ (pc \in Binds <=> pc' \in Binds)
      BY <1>1, <2>1 DEF Handled, ParamsDone, KwonlyDone, Binds
    <3> QED
      BY <1>1, <1>2, <2>1, <3>1, LocalsKept, BoundCarried
  <2>2. CASE err # "OK"
    BY <1>2, <2>2 DEF BoundSoFar
  <2> QED
    BY <2>1, <2>2
<1> QED
  BY <1>3, <1>4, <1>5, <1>6, <1>7 DEF Inv

LEMMA FrameFreeInv ==
  ASSUME Inv, FrameFree
  PROVE  Inv'
<1>1. /\ pc = "body" /\ pc' = "done" /\ n' = 1 /\ cells' = << >> /\ locals' = << >>
      /\ UNCHANGED <<func, call, lists, values, extra, rest_items, entries, inside, err>>
  BY DEF FrameFree, Goto, Keep
<1>2. ~Live'
  BY <1>1 DEF Live, Filled, Binds
<1>3. TypeOK'
  BY <1>1, SameCall DEF Inv, TypeOK
<1>4. Arrays'
  BY <1>1, SameCall DEF Inv, Arrays, Binds
<1>5. Stages'
  BY <1>1, <1>2, SameCall DEF Inv, Stages, Before, Binds
<1> QED
  BY <1>1, <1>2, <1>3, <1>4, <1>5 DEF Inv, TypeErrors, BoundSoFar

-----------------------------------------------------------------------------
(***************************************************************************)
(* Every parameter is bound as in Python.                                  *)
(***************************************************************************)
LEMMA InitInv == Init => Inv
<1> SUFFICES ASSUME Init PROVE Inv
  OBVIOUS
<1> USE DEF Init
<1>1. /\ pc \in {"ex_values", "enter"} /\ func \in Functions /\ call \in Calls /\ err = "OK" /\ n = 1
      /\ (pc = "ex_values" <=> call.ex) /\ extra = Null
      /\ locals = << >> /\ rest_items = << >> /\ entries = << >> /\ cells = << >>
      /\ inside = [i \in 1..Ncells |-> Null]
      /\ values = IF call.ex THEN [i \in Nargs |-> Unset] ELSE Given
      /\ lists = IF call.ex THEN Given ELSE << >>
  BY DEF Ncells, Nargs, Given
<1> HIDE DEF Init
<1>2. TypeOK
  BY <1>1 DEF TypeOK, Before, Things
<1>3. Arrays
  BY <1>1, GivenType DEF Arrays, Binds
<1>4. ~Live
  BY <1>1 DEF Live, Filled, Binds
<1>5. Stages
  BY <1>1, <1>4, Distinct DEF Stages, Before, Binds
<1> QED
  BY <1>1, <1>2, <1>3, <1>4, <1>5 DEF Inv, BoundSoFar, TypeErrors

LEMMA NextInv ==
  ASSUME Inv, [Next]_vars
  PROVE  Inv'
<1>1. CASE ExValues
  BY <1>1, ExValuesInv
<1>2. CASE ExNames
  BY <1>2, ExNamesInv
<1>3. CASE ExNamesFail \/ EnterFail
  BY <1>3, EarlyFailInv
<1>4. CASE Enter
  BY <1>4, EnterInv
<1>5. CASE BindRest
  BY <1>5, BindRestInv
<1>6. CASE BindRestFail \/ BindExtraFail \/ StoreKwargsFail \/ NewCellFail \/ NewFrameFail
  BY <1>6, AllocationFailsInv
<1>7. CASE BindKeyword
  BY <1>7, BindKeywordInv
<1>8. CASE BindExtra
  BY <1>8, BindExtraInv
<1>9. CASE NoKeywords \/ NoKwonly
  BY <1>9, NothingToBindInv
<1>10. CASE FillDefaults
  BY <1>10, FillDefaultsInv
<1>11. CASE FillKwDefault
  BY <1>11, FillKwDefaultInv
<1>12. CASE StoreKwargs
  BY <1>12, StoreKwargsInv
<1>13. CASE NewCell
  BY <1>13, NewCellInv
<1>14. CASE FillCells
  BY <1>14, FillCellsInv
<1>15. CASE NewFrame
  BY <1>15, NewFrameInv
<1>16. CASE Unwind
  BY <1>16, UnwindInv
<1>17. CASE DropArgs
  BY <1>17, DropArgsInv
<1>18. CASE FrameFree
  BY <1>18, FrameFreeInv
<1>19. CASE UNCHANGED vars
  <2>1. UNCHANGED <<func, call, pc, n, values, lists, locals, extra, rest_items, entries, cells, inside, err>>
    BY <1>19 DEF vars
  <2>2. (TypeOK /\ Arrays /\ TypeErrors)'
    BY <2>1, SameCall DEF Inv, TypeOK, Arrays, TypeErrors
  <2>3. Stages' /\ Filled' = Filled
    BY <2>1, SameCall DEF Inv, Stages, Live, Filled
  <2>4. \A s : Local(s)' = Local(s)
    BY <2>1, <2>3, LocalsKept
  <2>5. /\ \A i : ParamSoFar(i)' = ParamSoFar(i) /\ KwonlySoFar(i)' = KwonlySoFar(i) /\ KwonlyDone(i)' = KwonlyDone(i)
        /\ ExtrasSoFar' = ExtrasSoFar /\ ParamsDone' = ParamsDone /\ Live' = Live
    BY <2>1 DEF ParamSoFar, KwonlySoFar, NamedSoFar, ExtrasSoFar, Handled, ParamsDone, KwonlyDone, Live, Filled
  <2>6. BoundSoFar'
    BY <2>1, <2>4, <2>5, SameCall DEF Inv, BoundSoFar, Bound1, Bound2, Bound3, Bound4
  <2> QED
    BY <2>2, <2>3, <2>6 DEF Inv
<1> QED
  BY <1>1, <1>2, <1>3, <1>4, <1>5, <1>6, <1>7, <1>8, <1>9, <1>10, <1>11, <1>12, <1>13, <1>14,
     <1>15, <1>16, <1>17, <1>18, <1>19 DEF Next

\* What the loops leave in the slots, after every statement.
THEOREM BindingInvariant == Spec => []Inv
BY InitInv, NextInv, PTL DEF Spec

\* A set whose elements are all the same has at most one.
LEMMA OneSource ==
  ASSUME NEW S, NEW o, \A x \in S : x = o
  PROVE  ~(Cardinality(S) > 1) /\ \A e : Only(S, e) = IF S = {} THEN e ELSE o
<1>1. S = {} \/ S = {o}
  OBVIOUS
<1>2. ~(Cardinality(S) > 1)
  <2>1. Cardinality({}) = 0 /\ Cardinality({o}) = 1
    BY FS_EmptySet, FS_Singleton
  <2>2. CASE S = {}
    BY <2>1, <2>2
  <2>3. CASE S = {o}
    BY <2>1, <2>3
  <2> QED
    BY <1>1, <2>2, <2>3
<1> QED
  BY <1>1, <1>2 DEF Only

LEMMA BindsAsPythonHolds == Inv => BindsAsPython
<1> SUFFICES ASSUME Inv PROVE BindsAsPython
  OBVIOUS
<1>1. ASSUME pc = "done", err = "TYPE"
      PROVE  BindError(func, call) \/ (func.kwarg /\ Extras(func, call) # {})
  BY <1>1 DEF Inv, TypeErrors
<1> DEFINE want == Bound(func, call)
<1>2. ASSUME pc = "body"
      PROVE  /\ ~BindError(func, call)
             /\ \A i \in 1..NParams : InSlot(i - 1) = want.params[i]
             /\ \A i \in 1..Len(func.kwonly) : InSlot(func.kwonly_slots[i]) = want.kwonly[i]
             /\ func.vararg => InSlot(func.vararg_slot) = Rest /\ rest_items = want.rest
             /\ func.kwarg => InSlot(func.kwarg_slot) = Extra /\ Range(entries) = want.extra
  <2>1. /\ Filled /\ Live /\ Bound1 /\ Bound2 /\ Bound3 /\ Bound4 /\ ParamsDone
        /\ \A i : KwonlyDone(i)
        /\ \A s : Local(s) = InSlot(s)
    BY <1>2 DEF Inv, Stages, BoundSoFar, Live, Filled, ParamsDone, KwonlyDone, Local
  <2>2. /\ \A i \in 1..NParams : ParamSoFar(i) = ParamSources(func, call, i)
        /\ \A i \in 1..Len(func.kwonly) : KwonlySoFar(i) = KwonlySources(func, call, i)
        /\ ExtrasSoFar = Extras(func, call)
    BY <1>2, AllSources DEF Inv
  <2>3. \A i \in 1..NParams :
          /\ ~(Cardinality(ParamSources(func, call, i)) > 1)
          /\ ParamSources(func, call, i) = {} => HasDefault(func, i)
          /\ InSlot(i - 1) = Only(ParamSources(func, call, i), Default(i - FirstDefault))
    <3> TAKE i \in 1..NParams
    <3>1. /\ \A x \in ParamSources(func, call, i) : x = InSlot(i - 1)
          /\ ParamSources(func, call, i) = {} => HasDefault(func, i) /\ InSlot(i - 1) = Default(i - FirstDefault)
      BY <2>1, <2>2 DEF Bound1
    <3> QED
      BY <3>1, OneSource
  <2>4. \A i \in 1..Len(func.kwonly) :
          /\ ~(Cardinality(KwonlySources(func, call, i)) > 1)
          /\ KwonlySources(func, call, i) = {} => func.kwflags[i]
          /\ InSlot(func.kwonly_slots[i]) = Only(KwonlySources(func, call, i), KwDefault(i))
    <3> TAKE i \in 1..Len(func.kwonly)
    <3>1. /\ \A x \in KwonlySources(func, call, i) : x = InSlot(func.kwonly_slots[i])
          /\ KwonlySources(func, call, i) = {} =>
               func.kwflags[i] /\ InSlot(func.kwonly_slots[i]) = KwDefault(i)
      BY <2>1, <2>2 DEF Bound2
    <3> QED
      BY <3>1, OneSource
  <2>5. ~BindError(func, call)
    <3>1. ~(~func.vararg /\ call.npos > NParams)
      BY <2>1, Signatures DEF Bound3, Inv
    <3>2. ~(~func.kwarg /\ Extras(func, call) # {})
      BY <2>1, <2>2 DEF Bound4
    <3> QED
      BY <2>3, <2>4, <3>1, <3>2 DEF BindError, NParams
  <2>6. /\ \A i \in 1..NParams : want.params[i] = Only(ParamSources(func, call, i), Default(i - FirstDefault))
        /\ \A i \in 1..Len(func.kwonly) : want.kwonly[i] = Only(KwonlySources(func, call, i), KwDefault(i))
        /\ want.extra = {<<call.kwnames[k], Arg(call.npos + k)>> : k \in Extras(func, call)}
    BY DEF Bound, NParams, FirstDefault
  <2> HIDE DEF want
  <2>7. func.kwarg => InSlot(func.kwarg_slot) = Extra /\ Range(entries) = want.extra
    BY <1>2, <2>1, <2>2, <2>6 DEF Bound4, Binds
  <2>8. func.vararg => InSlot(func.vararg_slot) = Rest /\ rest_items = want.rest
    BY <1>2, <2>1 DEF Bound3, want
  <2> QED
    BY <2>3, <2>4, <2>5, <2>6, <2>7, <2>8
<1> QED
  BY <1>1, <1>2 DEF BindsAsPython

\* Every call of every function, however its arguments are given, binds each
\* parameter to what Python binds it to, and its TypeErrors are Python's.
THEOREM BindingTheorem == Spec => []BindsAsPython
BY BindingInvariant, BindsAsPythonHolds, PTL

-----------------------------------------------------------------------------
(***************************************************************************)
(* Counting the owners.  The lemmas above say what is in every slot, array *)
(* and container; here the pointers to an object are counted.  A statement *)
(* changes a refcount by as much as it changes the count of the owners.    *)
(***************************************************************************)
LEMMA CountType ==
  ASSUME NEW s, NEW o, IsFiniteSet(DOMAIN s)
  PROVE  InSeq(o, s) \in Nat /\ IsFiniteSet({i \in DOMAIN s : s[i] = o})
<1>1. {i \in DOMAIN s : s[i] = o} \in SUBSET DOMAIN s
  OBVIOUS
<1>2. IsFiniteSet({i \in DOMAIN s : s[i] = o})
  BY <1>1, FS_Subset
<1> QED
  BY <1>2, FS_CardinalityType DEF InSeq

LEMMA CountNone ==
  ASSUME NEW s, NEW o, \A i \in DOMAIN s : s[i] # o
  PROVE  InSeq(o, s) = 0
<1>1. {i \in DOMAIN s : s[i] = o} = {}
  OBVIOUS
<1> QED
  BY <1>1, FS_EmptySet DEF InSeq

LEMMA CountOne ==
  ASSUME NEW s, NEW o, NEW k \in DOMAIN s, \A i \in DOMAIN s : s[i] = o <=> i = k
  PROVE  InSeq(o, s) = 1
<1>1. {i \in DOMAIN s : s[i] = o} = {k}
  OBVIOUS
<1> QED
  BY <1>1, FS_Singleton DEF InSeq

LEMMA CountSame ==
  ASSUME NEW s, NEW t, NEW o,
         \A i : (i \in DOMAIN s /\ s[i] = o) <=> (i \in DOMAIN t /\ t[i] = o)
  PROVE  InSeq(o, s) = InSeq(o, t)
<1>1. {i \in DOMAIN s : s[i] = o} = {i \in DOMAIN t : t[i] = o}
  OBVIOUS
<1> QED
  BY <1>1 DEF InSeq

\* Places are added to those of an object.
LEMMA CountMore ==
  ASSUME NEW s, NEW t, NEW o, IsFiniteSet(DOMAIN s), NEW A, IsFiniteSet(A),
         \A i \in A : ~(i \in DOMAIN s /\ s[i] = o),
         \A i : (i \in DOMAIN t /\ t[i] = o) <=> (i \in DOMAIN s /\ s[i] = o) \/ i \in A
  PROVE  InSeq(o, t) = InSeq(o, s) + Cardinality(A)
<1> DEFINE S == {i \in DOMAIN s : s[i] = o}
           T == {i \in DOMAIN t : t[i] = o}
<1>1. IsFiniteSet(S)
  BY CountType
<1>2. S \cap A = {} /\ T = S \cup A
  OBVIOUS
<1>3. Cardinality(T) = Cardinality(S) + Cardinality(A)
  <2> HIDE DEF S, T
  <2>1. Cardinality(S) \in Nat /\ Cardinality(A) \in Nat /\ Cardinality(S \cap A) = 0
    BY <1>1, <1>2, FS_CardinalityType, FS_EmptySet
  <2>2. Cardinality(S \cup A) = Cardinality(S) + Cardinality(A) - Cardinality(S \cap A)
    BY <1>1, FS_Union
  <2>3. Cardinality(T) = Cardinality(S) + Cardinality(A) - Cardinality(S \cap A)
    BY <1>2, <2>2
  <2> QED
    BY <2>1, <2>3
<1> QED
  BY <1>3 DEF InSeq

\* One function is another one with its places renamed.
LEMMA CountMoved ==
  ASSUME NEW s, NEW t, NEW o, IsFiniteSet(DOMAIN s), NEW f,
         \A i \in DOMAIN s : s[i] = o => f[i] \in DOMAIN t /\ t[f[i]] = o,
         \A i, j \in DOMAIN s : f[i] = f[j] => i = j,
         \A k \in DOMAIN t : t[k] = o => \E i \in DOMAIN s : s[i] = o /\ f[i] = k
  PROVE  InSeq(o, s) = InSeq(o, t)
<1> DEFINE S == {i \in DOMAIN s : s[i] = o}
           T == {k \in DOMAIN t : t[k] = o}
           g == [i \in S |-> f[i]]
<1>1. IsFiniteSet(S)
  BY CountType
<1>2. g \in Bijection(S, T)
  BY DEF Bijection, Injection, Surjection, IsInjective
<1>3. Cardinality(S) = Cardinality(T)
  <2>1. ExistsBijection(S, T)
    BY <1>2 DEF ExistsBijection
  <2> HIDE DEF S, T
  <2> QED
    BY <1>1, <2>1, FS_Bijection
<1> QED
  BY <1>3 DEF InSeq

LEMMA SequenceFinite ==
  ASSUME NEW S, NEW s \in Seq(S)
  PROVE  IsFiniteSet(DOMAIN s) /\ DOMAIN s = 1..Len(s) /\ Len(s) \in Nat
<1>1. DOMAIN s = 1..Len(s) /\ Len(s) \in Nat
  OBVIOUS
<1> QED
  BY <1>1, FS_Interval

LEMMA ConcatIs ==
  ASSUME NEW S, NEW s \in Seq(S), NEW t \in Seq(S)
  PROVE  /\ s \o t \in Seq(S) /\ Len(s \o t) = Len(s) + Len(t)
         /\ \A i \in 1..Len(s) : (s \o t)[i] = s[i]
         /\ \A k \in 1..Len(t) : (s \o t)[Len(s) + k] = t[k]
OBVIOUS

LEMMA CountConcat ==
  ASSUME NEW S, NEW s \in Seq(S), NEW t \in Seq(S), NEW o
  PROVE  InSeq(o, s \o t) = InSeq(o, s) + InSeq(o, t)
<1> DEFINE u == s \o t
           B == {k \in DOMAIN t : t[k] = o}
           A == {i \in DOMAIN u : i > Len(s) /\ u[i] = o}
           g == [k \in B |-> Len(s) + k]
<1>1. /\ DOMAIN s = 1..Len(s) /\ Len(s) \in Nat /\ DOMAIN t = 1..Len(t) /\ Len(t) \in Nat
      /\ IsFiniteSet(DOMAIN s) /\ IsFiniteSet(DOMAIN t)
  BY SequenceFinite
<1>2. /\ DOMAIN u = 1..(Len(s) + Len(t))
      /\ \A i \in 1..Len(s) : u[i] = s[i]
      /\ \A k \in 1..Len(t) : u[Len(s) + k] = t[k]
  BY <1>1, ConcatIs
<1> HIDE DEF u
<1>3. g \in Bijection(B, A)
  <2>1. g \in [B -> A]
    BY <1>1, <1>2
  <2>2. \A k, l \in B : g[k] = g[l] => k = l
    BY <1>1
  <2>3. \A i \in A : \E k \in B : g[k] = i
    <3> TAKE i \in A
    <3>1. i - Len(s) \in 1..Len(t) /\ Len(s) + (i - Len(s)) = i
      BY <1>1, <1>2
    <3>2. i - Len(s) \in B
      BY <1>1, <1>2, <3>1
    <3> QED
      BY <3>1, <3>2
  <2> HIDE DEF A, B, g
  <2> QED
    BY <2>1, <2>2, <2>3 DEF Bijection, Injection, Surjection, IsInjective
<1>4. IsFiniteSet(A) /\ Cardinality(A) = InSeq(o, t)
  <2>1. IsFiniteSet(B) /\ Cardinality(B) = InSeq(o, t)
    BY <1>1, CountType DEF InSeq
  <2>2. ExistsBijection(B, A)
    BY <1>3 DEF ExistsBijection
  <2> HIDE DEF A, B
  <2> QED
    BY <2>1, <2>2, FS_Bijection
<1>5. /\ \A i \in A : ~(i \in DOMAIN s /\ s[i] = o)
      /\ \A i : (i \in DOMAIN u /\ u[i] = o) <=> (i \in DOMAIN s /\ s[i] = o) \/ i \in A
  BY <1>1, <1>2
<1>6. InSeq(o, u) = InSeq(o, s) + Cardinality(A)
  <2> HIDE DEF A
  <2> QED
    BY <1>1, <1>4, <1>5, CountMore
<1> QED
  BY <1>4, <1>6 DEF u

LEMMA CountAppend ==
  ASSUME NEW S, NEW s \in Seq(S), NEW e \in S, NEW o
  PROVE  InSeq(o, Append(s, e)) = InSeq(o, s) + (IF e = o THEN 1 ELSE 0)
<1> DEFINE u == Append(s, e)
           A == IF e = o THEN {Len(s) + 1} ELSE {}
<1>1. /\ DOMAIN s = 1..Len(s) /\ Len(s) \in Nat /\ IsFiniteSet(DOMAIN s)
  BY SequenceFinite
<1>2. DOMAIN u = 1..(Len(s) + 1) /\ (\A i \in 1..Len(s) : u[i] = s[i]) /\ u[Len(s) + 1] = e
  BY AppendIs
<1> HIDE DEF u
<1>3. IsFiniteSet(A) /\ Cardinality(A) = IF e = o THEN 1 ELSE 0
  BY FS_Singleton, FS_EmptySet
<1>4. /\ \A i \in A : ~(i \in DOMAIN s /\ s[i] = o)
      /\ \A i : (i \in DOMAIN u /\ u[i] = o) <=> (i \in DOMAIN s /\ s[i] = o) \/ i \in A
  BY <1>1, <1>2
<1>5. InSeq(o, u) = InSeq(o, s) + Cardinality(A)
  <2> HIDE DEF A
  <2> QED
    BY <1>1, <1>3, <1>4, CountMore
<1> QED
  BY <1>3, <1>5 DEF u

\* A slot that was free is written.
LEMMA CountWritten ==
  ASSUME NEW s, NEW u, NEW t \in DOMAIN s, NEW o, IsFiniteSet(DOMAIN s), s[t] # o,
         DOMAIN u = DOMAIN s, \A i \in DOMAIN s : i # t => u[i] = s[i]
  PROVE  InSeq(o, u) = InSeq(o, s) + (IF u[t] = o THEN 1 ELSE 0)
<1> DEFINE A == IF u[t] = o THEN {t} ELSE {}
<1>1. IsFiniteSet(A) /\ Cardinality(A) = IF u[t] = o THEN 1 ELSE 0
  BY FS_Singleton, FS_EmptySet
<1>2. /\ \A i \in A : ~(i \in DOMAIN s /\ s[i] = o)
      /\ \A i : (i \in DOMAIN u /\ u[i] = o) <=> (i \in DOMAIN s /\ s[i] = o) \/ i \in A
  OBVIOUS
<1>3. InSeq(o, u) = InSeq(o, s) + Cardinality(A)
  <2> HIDE DEF A
  <2> QED
    BY <1>1, <1>2, CountMore
<1> QED
  BY <1>1, <1>3
-----------------------------------------------------------------------------
(***************************************************************************)
(* What is counted.                                                        *)
(***************************************************************************)
\* The pointers to o outside the containers.
Held(o) ==
  InSeq(o, values) + InSeq(o, lists) + InSeq(o, locals) + InSeq(o, cells)
    + (IF o = extra THEN 1 ELSE 0)
Owned(o) == IF o \in FunctionOwns THEN 1 ELSE 0

\* The cells that are alive and hold o.
Holding(r, o) == {i \in DOMAIN inside : r[Cell(i)] > 0 /\ inside[i] = o}

RefsOK == refs \in [Objects -> Int] /\ OwnersExact

Containers == {Rest, Extra} \cup {Cell(i) : i \in 1..Ncells}

LEMMA ContainerObjects ==
  ASSUME Inv
  PROVE  /\ DOMAIN inside = 1..Ncells /\ Ncells \in Nat
         /\ Containers \subseteq Objects /\ Rest \in Objects /\ Extra \in Objects
         /\ \A i \in 1..Ncells : Cell(i) \in Objects
         /\ Args \subseteq Objects
<1>1. DOMAIN inside = 1..Ncells /\ Ncells \in Nat
  BY Signatures DEF Inv, TypeOK
<1> QED
  BY <1>1 DEF Containers, Objects, Ncells, Args, Nargs

\* Everything that is counted is finite.
LEMMA Counts ==
  ASSUME Inv
  PROVE  /\ \A x \in {values, lists, locals, cells, rest_items, EntryValues, inside} :
              IsFiniteSet(DOMAIN x)
         /\ \A o : /\ InSeq(o, values) \in Nat /\ InSeq(o, lists) \in Nat
                   /\ InSeq(o, locals) \in Nat /\ InSeq(o, cells) \in Nat
                   /\ InSeq(o, rest_items) \in Nat /\ InSeq(o, EntryValues) \in Nat
                   /\ Held(o) \in Nat /\ Owned(o) \in Nat
         /\ \A r, o : /\ IsFiniteSet(Holding(r, o)) /\ Cardinality(Holding(r, o)) \in Nat
                      /\ InContents(r, o) \in Nat
<1>1. /\ IsFiniteSet(Nargs) /\ IsFiniteSet(Slots) /\ IsFiniteSet(1..Ncells) /\ IsFiniteSet({})
  <2>1. NArgs \in Nat /\ func.nlocals \in Nat /\ Ncells \in Nat
    BY Signatures DEF Inv
  <2> QED
    BY <2>1, FS_Interval, FS_EmptySet DEF Nargs, Slots
<1>2. IsFiniteSet(DOMAIN values) /\ IsFiniteSet(DOMAIN lists)
  <2>1. /\ DOMAIN values \in {Nargs, {}}
        /\ DOMAIN lists \in {Nargs, {}}
    BY DEF Inv, Arrays, Given
  <2> QED
    BY <1>1, <2>1
<1>3. IsFiniteSet(DOMAIN locals)
  <2>1. DOMAIN locals \in {Slots, {}}
    BY DEF Inv, Stages
  <2> QED
    BY <1>1, <2>1
<1>4. /\ IsFiniteSet(DOMAIN cells) /\ IsFiniteSet(DOMAIN rest_items)
      /\ IsFiniteSet(DOMAIN EntryValues) /\ IsFiniteSet(DOMAIN inside)
  <2>1. /\ cells \in Seq(Objects) /\ rest_items \in Seq(Args) /\ entries \in Seq(STRING \X Args)
        /\ DOMAIN inside = 1..Ncells
    BY DEF Inv, TypeOK
  <2>2. DOMAIN EntryValues = DOMAIN entries
    BY DEF EntryValues
  <2> QED
    BY <1>1, <2>1, <2>2, SequenceFinite
<1>5. \A o : /\ InSeq(o, values) \in Nat /\ InSeq(o, lists) \in Nat
             /\ InSeq(o, locals) \in Nat /\ InSeq(o, cells) \in Nat
             /\ InSeq(o, rest_items) \in Nat /\ InSeq(o, EntryValues) \in Nat
  BY <1>2, <1>3, <1>4, CountType
<1>6. \A r, o : IsFiniteSet(Holding(r, o)) /\ Cardinality(Holding(r, o)) \in Nat
  <2> TAKE r, o
  <2>1. Holding(r, o) \in SUBSET DOMAIN inside
    BY DEF Holding
  <2> QED
    BY <1>4, <2>1, FS_Subset, FS_CardinalityType
<1>7. \A r, o : InContents(r, o) \in Nat
  BY <1>5, <1>6 DEF InContents, Holding
<1> QED
  BY <1>2, <1>3, <1>4, <1>5, <1>6, <1>7 DEF Held, Owned

LEMMA OwnersAre ==
  \A o : Owners(o) = Held(o) + InContents(refs, o) + Owned(o)
BY DEF Owners, Held, Owned

\* Arguments are all that the arrays and the containers hold, unless a slot is unset.
LEMMA ArgsOnly ==
  ASSUME Inv, NEW o, o \notin Args \cup {Unset}
  PROVE  /\ InSeq(o, values) = 0 /\ InSeq(o, lists) = 0
         /\ InSeq(o, rest_items) = 0 /\ InSeq(o, EntryValues) = 0
<1>1. \A i \in DOMAIN values : values[i] # o
  BY DEF Inv, Arrays
<1>2. \A i \in DOMAIN lists : lists[i] # o
  BY GivenType DEF Inv, Arrays, Given
<1>3. \A i \in DOMAIN rest_items : rest_items[i] # o
  BY DEF Inv, TypeOK
<1>4. \A i \in DOMAIN EntryValues : EntryValues[i] # o
  <2>1. entries \in Seq(STRING \X Args)
    BY DEF Inv, TypeOK
  <2>2. \A i \in DOMAIN entries : entries[i][2] \in Args
    BY <2>1
  <2> QED
    BY <2>2 DEF EntryValues
<1> QED
  BY <1>1, <1>2, <1>3, <1>4, CountNone

LEMMA NotArgs ==
  \A c \in Containers : c \notin Args \cup {Unset}
BY Distinct DEF Containers, Args

\* The containers are the same, and what they hold.
LEMMA ContentsKept ==
  ASSUME Inv, UNCHANGED <<func, call, rest_items, entries, inside>>,
         \A c \in Containers : refs'[c] = refs[c]
  PROVE  \A o : InContents(refs, o)' = InContents(refs, o)
<1>1. /\ refs'[Rest] = refs[Rest] /\ refs'[Extra] = refs[Extra]
      /\ \A i \in DOMAIN inside : refs'[Cell(i)] = refs[Cell(i)]
  BY ContainerObjects DEF Containers
<1>2. EntryValues' = EntryValues
  BY DEF EntryValues
<1> QED
  BY <1>1, <1>2 DEF InContents, InSeq

LEMMA OwnedKept ==
  ASSUME UNCHANGED func
  PROVE  \A o : Owned(o)' = Owned(o)
BY DEF Owned, FunctionOwns

\* A refcount that changes by as much as the owners is exact again.
LEMMA Balanced ==
  ASSUME Inv, RefsOK, UNCHANGED <<func, call>>, refs' = [o \in Objects |-> refs'[o]],
         \A o \in Objects : \E h, k \in Int :
           /\ Held(o)' = Held(o) + h
           /\ InContents(refs, o)' = InContents(refs, o) + k
           /\ refs'[o] = refs[o] + h + k
  PROVE  RefsOK'
<1>1. Objects' = Objects
  BY SameCall
<1>2. \A o \in Objects : refs'[o] = Owners(o)' /\ refs'[o] \in Int
  <2> TAKE o \in Objects
  <2>1. refs[o] = Held(o) + InContents(refs, o) + Owned(o)
    BY OwnersAre DEF RefsOK, OwnersExact
  <2>2. Owners(o)' = Held(o)' + InContents(refs, o)' + Owned(o)
    BY DEF Owners, Held, Owned, FunctionOwns
  <2>3. Held(o) \in Nat /\ InContents(refs, o) \in Nat /\ Owned(o) \in Nat
    BY Counts
  <2> QED
    BY <2>1, <2>2, <2>3
<1> QED
  BY <1>1, <1>2 DEF RefsOK, OwnersExact

LEMMA Typed ==
  ASSUME Inv, RefsOK
  PROVE  \A o \in Objects : refs[o] \in Nat /\ refs[o] = Held(o) + InContents(refs, o) + Owned(o)
BY Counts, OwnersAre DEF RefsOK, OwnersExact
-----------------------------------------------------------------------------
(***************************************************************************)
(* The containers: which are there when.                                   *)
(***************************************************************************)
\* A container in no local, no cell of the frame and no cell is not there.
LEMMA Unheld ==
  ASSUME Inv, RefsOK, NEW c \in Containers, c # extra,
         \A s \in DOMAIN locals : locals[s] # c, \A i \in DOMAIN cells : cells[i] # c,
         \A i \in DOMAIN inside : inside[i] # c
  PROVE  refs[c] = 0
<1>1. c \in Objects /\ c \notin FunctionOwns
  BY ContainerObjects, Distinct DEF Containers, FunctionOwns
<1>2. InSeq(c, locals) = 0 /\ InSeq(c, cells) = 0
  BY CountNone
<1>3. Cardinality(Holding(refs, c)) = 0
  <2>1. Holding(refs, c) = {}
    BY DEF Holding
  <2> QED
    BY <2>1, FS_EmptySet
<1>4. InContents(refs, c) = 0
  BY <1>3, ArgsOnly, NotArgs DEF InContents, Holding
<1>5. Held(c) = 0
  BY <1>2, ArgsOnly, NotArgs DEF Held
<1> QED
  BY <1>1, <1>4, <1>5, Typed DEF Owned

\* While the locals are bound the cells are not there, the dict only in its variable.
LEMMA Unmade ==
  ASSUME Inv, RefsOK
  PROVE  /\ pc \in Binds => \A i \in 1..Ncells : refs[Cell(i)] = 0
         /\ pc = "rest" => refs[Rest] = 0
         /\ pc \in Binds => refs[Extra] = IF extra = Extra THEN 1 ELSE 0
         /\ pc = "cells" => \A i \in 1..Ncells : i > Len(cells) => refs[Cell(i)] = 0
<1>1. \A i \in 1..Ncells : Cell(i) \in Containers
  BY DEF Containers
<1>2. Rest \in Containers /\ Extra \in Containers
  BY DEF Containers
<1>3. ASSUME pc \in Binds \cup {"cells"}
      PROVE  /\ DOMAIN locals = Slots /\ (\A s \in Slots : locals[s] \in Things)
             /\ \A i \in DOMAIN inside : inside[i] = Null
  BY <1>3 DEF Inv, Stages, Live
<1>4. \A i : Cell(i) \notin Things
  BY Distinct DEF Things, Args
<1>5. extra \in {Null, Extra}
  BY DEF Inv, TypeOK
<1>6. pc \in Binds => cells = << >>
  BY DEF Inv, Stages
<1>7. \A i : Cell(i) # extra /\ Cell(i) # Null
  BY <1>5, Distinct
<1>8. ASSUME pc \in Binds, NEW i \in 1..Ncells
      PROVE  refs[Cell(i)] = 0
  BY <1>1, <1>3, <1>4, <1>6, <1>7, <1>8, Unheld
<1>9. ASSUME pc = "rest"
      PROVE  refs[Rest] = 0
  <2>1. pc \in Binds /\ \A s \in Slots : locals[s] # Rest
    BY <1>9 DEF Binds, Inv, Stages
  <2>2. Rest # extra /\ Rest # Null
    BY <1>5, Distinct
  <2> QED
    BY <1>2, <1>3, <1>6, <2>1, <2>2, Unheld
<1>10. ASSUME pc \in Binds
       PROVE  refs[Extra] = IF extra = Extra THEN 1 ELSE 0
  <2>1. \A s \in Slots : locals[s] # Extra
    BY <1>10 DEF Inv, Stages
  <2>2. \A i \in DOMAIN inside : inside[i] # Extra
    BY <1>3, <1>10, Distinct
  <2>3. CASE extra # Extra
    BY <1>2, <1>3, <1>6, <1>10, <2>1, <2>2, <2>3, Unheld
  <2>4. CASE extra = Extra
    <3>1. InSeq(Extra, locals) = 0 /\ InSeq(Extra, cells) = 0
      BY <1>3, <1>6, <1>10, <2>1, CountNone
    <3>2. Holding(refs, Extra) = {} /\ Cardinality(Holding(refs, Extra)) = 0
      BY <2>2, FS_EmptySet DEF Holding
    <3>3. InContents(refs, Extra) = 0
      BY <1>2, <3>2, ArgsOnly, NotArgs DEF InContents, Holding
    <3>4. Held(Extra) = 1
      BY <1>2, <2>4, <3>1, ArgsOnly, NotArgs DEF Held
    <3>5. Extra \in Objects /\ Owned(Extra) = 0
      BY ContainerObjects, Distinct DEF Owned, FunctionOwns
    <3> QED
      BY <2>4, <3>3, <3>4, <3>5, Typed
  <2> QED
    BY <2>3, <2>4
<1>11. ASSUME pc = "cells", NEW i \in 1..Ncells, i > Len(cells)
       PROVE  refs[Cell(i)] = 0
  <2>1. \A j \in DOMAIN cells : cells[j] # Cell(i)
    <3>1. DOMAIN cells = 1..Len(cells) /\ Len(cells) \in Nat
      BY DEF Inv, TypeOK
    <3>2. \A j \in 1..Len(cells) : cells[j] = Cell(j) /\ j # i
      BY <1>11, <3>1 DEF Inv, Stages
    <3> QED
      BY <3>1, <3>2, Distinct
  <2> QED
    BY <1>1, <1>3, <1>4, <1>7, <1>11, <2>1, Unheld
<1> QED
  BY <1>8, <1>9, <1>10, <1>11
-----------------------------------------------------------------------------
(***************************************************************************)
(* A release: what is left is exact again, level by level.                 *)
(***************************************************************************)
LEMMA ReleaseExact ==
  ASSUME Inv, NEW r, NEW s, IsFiniteSet(DOMAIN s), NEW kept \in [Objects -> Nat],
         \A o \in Objects : r[o] = InSeq(o, s) + kept[o] + InContents(r, o)
  PROVE  \A o \in Objects : ReleaseAll(r, s)[o] = kept[o] + InContents(ReleaseAll(r, s), o)
<1> DEFINE q == ReleaseAll(r, s)
           last(o) == {i \in LastCells(r, s) : inside[i] = o}
           dropped(o) == (IF IsLast(r, s, Rest) THEN InSeq(o, rest_items) ELSE 0)
                           + (IF IsLast(r, s, Extra) THEN InSeq(o, EntryValues) ELSE 0)
<1>1. /\ \A o : InSeq(o, s) \in Nat /\ InSeq(o, rest_items) \in Nat /\ InSeq(o, EntryValues) \in Nat
      /\ \A o \in Objects : kept[o] \in Nat
  BY Counts, CountType
<1>2. \A o : /\ IsFiniteSet(last(o)) /\ Cardinality(last(o)) \in Nat
             /\ IsFiniteSet(Holding(r, o)) /\ Cardinality(Holding(r, o)) \in Nat
             /\ IsFiniteSet(Holding(q, o)) /\ Cardinality(Holding(q, o)) \in Nat
  <2> TAKE o
  <2>1. last(o) \in SUBSET DOMAIN inside
    BY DEF LastCells
  <2>2. IsFiniteSet(DOMAIN inside)
    BY Counts
  <2>3. IsFiniteSet(last(o)) /\ Cardinality(last(o)) \in Nat
    BY <2>1, <2>2, FS_Subset, FS_CardinalityType
  <2> HIDE DEF q, last
  <2> QED
    BY <2>3, Counts
<1>3. \A o : /\ dropped(o) \in Nat
             /\ o \in Containers => dropped(o) = 0
  BY <1>1, ArgsOnly, NotArgs
<1>4. \A o \in Objects : q[o] = r[o] - (InSeq(o, s) + Cardinality(last(o))) - dropped(o)
  <2> TAKE o \in Objects
  <2>1. q[o] = r[o] - Drops(r, s, o) - (IF IsLast(r, s, Rest) THEN InSeq(o, rest_items) ELSE 0)
                                     - (IF IsLast(r, s, Extra) THEN InSeq(o, EntryValues) ELSE 0)
    BY DEF ReleaseAll
  <2>2. Drops(r, s, o) = InSeq(o, s) + Cardinality(last(o))
    BY DEF Drops
  <2>3. r[o] \in Nat /\ InContents(r, o) \in Nat
    BY <1>1, Counts
  <2> HIDE DEF q, last
  <2> QED
    BY <1>1, <1>2, <2>1, <2>2, <2>3
<1>5. \A o \in Objects : /\ r[o] \in Nat
                         /\ InContents(r, o) = (IF r[Rest] > 0 THEN InSeq(o, rest_items) ELSE 0)
                              + (IF r[Extra] > 0 THEN InSeq(o, EntryValues) ELSE 0)
                              + Cardinality(Holding(r, o))
                         /\ InContents(q, o) = (IF q[Rest] > 0 THEN InSeq(o, rest_items) ELSE 0)
                              + (IF q[Extra] > 0 THEN InSeq(o, EntryValues) ELSE 0)
                              + Cardinality(Holding(q, o))
  <2> HIDE DEF q
  <2> TAKE o \in Objects
  <2>1. InContents(r, o) \in Nat /\ InSeq(o, s) \in Nat /\ kept[o] \in Nat
    BY <1>1, Counts
  <2>2. r[o] = InSeq(o, s) + kept[o] + InContents(r, o)
    OBVIOUS
  <2> QED
    BY <2>1, <2>2 DEF InContents, Holding
\* Nothing is in two cells that is a cell: the cells of s lose what s holds of them.
<1>6. \A i \in DOMAIN inside : /\ q[Cell(i)] = kept[Cell(i)]
                               /\ q[Cell(i)] > 0 <=> r[Cell(i)] > 0 /\ i \notin LastCells(r, s)
  <2> TAKE i \in DOMAIN inside
  <2>1. Cell(i) \in Objects /\ Cell(i) \in Containers /\ r[Cell(i)] \in Nat /\ kept[Cell(i)] \in Nat
    BY <1>1, <1>5, ContainerObjects DEF Containers
  <2>2. \A j \in DOMAIN inside : inside[j] # Cell(i)
    BY Distinct DEF Inv, TypeOK, Things, Args
  <2>3. last(Cell(i)) = {} /\ Holding(r, Cell(i)) = {}
    BY <2>2 DEF LastCells, Holding
  <2>4. Cardinality(last(Cell(i))) = 0 /\ Cardinality(Holding(r, Cell(i))) = 0
    BY <2>3, FS_EmptySet
  <2>5. InSeq(Cell(i), rest_items) = 0 /\ InSeq(Cell(i), EntryValues) = 0
    BY <2>1, ArgsOnly, NotArgs
  <2>6. InContents(r, Cell(i)) = 0
    BY <1>5, <2>1, <2>4, <2>5
  <2>7. r[Cell(i)] = InSeq(Cell(i), s) + kept[Cell(i)]
    BY <1>1, <2>1, <2>6
  <2>8. q[Cell(i)] = r[Cell(i)] - InSeq(Cell(i), s)
    <3> HIDE DEF q, last, dropped
    <3>1. q[Cell(i)] = r[Cell(i)] - (InSeq(Cell(i), s) + Cardinality(last(Cell(i)))) - dropped(Cell(i))
      BY <1>4, <2>1
    <3>2. dropped(Cell(i)) = 0
      BY <1>3, <2>1, Zenon
    <3>3. InSeq(Cell(i), s) \in Nat
      BY <1>1
    <3> QED
      BY <2>1, <2>4, <3>1, <3>2, <3>3
  <2>9. i \in LastCells(r, s) <=> r[Cell(i)] > 0 /\ r[Cell(i)] = InSeq(Cell(i), s)
    BY DEF LastCells
  <2> HIDE DEF q, last
  <2> QED
    BY <1>1, <2>1, <2>7, <2>8, <2>9
<1>7. \A o : Cardinality(Holding(r, o)) = Cardinality(last(o)) + Cardinality(Holding(q, o))
  <2> TAKE o
  <2>1. Holding(r, o) = last(o) \cup Holding(q, o) /\ last(o) \cap Holding(q, o) = {}
    <3>1. \A i \in LastCells(r, s) : i \in DOMAIN inside /\ r[Cell(i)] > 0
      BY DEF LastCells
    <3> HIDE DEF q
    <3> QED
      BY <1>6, <3>1 DEF Holding
  <2>2. Cardinality(last(o) \cup Holding(q, o)) =
          Cardinality(last(o)) + Cardinality(Holding(q, o)) - Cardinality(last(o) \cap Holding(q, o))
    <3> HIDE DEF q, last
    <3> QED
      BY <1>2, FS_Union
  <2>3. Cardinality(last(o) \cap Holding(q, o)) = 0
    BY <2>1, FS_EmptySet
  <2> HIDE DEF q, last
  <2> QED
    BY <1>2, <2>1, <2>2, <2>3
\* The tuple and the dict are in no other container than a cell.
<1>8. \A c \in {Rest, Extra} : /\ q[c] = kept[c] + Cardinality(Holding(q, c))
                               /\ q[c] > 0 <=> r[c] > 0 /\ ~IsLast(r, s, c)
  <2> TAKE c \in {Rest, Extra}
  <2>1. c \in Objects /\ c \in Containers /\ r[c] \in Nat /\ kept[c] \in Nat
    BY <1>1, <1>5, ContainerObjects DEF Containers
  <2>2. InSeq(c, rest_items) = 0 /\ InSeq(c, EntryValues) = 0
    BY <2>1, ArgsOnly, NotArgs
  <2>3. InContents(r, c) = Cardinality(Holding(r, c))
    <3> HIDE DEF q
    <3>1. InContents(r, c) = (IF r[Rest] > 0 THEN InSeq(c, rest_items) ELSE 0)
                              + (IF r[Extra] > 0 THEN InSeq(c, EntryValues) ELSE 0)
                              + Cardinality(Holding(r, c))
      BY <1>5, <2>1
    <3>2. Cardinality(Holding(r, c)) \in Nat
      BY <1>2
    <3> QED
      BY <2>2, <3>1, <3>2
  <2>4. q[c] = r[c] - (InSeq(c, s) + Cardinality(last(c)))
    <3> HIDE DEF q, last, dropped
    <3>1. q[c] = r[c] - (InSeq(c, s) + Cardinality(last(c))) - dropped(c)
      BY <1>4, <2>1
    <3>2. dropped(c) = 0
      BY <1>3, <2>1, Zenon
    <3>3. InSeq(c, s) \in Nat /\ Cardinality(last(c)) \in Nat
      BY <1>1, <1>2
    <3> QED
      BY <2>1, <3>1, <3>2, <3>3
  <2>5. IsLast(r, s, c) <=> r[c] > 0 /\ r[c] = InSeq(c, s) + Cardinality(last(c))
    BY DEF IsLast, Drops
  <2>6. r[c] = InSeq(c, s) + kept[c] + Cardinality(last(c)) + Cardinality(Holding(q, c))
    <3> HIDE DEF q, last, dropped
    <3> QED
      BY <1>1, <1>2, <1>7, <2>1, <2>3
  <2> HIDE DEF q, last, dropped
  <2>7. /\ InSeq(c, s) \in Nat /\ Cardinality(last(c)) \in Nat
        /\ Cardinality(Holding(q, c)) \in Nat
    BY <1>1, <1>2
  <2>8. q[c] = kept[c] + Cardinality(Holding(q, c))
    BY <2>1, <2>4, <2>6, <2>7
  <2>9. q[c] \in Nat /\ q[c] <= r[c] /\ (q[c] = 0 <=> r[c] = InSeq(c, s) + Cardinality(last(c)))
    BY <2>1, <2>4, <2>7, <2>8
  <2> QED
    BY <2>1, <2>5, <2>7, <2>8, <2>9
<1> QED
  <2> SUFFICES ASSUME NEW o \in Objects
               PROVE  q[o] = kept[o] + InContents(q, o)
    OBVIOUS
  <2>1. /\ q[Rest] > 0 <=> r[Rest] > 0 /\ ~IsLast(r, s, Rest)
        /\ q[Extra] > 0 <=> r[Extra] > 0 /\ ~IsLast(r, s, Extra)
        /\ IsLast(r, s, Rest) => r[Rest] > 0
        /\ IsLast(r, s, Extra) => r[Extra] > 0
    <3>1. \A c : IsLast(r, s, c) => r[c] > 0
      BY DEF IsLast
    <3>2. /\ q[Rest] > 0 <=> r[Rest] > 0 /\ ~IsLast(r, s, Rest)
          /\ q[Extra] > 0 <=> r[Extra] > 0 /\ ~IsLast(r, s, Extra)
      <4> HIDE DEF q, last, dropped
      <4> QED
        BY <1>8, Zenon
    <3> QED
      BY <3>1, <3>2
  <2>2. dropped(o) = (IF r[Rest] > 0 THEN InSeq(o, rest_items) ELSE 0)
                       + (IF r[Extra] > 0 THEN InSeq(o, EntryValues) ELSE 0)
                       - (IF q[Rest] > 0 THEN InSeq(o, rest_items) ELSE 0)
                       - (IF q[Extra] > 0 THEN InSeq(o, EntryValues) ELSE 0)
    <3> HIDE DEF q
    <3> QED
      BY <1>1, <2>1
  <2>3. r[o] = InSeq(o, s) + kept[o] + InContents(r, o)
    OBVIOUS
  <2>4. q[o] = r[o] - (InSeq(o, s) + Cardinality(last(o))) - dropped(o)
    BY <1>4
  <2>5. Cardinality(Holding(r, o)) = Cardinality(last(o)) + Cardinality(Holding(q, o))
    BY <1>7
  <2> HIDE DEF q, last, dropped
  <2> QED
    BY <1>1, <1>2, <1>5, <2>2, <2>3, <2>4, <2>5
-----------------------------------------------------------------------------
(***************************************************************************)
(* The statements that change no count.                                    *)
(***************************************************************************)
LEMMA SameCounts ==
  ASSUME Inv, RefsOK, UNCHANGED <<func, call, refs, values, lists, locals, extra, rest_items,
                                  entries, cells, inside>>
  PROVE  RefsOK'
<1>1. EntryValues' = EntryValues
  BY DEF EntryValues
<1>2. \A o : Owners(o)' = Owners(o)
  BY <1>1 DEF Owners, InContents, InSeq, FunctionOwns
<1> QED
  BY <1>2, SameCall DEF RefsOK, OwnersExact

LEMMA NothingCountedRefs ==
  ASSUME Inv, RefsOK,
         \/ ExNamesFail \/ EnterFail \/ BindRestFail \/ NoKeywords \/ NoKwonly
         \/ StoreKwargsFail \/ NewCellFail \/ NewFrame \/ NewFrameFail
  PROVE  RefsOK'
BY SameCounts DEF ExNamesFail, EnterFail, BindRestFail, NoKeywords, NoKwonly,
     StoreKwargsFail, NewCellFail, NewFrame, NewFrameFail, Keep, Bindings
-----------------------------------------------------------------------------
(***************************************************************************)
(* The arguments are taken.                                                *)
(***************************************************************************)
LEMMA SubSeqIs ==
  ASSUME NEW S, NEW s \in Seq(S), NEW a \in Nat \ {0}, NEW b \in 0..Len(s)
  PROVE  /\ SubSeq(s, a, b) \in Seq(S)
         /\ Len(SubSeq(s, a, b)) = IF a <= b THEN b - a + 1 ELSE 0
         /\ \A i \in 1..(b - a + 1) : SubSeq(s, a, b)[i] = s[a + i - 1]
<1> QED
  OBVIOUS

\* The arguments as a sequence, and that no part of them is anything else.
LEMMA GivenIs ==
  ASSUME Inv
  PROVE  /\ Given \in Seq(Args) /\ Len(Given) = NArgs /\ NArgs \in Nat
         /\ \A i \in 1..NArgs : Given[i] = Arg(i)
<1>1. NArgs \in Nat
  BY Signatures DEF Inv
<1>2. Given \in [1..NArgs -> Args]
  BY DEF Given, Nargs, Args
<1> QED
  BY <1>1, <1>2, IsSequence, GivenType DEF Nargs

LEMMA NoContainer ==
  ASSUME Inv, NEW s \in Seq(Args), NEW c \in Containers
  PROVE  InSeq(c, s) = 0
<1>1. \A i \in DOMAIN s : s[i] # c
  BY NotArgs
<1> QED
  BY <1>1, CountNone

\* References to a part of the arguments.
LEMMA ArgsRetained ==
  ASSUME Inv, RefsOK, NEW s \in Seq(Args), UNCHANGED <<func, call, rest_items, entries, inside>>,
         refs' = RetainAll(refs, s), \A o \in Objects : Held(o)' = Held(o) + InSeq(o, s)
  PROVE  RefsOK'
<1>1. \A o \in Objects : refs'[o] = refs[o] + InSeq(o, s)
  BY DEF RetainAll
<1>2. \A c \in Containers : refs'[c] = refs[c]
  <2> TAKE c \in Containers
  <2>1. c \in Objects /\ InSeq(c, s) = 0
    BY ContainerObjects, NoContainer
  <2>2. refs[c] \in Nat
    BY <2>1, Typed
  <2> QED
    BY <1>1, <2>1, <2>2
<1>3. \A o : InContents(refs, o)' = InContents(refs, o)
  BY <1>2, ContentsKept
<1>4. \A o \in Objects : InSeq(o, s) \in Nat /\ InContents(refs, o) \in Nat /\ refs[o] \in Nat
  BY SequenceFinite, CountType, Counts, Typed
<1>5. refs' = [o \in Objects |-> refs'[o]]
  BY DEF RetainAll
<1>6. \A o \in Objects : \E h, k \in Int :
        /\ Held(o)' = Held(o) + h
        /\ InContents(refs, o)' = InContents(refs, o) + k
        /\ refs'[o] = refs[o] + h + k
  <2> TAKE o \in Objects
  <2>1. InSeq(o, s) \in Int /\ 0 \in Int /\ refs[o] \in Int
    BY <1>4
  <2>2. /\ Held(o)' = Held(o) + InSeq(o, s)
        /\ InContents(refs, o)' = InContents(refs, o) + 0
        /\ refs'[o] = refs[o] + InSeq(o, s) + 0
    BY <1>1, <1>3, <1>4
  <2> QED
    BY <2>1, <2>2
<1> QED
  BY <1>5, <1>6, Balanced

LEMMA ExValuesRefs ==
  ASSUME Inv, RefsOK, ExValues
  PROVE  RefsOK'
<1> DEFINE taken == SubSeq(lists, 1, call.npos)
<1>1. /\ lists = Given /\ \A i \in Nargs : values[i] = Unset
      /\ values \in [Nargs -> Args \cup {Unset}]
  BY DEF Inv, Arrays, ExValues
<1>2. NArgs = call.npos + Len(call.kwnames) /\ call.npos \in Nat /\ Len(call.kwnames) \in Nat
  BY Signatures DEF Inv, NArgs
<1>3. /\ taken \in Seq(Args) /\ Len(taken) = call.npos
      /\ \A i \in 1..call.npos : taken[i] = Arg(i)
  BY <1>1, <1>2, GivenIs, SubSeqIs
<1>4. values' = [i \in Nargs |-> IF i <= call.npos THEN Arg(i) ELSE Unset]
  BY <1>1, <1>2, GivenType DEF ExValues, Nargs
<1>5. \A o \in Objects : o # Unset
  BY Distinct DEF Objects
<1>6. ASSUME NEW o \in Objects
      PROVE  Held(o)' = Held(o) + InSeq(o, taken)
  <2>1. InSeq(o, values) = 0
    BY <1>1, <1>5, CountNone
  <2>2. \A i : (i \in DOMAIN values' /\ values'[i] = o) <=> (i \in DOMAIN taken /\ taken[i] = o)
    <3>1. DOMAIN values' = 1..NArgs /\ DOMAIN taken = 1..call.npos
      BY <1>3, <1>4 DEF Nargs
    <3> HIDE DEF taken
    <3> QED
      BY <1>2, <1>3, <1>4, <1>5, <3>1 DEF Nargs
  <2>3. InSeq(o, values') = InSeq(o, taken)
    BY <2>2, CountSame
  <2>4. InSeq(o, taken) \in Nat
    BY <1>3, SequenceFinite, CountType
  <2>5. UNCHANGED <<lists, locals, cells, extra>>
    BY DEF ExValues, Keep
  <2>6. /\ Held(o)' = InSeq(o, values') + InSeq(o, lists) + InSeq(o, locals) + InSeq(o, cells)
                         + (IF o = extra THEN 1 ELSE 0)
        /\ Held(o) = InSeq(o, values) + InSeq(o, lists) + InSeq(o, locals) + InSeq(o, cells)
                       + (IF o = extra THEN 1 ELSE 0)
    BY <2>5 DEF Held, InSeq
  <2>7. InSeq(o, lists) \in Nat /\ InSeq(o, locals) \in Nat /\ InSeq(o, cells) \in Nat
    BY Counts
  <2> QED
    BY <2>1, <2>3, <2>4, <2>6, <2>7
<1>7. refs' = RetainAll(refs, taken) /\ UNCHANGED <<func, call, rest_items, entries, inside>>
  BY DEF ExValues, Keep
<1> QED
  BY <1>3, <1>6, <1>7, ArgsRetained

LEMMA ExNamesRefs ==
  ASSUME Inv, RefsOK, ExNames
  PROVE  RefsOK'
<1> DEFINE first == SubSeq(Given, 1, call.npos)
           taken == SubSeq(Given, call.npos + 1, NArgs)
<1>1. /\ lists = Given /\ \A i \in Nargs : values[i] = IF i <= call.npos THEN Arg(i) ELSE Unset
      /\ values \in [Nargs -> Args \cup {Unset}]
  BY DEF Inv, Arrays, ExNames
<1>2. NArgs = call.npos + Len(call.kwnames) /\ call.npos \in Nat /\ Len(call.kwnames) \in Nat
  BY Signatures DEF Inv, NArgs
<1>3. /\ first \in Seq(Args) /\ Len(first) = call.npos
      /\ \A i \in 1..call.npos : first[i] = Arg(i)
  BY <1>2, GivenIs, SubSeqIs
<1>4. /\ taken \in Seq(Args) /\ Len(taken) = NArgs - call.npos
      /\ \A i \in 1..(NArgs - call.npos) : taken[i] = Arg(call.npos + i)
  BY <1>2, GivenIs, SubSeqIs
<1>5. Given = first \o taken
  <2>1. first \o taken \in Seq(Args) /\ Len(first \o taken) = NArgs
    BY <1>2, <1>3, <1>4
  <2>2. \A i \in 1..NArgs : (first \o taken)[i] = Arg(i)
    <3> TAKE i \in 1..NArgs
    <3> HIDE DEF first, taken
    <3>1. CASE i <= call.npos
      BY <1>2, <1>3, <1>4, <3>1, ConcatIs
    <3>2. CASE ~(i <= call.npos)
      <4> DEFINE k == i - call.npos
      <4>1. NArgs \in Nat /\ i \in Int
        BY GivenIs
      <4>2. k \in 1..(NArgs - call.npos) /\ i = call.npos + k
        BY <1>2, <3>2, <4>1
      <4> HIDE DEF k
      <4>3. (first \o taken)[call.npos + k] = taken[k]
        BY <1>3, <1>4, <4>2, ConcatIs
      <4> QED
        BY <1>4, <4>2, <4>3
    <3> QED
      BY <3>1, <3>2
  <2> HIDE DEF first, taken
  <2> QED
    BY <2>1, <2>2, GivenIs
<1>6. \A o \in Objects : o # Unset
  BY Distinct DEF Objects
<1>7. ASSUME NEW o \in Objects
      PROVE  Held(o)' = Held(o) + InSeq(o, taken)
  <2>1. InSeq(o, Given) = InSeq(o, first) + InSeq(o, taken)
    BY <1>3, <1>4, <1>5, CountConcat
  <2>2. \A i : (i \in DOMAIN values /\ values[i] = o) <=> (i \in DOMAIN first /\ first[i] = o)
    <3>1. DOMAIN values = 1..NArgs /\ DOMAIN first = 1..call.npos
      BY <1>1, <1>3 DEF Nargs
    <3> HIDE DEF first
    <3> QED
      BY <1>1, <1>2, <1>3, <1>6, <3>1 DEF Nargs
  <2>3. InSeq(o, values) = InSeq(o, first)
    BY <2>2, CountSame
  <2>4. InSeq(o, taken) \in Nat
    BY <1>4, SequenceFinite, CountType
  <2>5. UNCHANGED <<lists, locals, cells, extra>> /\ values' = Given
    BY <1>1 DEF ExNames, Keep
  <2>6. /\ Held(o)' = InSeq(o, Given) + InSeq(o, lists) + InSeq(o, locals) + InSeq(o, cells)
                         + (IF o = extra THEN 1 ELSE 0)
        /\ Held(o) = InSeq(o, values) + InSeq(o, lists) + InSeq(o, locals) + InSeq(o, cells)
                       + (IF o = extra THEN 1 ELSE 0)
    BY <2>5 DEF Held, InSeq
  <2>7. /\ InSeq(o, values) \in Nat /\ InSeq(o, lists) \in Nat
        /\ InSeq(o, locals) \in Nat /\ InSeq(o, cells) \in Nat
    BY Counts
  <2> HIDE DEF first, taken
  <2> QED
    BY <2>1, <2>3, <2>4, <2>6, <2>7
<1>8. refs' = RetainAll(refs, taken) /\ UNCHANGED <<func, call, rest_items, entries, inside>>
  BY <1>1 DEF ExNames, Keep
<1> QED
  BY <1>4, <1>7, <1>8, ArgsRetained
-----------------------------------------------------------------------------
(***************************************************************************)
(* The parameters are bound.                                               *)
(***************************************************************************)
LEMMA EnterRefs ==
  ASSUME Inv, RefsOK, Enter
  PROVE  RefsOK'
<1> DEFINE taken == SubSeq(values, 1, Supplied)
<1>1. values = Given /\ locals = << >> /\ DOMAIN locals = {}
  BY DEF Inv, Arrays, Stages, Enter, Live, Filled, Binds
<1>2. /\ Supplied \in Nat /\ Supplied <= NArgs /\ NArgs \in Nat
      /\ func.nlocals \in Nat /\ Supplied <= func.nlocals
  BY SuppliedIs, Signatures DEF Inv, NArgs
<1>3. /\ taken \in Seq(Args) /\ Len(taken) = Supplied
      /\ \A i \in 1..Supplied : taken[i] = Arg(i)
  BY <1>1, <1>2, GivenIs, SubSeqIs
<1>4. /\ locals' = [s \in Slots |-> IF s < Supplied THEN values[s + 1] ELSE Null]
      /\ refs' = RetainAll(refs, taken)
      /\ UNCHANGED <<func, call, lists, values, extra, rest_items, entries, cells, inside>>
  BY DEF Enter, Slots, Keep
<1>5. \A s \in Slots : locals'[s] = IF s < Supplied THEN Arg(s + 1) ELSE Null
  <2>1. \A s \in Slots : s < Supplied => s + 1 \in Nargs
    BY <1>2 DEF Slots, Nargs
  <2> QED
    BY <1>1, <1>4, <2>1, GivenType
<1>6. \A o \in Objects : o # Null
  BY Distinct DEF Objects
<1>7. ASSUME NEW o \in Objects
      PROVE  Held(o)' = Held(o) + InSeq(o, taken)
  <2> DEFINE f == [i \in DOMAIN taken |-> i - 1]
  <2>1. DOMAIN taken = 1..Supplied /\ IsFiniteSet(DOMAIN taken)
    BY <1>3, SequenceFinite
  <2>2. \A i \in DOMAIN taken : taken[i] = o => f[i] \in DOMAIN locals' /\ locals'[f[i]] = o
    <3> TAKE i \in DOMAIN taken
    <3>1. i - 1 \in Slots /\ i - 1 < Supplied /\ (i - 1) + 1 = i /\ taken[i] = Arg(i)
      BY <1>2, <1>3, <2>1 DEF Slots
    <3>2. locals'[i - 1] = Arg(i)
      BY <1>5, <3>1
    <3> QED
      BY <1>4, <3>1, <3>2
  <2>3. \A i, j \in DOMAIN taken : f[i] = f[j] => i = j
    BY <2>1
  <2>4. \A k \in DOMAIN locals' : locals'[k] = o => \E i \in DOMAIN taken : taken[i] = o /\ f[i] = k
    <3> TAKE k \in DOMAIN locals'
    <3> HAVE locals'[k] = o
    <3>1. k \in Slots /\ k < Supplied /\ o = Arg(k + 1)
      BY <1>4, <1>5, <1>6
    <3>2. k + 1 \in DOMAIN taken /\ (k + 1) - 1 = k
      BY <1>2, <2>1, <3>1 DEF Slots
    <3> QED
      BY <1>3, <2>1, <3>1, <3>2
  <2>5. InSeq(o, taken) = InSeq(o, locals')
    <3> DEFINE new == locals'
    <3>1. /\ \A i \in DOMAIN taken : taken[i] = o => f[i] \in DOMAIN new /\ new[f[i]] = o
          /\ \A k \in DOMAIN new : new[k] = o => \E i \in DOMAIN taken : taken[i] = o /\ f[i] = k
      BY <2>2, <2>4
    <3>2. IsFiniteSet(DOMAIN taken)
      BY <2>1
    <3> HIDE DEF f, taken, new
    <3>3. InSeq(o, taken) = InSeq(o, new)
      BY <2>3, <3>1, <3>2, CountMoved
    <3> QED
      BY <3>3 DEF new
  <2>6. InSeq(o, locals) = 0 /\ InSeq(o, taken) \in Nat
    BY <1>1, <2>1, CountNone, CountType
  <2>7. /\ Held(o)' = InSeq(o, values) + InSeq(o, lists) + InSeq(o, locals') + InSeq(o, cells)
                         + (IF o = extra THEN 1 ELSE 0)
        /\ Held(o) = InSeq(o, values) + InSeq(o, lists) + InSeq(o, locals) + InSeq(o, cells)
                       + (IF o = extra THEN 1 ELSE 0)
    BY <1>4 DEF Held, InSeq
  <2>8. InSeq(o, values) \in Nat /\ InSeq(o, lists) \in Nat /\ InSeq(o, cells) \in Nat
    BY Counts
  <2> HIDE DEF taken
  <2> QED
    BY <2>5, <2>6, <2>7, <2>8
<1> HIDE DEF taken
<1> QED
  BY <1>3, <1>4, <1>7, ArgsRetained

\* A slot that was free takes an object that is no container.
LEMMA SlotWritten ==
  ASSUME Inv, RefsOK, pc \in Binds, NEW t \in Slots, NEW e \in Objects \ Containers,
         locals[t] = Null, locals' = [locals EXCEPT ![t] = e], refs' = Retain(refs, e),
         UNCHANGED <<func, call, values, lists, cells, extra, rest_items, entries, inside>>
  PROVE  RefsOK'
<1>1. /\ DOMAIN refs = Objects /\ refs' = [o \in Objects |-> refs'[o]]
      /\ \A o \in Objects : refs'[o] = IF o = e THEN refs[o] + 1 ELSE refs[o]
  BY DEF Retain, RefsOK
<1>2. \A c \in Containers : refs'[c] = refs[c]
  BY <1>1, ContainerObjects
<1>3. \A o : InContents(refs, o)' = InContents(refs, o)
  BY <1>2, ContentsKept
<1>4. IsFiniteSet(DOMAIN locals) /\ DOMAIN locals = Slots
  BY Counts, AtBinds
<1>5. ASSUME NEW o \in Objects
      PROVE  \E h, k \in Int : /\ Held(o)' = Held(o) + h
                               /\ InContents(refs, o)' = InContents(refs, o) + k
                               /\ refs'[o] = refs[o] + h + k
  <2>1. o # Null
    BY Distinct DEF Objects
  <2>2. InSeq(o, locals') = InSeq(o, locals) + (IF e = o THEN 1 ELSE 0)
    <3> DEFINE new == locals'
    <3>1. /\ t \in DOMAIN locals /\ locals[t] # o
          /\ DOMAIN new = DOMAIN locals /\ new[t] = e
          /\ \A s \in DOMAIN locals : s # t => new[s] = locals[s]
      BY <1>4, <2>1
    <3> HIDE DEF new
    <3>2. InSeq(o, new) = InSeq(o, locals) + (IF e = o THEN 1 ELSE 0)
      BY <1>4, <3>1, CountWritten
    <3> QED
      BY <3>2 DEF new
  <2>3. /\ Held(o)' = InSeq(o, values) + InSeq(o, lists) + InSeq(o, locals') + InSeq(o, cells)
                         + (IF o = extra THEN 1 ELSE 0)
        /\ Held(o) = InSeq(o, values) + InSeq(o, lists) + InSeq(o, locals) + InSeq(o, cells)
                       + (IF o = extra THEN 1 ELSE 0)
    BY DEF Held, InSeq
  <2>4. /\ InSeq(o, values) \in Nat /\ InSeq(o, lists) \in Nat /\ InSeq(o, cells) \in Nat
        /\ InSeq(o, locals) \in Nat /\ InContents(refs, o) \in Nat /\ refs[o] \in Nat
    BY Counts, Typed
  <2>5. /\ Held(o)' = Held(o) + (IF e = o THEN 1 ELSE 0)
        /\ InContents(refs, o)' = InContents(refs, o) + 0
        /\ refs'[o] = refs[o] + (IF e = o THEN 1 ELSE 0) + 0
    BY <1>1, <1>3, <2>2, <2>3, <2>4
  <2>6. (IF e = o THEN 1 ELSE 0) \in Int /\ 0 \in Int
    OBVIOUS
  <2> QED
    BY <2>5, <2>6
<1> QED
  BY <1>1, <1>5, Balanced

LEMMA BindRestRefs ==
  ASSUME Inv, RefsOK, BindRest, Inv'
  PROVE  RefsOK'
<1>1. /\ pc = "rest" /\ pc \in Binds
      /\ refs' = [RetainAll(refs, rest_items') EXCEPT ![Rest] = 1]
      /\ locals' = [locals EXCEPT ![func.vararg_slot] = Rest]
      /\ UNCHANGED <<func, call, lists, values, extra, entries, cells, inside>>
  BY DEF BindRest, Binds, Keep
<1>2. rest_items' \in Seq(Args)
  BY <1>1, SameCall DEF Inv, TypeOK
<1>3. func.vararg_slot \in Slots /\ locals[func.vararg_slot] = Null /\ rest_items = << >>
  BY <1>1, AtBinds, OwnSlots DEF Bound3, Inv, Stages
<1>4. Rest \in Containers /\ Extra \in Containers /\ Rest # Extra /\ refs[Rest] = 0
      /\ \A i \in DOMAIN inside : Cell(i) \in Containers /\ Cell(i) # Rest
  BY <1>1, Unmade, ContainerObjects, Distinct DEF Containers
<1>5. /\ refs' = [o \in Objects |-> refs'[o]]
      /\ \A o \in Objects : refs'[o] = IF o = Rest THEN 1 ELSE refs[o] + InSeq(o, rest_items')
  <2>1. refs' = [o \in Objects |-> IF o = Rest THEN 1 ELSE refs[o] + InSeq(o, rest_items')]
    BY <1>1 DEF RetainAll
  <2> QED
    BY <2>1
<1>6. \A c \in Containers : refs'[c] = IF c = Rest THEN 1 ELSE refs[c]
  <2> TAKE c \in Containers
  <2>1. c \in Objects /\ InSeq(c, rest_items') = 0 /\ refs[c] \in Nat
    BY <1>2, ContainerObjects, NoContainer, Typed
  <2> QED
    BY <1>5, <2>1
<1>7. IsFiniteSet(DOMAIN locals) /\ DOMAIN locals = Slots
  BY <1>1, Counts, AtBinds
<1>8. EntryValues' = EntryValues
  BY <1>1 DEF EntryValues
<1>9. ASSUME NEW o \in Objects
      PROVE  \E h, k \in Int : /\ Held(o)' = Held(o) + h
                               /\ InContents(refs, o)' = InContents(refs, o) + k
                               /\ refs'[o] = refs[o] + h + k
  <2>1. o # Null
    BY Distinct DEF Objects
  <2>2. InSeq(o, locals') = InSeq(o, locals) + (IF Rest = o THEN 1 ELSE 0)
    <3> DEFINE t == func.vararg_slot
    <3>1. /\ t \in DOMAIN locals /\ locals[t] # o
          /\ DOMAIN locals' = DOMAIN locals /\ locals'[t] = Rest
          /\ \A s \in DOMAIN locals : s # t => locals'[s] = locals[s]
      BY <1>1, <1>3, <1>7, <2>1
    <3> HIDE DEF t
    <3> QED
      BY <1>7, <3>1, CountWritten
  <2>3. /\ Held(o)' = InSeq(o, values) + InSeq(o, lists) + InSeq(o, locals') + InSeq(o, cells)
                         + (IF o = extra THEN 1 ELSE 0)
        /\ Held(o) = InSeq(o, values) + InSeq(o, lists) + InSeq(o, locals) + InSeq(o, cells)
                       + (IF o = extra THEN 1 ELSE 0)
    BY <1>1 DEF Held, InSeq
  <2>4. /\ InSeq(o, values) \in Nat /\ InSeq(o, lists) \in Nat /\ InSeq(o, cells) \in Nat
        /\ InSeq(o, locals) \in Nat /\ InContents(refs, o) \in Nat /\ refs[o] \in Nat
        /\ InSeq(o, EntryValues) \in Nat /\ Cardinality(Holding(refs, o)) \in Nat
    BY Counts, Typed
  <2>5. InSeq(o, rest_items') \in Nat /\ (o = Rest => InSeq(o, rest_items') = 0)
    BY <1>2, <1>4, SequenceFinite, CountType, NoContainer
  <2>6. InContents(refs, o) = (IF refs[Extra] > 0 THEN InSeq(o, EntryValues) ELSE 0)
                                + Cardinality(Holding(refs, o))
    BY <1>4, <2>4 DEF InContents, Holding
  <2>7. /\ InContents(refs, o)' = InSeq(o, rest_items')
             + (IF refs'[Extra] > 0 THEN InSeq(o, EntryValues) ELSE 0)
             + Cardinality({i \in DOMAIN inside : refs'[Cell(i)] > 0 /\ inside[i] = o})
    <3>1. refs'[Rest] = 1
      BY <1>4, <1>6
    <3>2. InSeq(o, EntryValues)' = InSeq(o, EntryValues) /\ inside' = inside
      BY <1>1, <1>8 DEF InSeq
    <3>3. InSeq(o, rest_items)' = InSeq(o, rest_items')
      BY DEF InSeq
    <3> QED
      BY <3>1, <3>2, <3>3, <2>5 DEF InContents
  <2>8. /\ refs'[Extra] = refs[Extra]
        /\ {i \in DOMAIN inside : refs'[Cell(i)] > 0 /\ inside[i] = o} = Holding(refs, o)
    BY <1>4, <1>6 DEF Holding
  <2>9. /\ Held(o)' = Held(o) + (IF Rest = o THEN 1 ELSE 0)
        /\ InContents(refs, o)' = InContents(refs, o) + InSeq(o, rest_items')
        /\ refs'[o] = refs[o] + (IF Rest = o THEN 1 ELSE 0) + InSeq(o, rest_items')
    <3>1. Held(o)' = Held(o) + (IF Rest = o THEN 1 ELSE 0)
      BY <2>2, <2>3, <2>4
    <3>2. InContents(refs, o)' = InContents(refs, o) + InSeq(o, rest_items')
      BY <2>4, <2>5, <2>6, <2>7, <2>8
    <3>3. refs'[o] = refs[o] + (IF Rest = o THEN 1 ELSE 0) + InSeq(o, rest_items')
      BY <1>4, <1>5, <2>4, <2>5
    <3> QED
      BY <3>1, <3>2, <3>3
  <2>10. (IF Rest = o THEN 1 ELSE 0) \in Int /\ InSeq(o, rest_items') \in Int
    BY <2>5
  <2> QED
    BY <2>9, <2>10
<1> QED
  BY <1>1, <1>5, <1>9, Balanced

LEMMA BindKeywordRefs ==
  ASSUME Inv, RefsOK, BindKeyword
  PROVE  RefsOK'
<1> USE DEF BindKeyword, Keep
<1>1. n \in 1..Len(call.kwnames) /\ pc \in Binds /\ Handled = n - 1 /\ ~ParamsDone
  BY Signatures DEF Inv, TypeOK, Binds, Handled, ParamsDone
<1>2. NamedSoFar(Name) = {}
  BY <1>1, Signatures DEF NamedSoFar, Name, IsInjective, Inv
<1>3. Value \in Objects \ Containers
  BY <1>1, ValueIs, ContainerObjects, NotArgs
<1>4. UNCHANGED <<func, call, values, lists, cells, extra, rest_items, entries, inside>>
  OBVIOUS
<1>5. PICK s \in IF KeywordSlot(Name) # {} THEN KeywordSlot(Name) ELSE KwonlySlot(Name) :
        IF IF KeywordSlot(Name) # {} THEN s < Supplied ELSE locals[s] # Null
        THEN UNCHANGED <<locals, refs>>
        ELSE locals' = [locals EXCEPT ![s] = Value] /\ refs' = Retain(refs, Value)
  OBVIOUS
<1> HIDE DEF BindKeyword, Keep
<1>6. CASE UNCHANGED <<locals, refs>>
  BY <1>4, <1>6, SameCounts
<1>7. CASE /\ locals' = [locals EXCEPT ![s] = Value] /\ refs' = Retain(refs, Value)
           /\ IF KeywordSlot(Name) # {} THEN ~(s < Supplied) ELSE locals[s] = Null
  <2>1. CASE KeywordSlot(Name) # {}
    <3>1. PICK i \in (func.posonly + 1)..NParams : func.params[i] = Name /\ s = i - 1
      BY <1>5, <2>1 DEF KeywordSlot
    <3>2. i \in 1..NParams /\ s \in Slots /\ i > call.npos /\ call.npos \in Nat
      BY <1>7, <2>1, <3>1, SuppliedIs, Signatures, OwnSlots DEF Inv
    <3>3. ParamSoFar(i) = {}
      BY <1>2, <3>1, <3>2 DEF ParamSoFar
    <3>4. locals[s] = Null
      BY <1>1, <3>1, <3>2, <3>3, AtBinds DEF Bound1
    <3> QED
      BY <1>1, <1>3, <1>4, <1>7, <3>2, <3>4, SlotWritten
  <2>2. CASE KeywordSlot(Name) = {}
    <3>1. s \in Slots /\ locals[s] = Null
      BY <1>5, <1>7, <2>2, OwnSlots DEF KwonlySlot, Inv
    <3> QED
      BY <1>1, <1>3, <1>4, <1>7, <3>1, SlotWritten
  <2> QED
    BY <2>1, <2>2
<1> QED
  BY <1>5, <1>6, <1>7

LEMMA FillKwDefaultRefs ==
  ASSUME Inv, RefsOK, FillKwDefault
  PROVE  RefsOK'
<1> DEFINE s == func.kwonly_slots[n]
<1>1. /\ pc \in Binds /\ n \in 1..Len(func.kwonly)
      /\ UNCHANGED <<func, call, values, lists, cells, extra, rest_items, entries, inside>>
      /\ \/ UNCHANGED <<locals, refs>>
         \/ locals[s] = Null /\ locals' = [locals EXCEPT ![s] = KwDefault(n)] /\ refs' = Retain(refs, KwDefault(n))
  BY Signatures DEF FillKwDefault, Keep, Binds, Inv, TypeOK
<1>2. s \in Slots /\ KwDefault(n) \in Objects \ Containers
  BY <1>1, OwnSlots, Distinct DEF Objects, Containers, Inv
<1> HIDE DEF s
<1>3. CASE UNCHANGED <<locals, refs>>
  BY <1>1, <1>3, SameCounts
<1>4. CASE locals[s] = Null /\ locals' = [locals EXCEPT ![s] = KwDefault(n)] /\ refs' = Retain(refs, KwDefault(n))
  BY <1>1, <1>2, <1>4, SlotWritten
<1> QED
  BY <1>1, <1>3, <1>4

LEMMA FillDefaultsRefs ==
  ASSUME Inv, RefsOK, FillDefaults
  PROVE  RefsOK'
<1> DEFINE missing == {s \in 0..(NParams - 1) : locals[s] = Null}
           fill    == IF \E s \in missing : s < FirstDefault THEN {} ELSE missing
           D(s)    == Default(s - FirstDefault + 1)
           at(o)   == {s \in fill : o = D(s)}
<1>1. /\ pc \in Binds
      /\ locals' = [s \in DOMAIN locals |-> IF s \in fill THEN D(s) ELSE locals[s]]
      /\ refs' = [o \in Objects |-> refs[o] + Cardinality(at(o))]
      /\ UNCHANGED <<func, call, lists, values, extra, rest_items, entries, cells, inside>>
  BY DEF FillDefaults, Binds, Keep
<1>2. NParams \in Nat /\ NParams <= func.nlocals /\ func.nlocals \in Nat
  BY Signatures DEF Inv
<1>3. DOMAIN locals = Slots /\ IsFiniteSet(Slots) /\ fill \subseteq Slots
      /\ \A s \in fill : locals[s] = Null
  <2>1. DOMAIN locals = Slots /\ IsFiniteSet(Slots)
    BY <1>1, <1>2, AtBinds, FS_Interval DEF Slots
  <2>2. missing \subseteq Slots /\ fill \subseteq missing
    BY <1>2 DEF Slots
  <2> QED
    BY <2>1, <2>2
<1> HIDE DEF fill
<1>4. \A o : IsFiniteSet(at(o)) /\ Cardinality(at(o)) \in Nat
  <2> TAKE o
  <2>1. at(o) \in SUBSET Slots
    BY <1>3
  <2> HIDE DEF at
  <2> QED
    BY <1>3, <2>1, FS_Subset, FS_CardinalityType
<1>5. \A c \in Containers : refs'[c] = refs[c]
  <2> TAKE c \in Containers
  <2>1. at(c) = {}
    BY Distinct DEF Containers
  <2>2. c \in Objects /\ refs[c] \in Nat /\ Cardinality(at(c)) = 0
    BY <2>1, ContainerObjects, Typed, FS_EmptySet
  <2> HIDE DEF at
  <2> QED
    BY <1>1, <2>2
<1>6. \A o : InContents(refs, o)' = InContents(refs, o)
  <2> HIDE DEF at
  <2> QED
    BY <1>1, <1>5, ContentsKept
<1>7. ASSUME NEW o \in Objects
      PROVE  \E h, k \in Int : /\ Held(o)' = Held(o) + h
                               /\ InContents(refs, o)' = InContents(refs, o) + k
                               /\ refs'[o] = refs[o] + h + k
  <2> DEFINE new == locals'
  <2>1. o # Null
    BY Distinct DEF Objects
  <2>2. /\ \A s \in at(o) : ~(s \in DOMAIN locals /\ locals[s] = o)
        /\ \A s : (s \in DOMAIN new /\ new[s] = o) <=> (s \in DOMAIN locals /\ locals[s] = o) \/ s \in at(o)
    BY <1>1, <1>3, <2>1
  <2>3. IsFiniteSet(DOMAIN locals)
    BY <1>3
  <2>4. InSeq(o, new) = InSeq(o, locals) + Cardinality(at(o))
    <3> DEFINE A == at(o)
    <3>1. /\ \A s \in A : ~(s \in DOMAIN locals /\ locals[s] = o)
          /\ \A s : (s \in DOMAIN new /\ new[s] = o) <=> (s \in DOMAIN locals /\ locals[s] = o) \/ s \in A
      BY <2>2
    <3>2. IsFiniteSet(A)
      BY <1>4
    <3> HIDE DEF A, new
    <3>3. InSeq(o, new) = InSeq(o, locals) + Cardinality(A)
      BY <2>3, <3>1, <3>2, CountMore
    <3> QED
      BY <3>3 DEF A
  <2>5. /\ Held(o)' = InSeq(o, values) + InSeq(o, lists) + InSeq(o, new) + InSeq(o, cells)
                         + (IF o = extra THEN 1 ELSE 0)
        /\ Held(o) = InSeq(o, values) + InSeq(o, lists) + InSeq(o, locals) + InSeq(o, cells)
                       + (IF o = extra THEN 1 ELSE 0)
    BY <1>1 DEF Held, InSeq
  <2>6. /\ InSeq(o, values) \in Nat /\ InSeq(o, lists) \in Nat /\ InSeq(o, cells) \in Nat
        /\ InSeq(o, locals) \in Nat /\ InContents(refs, o) \in Nat /\ refs[o] \in Nat
    BY Counts, Typed
  <2> HIDE DEF at, new
  <2>7. refs'[o] = refs[o] + Cardinality(at(o)) /\ Cardinality(at(o)) \in Int /\ 0 \in Int
    BY <1>1, <1>4
  <2>8. /\ Held(o)' = Held(o) + Cardinality(at(o))
        /\ InContents(refs, o)' = InContents(refs, o) + 0
        /\ refs'[o] = refs[o] + Cardinality(at(o)) + 0
    BY <1>6, <2>4, <2>5, <2>6, <2>7
  <2> QED
    BY <2>7, <2>8
<1>8. refs' = [o \in Objects |-> refs'[o]]
  BY <1>1
<1> HIDE DEF at
<1> QED
  BY <1>1, <1>7, <1>8, Balanced
-----------------------------------------------------------------------------
(***************************************************************************)
(* The dict of **kwargs.                                                   *)
(***************************************************************************)
\* While the locals are bound the entries count, whether the dict is there or not yet.
LEMMA EntriesCount ==
  ASSUME Inv, RefsOK, pc \in Binds, UNCHANGED <<func, call, rest_items, inside>>,
         refs'[Extra] = 1, \A c \in Containers : c # Extra => refs'[c] = refs[c],
         NEW o, NEW d \in Nat, InSeq(o, EntryValues)' = InSeq(o, EntryValues) + d
  PROVE  InContents(refs, o)' = InContents(refs, o) + d
<1>1. /\ refs'[Rest] = refs[Rest]
      /\ \A i \in DOMAIN inside : refs'[Cell(i)] = refs[Cell(i)]
  BY ContainerObjects, Distinct DEF Containers
<1>2. /\ InSeq(o, rest_items) \in Nat /\ InSeq(o, EntryValues) \in Nat
      /\ Cardinality(Holding(refs, o)) \in Nat
  BY Counts
<1>3. (IF refs[Extra] > 0 THEN InSeq(o, EntryValues) ELSE 0) = InSeq(o, EntryValues)
  <2>1. CASE extra = Extra
    <3>1. refs[Extra] = 1
      BY <2>1, Unmade
    <3> QED
      BY <3>1
  <2>2. CASE extra # Extra
    <3>1. entries = << >>
      BY <2>2, AtBinds DEF Inv, TypeOK
    <3>2. InSeq(o, EntryValues) = 0
      BY <3>1, CountNone DEF EntryValues
    <3> QED
      BY <3>2
  <2> QED
    BY <2>1, <2>2
<1>4. InContents(refs, o) = (IF refs[Rest] > 0 THEN InSeq(o, rest_items) ELSE 0)
                              + InSeq(o, EntryValues) + Cardinality(Holding(refs, o))
  BY <1>3 DEF InContents, Holding
<1>5. Holding(refs, o)' = Holding(refs, o)
  BY <1>1 DEF Holding
<1>6. InContents(refs, o)' = (IF refs[Rest] > 0 THEN InSeq(o, rest_items) ELSE 0)
                               + InSeq(o, EntryValues)' + Cardinality(Holding(refs, o))
  <2>1. InSeq(o, rest_items)' = InSeq(o, rest_items)
    BY DEF InSeq
  <2>2. InContents(refs, o)' = (IF refs'[Rest] > 0 THEN InSeq(o, rest_items)' ELSE 0)
                                 + (IF refs'[Extra] > 0 THEN InSeq(o, EntryValues)' ELSE 0)
                                 + Cardinality(Holding(refs, o)')
    BY DEF InContents, Holding
  <2>3. 1 > 0
    OBVIOUS
  <2> QED
    BY <1>1, <1>5, <2>1, <2>2, <2>3
<1> QED
  BY <1>2, <1>4, <1>6

LEMMA BindExtraRefs ==
  ASSUME Inv, RefsOK, BindExtra
  PROVE  RefsOK'
<1>1. CASE ~func.kwarg
  <2>1. UNCHANGED <<func, call, refs, values, lists, locals, extra, rest_items, entries, cells, inside>>
    BY <1>1 DEF BindExtra, Keep
  <2> QED
    BY <2>1, SameCounts
<1>2. CASE func.kwarg
  <2>1. /\ pc \in Binds /\ n \in 1..Len(call.kwnames)
        /\ extra' = Extra /\ entries' = Append(entries, <<Name, Value>>)
        /\ refs' = [Retain(refs, Value) EXCEPT ![Extra] = 1]
        /\ UNCHANGED <<func, call, lists, values, locals, rest_items, cells, inside>>
    BY <1>2, Signatures DEF BindExtra, Binds, Keep, Inv, TypeOK
  <2>2. Value \in Args /\ Value \in Objects \ Containers /\ Name \in STRING /\ Extra \in Objects
    BY <2>1, ValueIs, ContainerObjects, NotArgs, Signatures DEF Name, Inv
  <2>3. /\ refs' = [o \in Objects |-> refs'[o]]
        /\ \A o \in Objects : refs'[o] = IF o = Extra THEN 1
                                         ELSE IF o = Value THEN refs[o] + 1 ELSE refs[o]
    BY <2>1 DEF Retain, RefsOK
  <2>4. refs'[Extra] = 1 /\ \A c \in Containers : c # Extra => refs'[c] = refs[c]
    BY <2>2, <2>3, ContainerObjects
  <2>5. extra \in {Null, Extra} /\ Null # Extra /\ refs[Extra] = IF extra = Extra THEN 1 ELSE 0
    BY <2>1, Unmade, Distinct DEF Inv, TypeOK
  <2>6. ASSUME NEW o \in Objects
        PROVE  InSeq(o, EntryValues)' = InSeq(o, EntryValues) + (IF Value = o THEN 1 ELSE 0)
    <3> DEFINE old == EntryValues
               new == EntryValues'
               size == Len(entries)
    <3>1. /\ entries \in Seq(STRING \X Args) /\ <<Name, Value>> \in STRING \X Args /\ size \in Nat
          /\ DOMAIN entries = 1..size
      BY <2>2 DEF Inv, TypeOK
    <3>2. /\ entries' \in Seq(STRING \X Args) /\ Len(entries') = size + 1
          /\ \A k \in 1..size : entries'[k] = entries[k]
          /\ entries'[size + 1] = <<Name, Value>>
      BY <2>1, <3>1, AppendIs
    <3>3. /\ DOMAIN old = 1..size /\ DOMAIN new = 1..(size + 1)
          /\ \A k \in 1..size : old[k] = entries[k][2] /\ new[k] = entries'[k][2]
          /\ new[size + 1] = entries'[size + 1][2]
      BY <3>1, <3>2 DEF EntryValues
    <3>4. /\ \A k \in 1..size : new[k] = old[k]
          /\ new[size + 1] = Value
      BY <3>2, <3>3
    <3> DEFINE A == IF Value = o THEN {size + 1} ELSE {}
    <3>5. IsFiniteSet(A) /\ Cardinality(A) = IF Value = o THEN 1 ELSE 0
      BY FS_Singleton, FS_EmptySet
    <3> HIDE DEF old, new, size
    <3>6. /\ \A i \in A : ~(i \in DOMAIN old /\ old[i] = o)
          /\ \A i : (i \in DOMAIN new /\ new[i] = o) <=> (i \in DOMAIN old /\ old[i] = o) \/ i \in A
      BY <3>1, <3>3, <3>4
    <3>7. IsFiniteSet(DOMAIN old)
      BY <3>1, <3>3, FS_Interval
    <3> HIDE DEF A
    <3>8. InSeq(o, new) = InSeq(o, old) + Cardinality(A)
      BY <3>5, <3>6, <3>7, CountMore
    <3>9. InSeq(o, EntryValues)' = InSeq(o, new)
      BY DEF InSeq, new
    <3> QED
      BY <3>5, <3>8, <3>9 DEF old
  <2>7. ASSUME NEW o \in Objects
        PROVE  \E h, k \in Int : /\ Held(o)' = Held(o) + h
                                 /\ InContents(refs, o)' = InContents(refs, o) + k
                                 /\ refs'[o] = refs[o] + h + k
    <3> DEFINE h == IF o = Extra /\ extra # Extra THEN 1 ELSE 0
               d == IF Value = o THEN 1 ELSE 0
    <3>1. InContents(refs, o)' = InContents(refs, o) + d
      <4>1. d \in Nat /\ InSeq(o, EntryValues)' = InSeq(o, EntryValues) + d
        BY <2>6
      <4> HIDE DEF d
      <4> QED
        BY <2>1, <2>4, <4>1, EntriesCount
    <3>2. Held(o)' = Held(o) + h
      <4>1. /\ Held(o)' = InSeq(o, values) + InSeq(o, lists) + InSeq(o, locals) + InSeq(o, cells)
                             + (IF o = Extra THEN 1 ELSE 0)
            /\ Held(o) = InSeq(o, values) + InSeq(o, lists) + InSeq(o, locals) + InSeq(o, cells)
                           + (IF o = extra THEN 1 ELSE 0)
        BY <2>1 DEF Held, InSeq
      <4>2. /\ InSeq(o, values) \in Nat /\ InSeq(o, lists) \in Nat /\ InSeq(o, cells) \in Nat
            /\ InSeq(o, locals) \in Nat
        BY Counts
      <4>3. o # Null
        BY Distinct DEF Objects
      <4> QED
        BY <2>5, <4>1, <4>2, <4>3
    <3>3. refs'[o] = refs[o] + h + d
      <4>1. refs[o] \in Nat
        BY Typed
      <4>2. CASE o = Extra
        BY <2>2, <2>3, <2>5, <4>2, ContainerObjects DEF Containers
      <4>3. CASE o # Extra
        BY <2>3, <4>1, <4>3
      <4> QED
        BY <4>2, <4>3
    <3>4. h \in Int /\ d \in Int
      OBVIOUS
    <3> HIDE DEF h, d
    <3> QED
      BY <3>1, <3>2, <3>3, <3>4
  <2> QED
    BY <2>1, <2>3, <2>7, Balanced
<1> QED
  BY <1>1, <1>2

\* The dict is made, or is there, and moves to where it is kept.
LEMMA ExtraKept ==
  ASSUME Inv, RefsOK, pc \in Binds, refs' = [refs EXCEPT ![Extra] = 1],
         UNCHANGED <<func, call, lists, values, rest_items, entries, cells, inside>>,
         NEW h \in Nat, h = 1 - refs[Extra],
         \A o \in Objects : Held(o)' = Held(o) + (IF o = Extra THEN h ELSE 0)
  PROVE  RefsOK'
<1>1. Extra \in Objects
  BY ContainerObjects
<1>2. /\ refs' = [o \in Objects |-> refs'[o]]
      /\ \A o \in Objects : refs'[o] = IF o = Extra THEN 1 ELSE refs[o]
  BY DEF RefsOK
<1>3. refs'[Extra] = 1 /\ \A c \in Containers : c # Extra => refs'[c] = refs[c]
  BY <1>1, <1>2, ContainerObjects
<1>4. ASSUME NEW o \in Objects
      PROVE  \E j, k \in Int : /\ Held(o)' = Held(o) + j
                               /\ InContents(refs, o)' = InContents(refs, o) + k
                               /\ refs'[o] = refs[o] + j + k
  <2> DEFINE j == IF o = Extra THEN h ELSE 0
  <2>1. InSeq(o, EntryValues)' = InSeq(o, EntryValues) + 0 /\ 0 \in Nat
    <3>1. EntryValues' = EntryValues
      BY DEF EntryValues
    <3>2. InSeq(o, EntryValues)' = InSeq(o, EntryValues)
      BY <3>1 DEF InSeq
    <3>3. InSeq(o, EntryValues) \in Nat
      BY Counts
    <3> QED
      BY <3>2, <3>3
  <2>2. InContents(refs, o)' = InContents(refs, o) + 0
    BY <1>3, <2>1, EntriesCount
  <2>3. refs[o] \in Nat
    BY Typed
  <2>4. refs'[o] = refs[o] + j + 0 /\ j \in Int /\ 0 \in Int
    BY <1>2, <2>3
  <2>5. Held(o)' = Held(o) + j
    OBVIOUS
  <2> HIDE DEF j
  <2> QED
    BY <2>2, <2>4, <2>5
<1> QED
  BY <1>2, <1>4, Balanced

LEMMA BindExtraFailRefs ==
  ASSUME Inv, RefsOK, BindExtraFail
  PROVE  RefsOK'
<1>1. /\ pc \in Binds
      /\ UNCHANGED <<func, call, lists, values, locals, rest_items, entries, cells, inside>>
      /\ \/ UNCHANGED <<extra, refs>>
         \/ extra' = Extra /\ refs' = [refs EXCEPT ![Extra] = 1]
  BY DEF BindExtraFail, Binds, Keep
<1>2. CASE UNCHANGED <<extra, refs>>
  BY <1>1, <1>2, SameCounts
<1>3. CASE extra' = Extra /\ refs' = [refs EXCEPT ![Extra] = 1]
  <2> DEFINE h == IF extra = Extra THEN 0 ELSE 1
  <2>1. extra \in {Null, Extra} /\ refs[Extra] = IF extra = Extra THEN 1 ELSE 0
    BY <1>1, Unmade DEF Inv, TypeOK
  <2>2. \A o \in Objects : Held(o)' = Held(o) + (IF o = Extra THEN h ELSE 0)
    <3> TAKE o \in Objects
    <3>1. /\ Held(o)' = InSeq(o, values) + InSeq(o, lists) + InSeq(o, locals) + InSeq(o, cells)
                           + (IF o = Extra THEN 1 ELSE 0)
          /\ Held(o) = InSeq(o, values) + InSeq(o, lists) + InSeq(o, locals) + InSeq(o, cells)
                         + (IF o = extra THEN 1 ELSE 0)
      BY <1>1, <1>3 DEF Held, InSeq
    <3>2. /\ InSeq(o, values) \in Nat /\ InSeq(o, lists) \in Nat /\ InSeq(o, cells) \in Nat
          /\ InSeq(o, locals) \in Nat
      BY Counts
    <3>3. o # Null
      BY Distinct DEF Objects
    <3> QED
      BY <2>1, <3>1, <3>2, <3>3
  <2>3. h \in Nat /\ h = 1 - refs[Extra]
    BY <2>1
  <2> HIDE DEF h
  <2> QED
    BY <1>1, <1>3, <2>2, <2>3, ExtraKept
<1> QED
  BY <1>1, <1>2, <1>3

LEMMA StoreKwargsRefs ==
  ASSUME Inv, RefsOK, StoreKwargs
  PROVE  RefsOK'
<1>1. /\ pc \in Binds /\ pc = "kwargs" /\ extra' = Null /\ extra \in {Null, Extra}
      /\ UNCHANGED <<func, call, lists, values, rest_items, entries, cells, inside>>
  BY DEF StoreKwargs, Binds, Keep, Inv, TypeOK
<1>2. CASE ~func.kwarg
  <2>1. extra = Null
    BY <1>1, <1>2 DEF Inv, Stages
  <2>2. UNCHANGED <<locals, refs, extra>>
    BY <1>1, <1>2, <2>1 DEF StoreKwargs
  <2> QED
    BY <1>1, <2>2, SameCounts
<1>3. CASE func.kwarg
  <2> DEFINE h == IF extra = Extra THEN 0 ELSE 1
             t == func.kwarg_slot
             new == locals'
  <2>1. /\ locals' = [locals EXCEPT ![t] = Extra] /\ refs' = [refs EXCEPT ![Extra] = 1]
        /\ refs[Extra] = IF extra = Extra THEN 1 ELSE 0
    BY <1>1, <1>3, Unmade DEF StoreKwargs
  <2>2. t \in Slots /\ locals[t] = Null /\ DOMAIN locals = Slots /\ IsFiniteSet(DOMAIN locals)
    BY <1>1, <1>3, AtBinds, OwnSlots, Counts DEF Bound4, Inv
  <2>3. ASSUME NEW o \in Objects
        PROVE  Held(o)' = Held(o) + (IF o = Extra THEN h ELSE 0)
    <3>1. o # Null
      BY Distinct DEF Objects
    <3>2. InSeq(o, new) = InSeq(o, locals) + (IF Extra = o THEN 1 ELSE 0)
      <4>1. /\ t \in DOMAIN locals /\ locals[t] # o
            /\ DOMAIN new = DOMAIN locals /\ new[t] = Extra
            /\ \A s \in DOMAIN locals : s # t => new[s] = locals[s]
        BY <2>1, <2>2, <3>1
      <4> HIDE DEF new, t
      <4> QED
        BY <2>2, <4>1, CountWritten
    <3>3. /\ Held(o)' = InSeq(o, values) + InSeq(o, lists) + InSeq(o, new) + InSeq(o, cells)
                           + (IF o = Null THEN 1 ELSE 0)
          /\ Held(o) = InSeq(o, values) + InSeq(o, lists) + InSeq(o, locals) + InSeq(o, cells)
                         + (IF o = extra THEN 1 ELSE 0)
      BY <1>1 DEF Held, InSeq
    <3>4. /\ InSeq(o, values) \in Nat /\ InSeq(o, lists) \in Nat /\ InSeq(o, cells) \in Nat
          /\ InSeq(o, locals) \in Nat
      BY Counts
    <3> HIDE DEF new
    <3> QED
      BY <1>1, <3>1, <3>2, <3>3, <3>4
  <2>4. h \in Nat /\ h = 1 - refs[Extra]
    BY <2>1
  <2> HIDE DEF h
  <2> QED
    BY <1>1, <2>1, <2>3, <2>4, ExtraKept
<1> QED
  BY <1>2, <1>3
-----------------------------------------------------------------------------
(***************************************************************************)
(* The cells.                                                              *)
(***************************************************************************)
LEMMA NewCellRefs ==
  ASSUME Inv, RefsOK, NewCell
  PROVE  RefsOK'
<1> DEFINE k == Len(cells) + 1
           c == Cell(k)
<1>1. /\ pc = "cells" /\ cells' = Append(cells, c) /\ refs' = [refs EXCEPT ![c] = 1]
      /\ UNCHANGED <<func, call, values, lists, locals, extra, rest_items, entries, inside>>
  BY DEF NewCell, Keep
<1>2. cells \in Seq(Objects) /\ Len(cells) \in Nat /\ k \in 1..Ncells /\ k > Len(cells)
  BY <1>1, Signatures DEF NewCell, Inv, TypeOK, Ncells
<1>3. c \in Objects /\ c \in Containers /\ refs[c] = 0
  BY <1>1, <1>2, Unmade, ContainerObjects DEF Containers
<1>4. \A i \in DOMAIN inside : inside[i] = Null
  BY <1>1 DEF Inv, Stages
<1>5. /\ refs' = [o \in Objects |-> refs'[o]]
      /\ \A o \in Objects : refs'[o] = IF o = c THEN 1 ELSE refs[o]
  BY <1>1 DEF RefsOK
<1>6. refs'[Rest] = refs[Rest] /\ refs'[Extra] = refs[Extra]
  BY <1>5, ContainerObjects, Distinct
<1>7. EntryValues' = EntryValues
  BY <1>1 DEF EntryValues
<1>8. ASSUME NEW o \in Objects
      PROVE  \E h, j \in Int : /\ Held(o)' = Held(o) + h
                               /\ InContents(refs, o)' = InContents(refs, o) + j
                               /\ refs'[o] = refs[o] + h + j
  <2> DEFINE h == IF c = o THEN 1 ELSE 0
  <2>1. InSeq(o, cells') = InSeq(o, cells) + h
    <3> HIDE DEF c
    <3>1. InSeq(o, Append(cells, c)) = InSeq(o, cells) + h
      BY <1>2, <1>3, CountAppend
    <3> QED
      BY <1>1, <3>1
  <2>2. Holding(refs, o) = {} /\ Holding(refs, o)' = {}
    <3>1. o # Null /\ inside' = inside
      BY <1>1, Distinct DEF Objects
    <3> QED
      BY <1>4, <3>1 DEF Holding
  <2>3. InContents(refs, o)' = InContents(refs, o) + 0
    <3>1. /\ InSeq(o, rest_items)' = InSeq(o, rest_items)
          /\ InSeq(o, EntryValues)' = InSeq(o, EntryValues)
      BY <1>1, <1>7 DEF InSeq
    <3>2. InContents(refs, o)' = (IF refs'[Rest] > 0 THEN InSeq(o, rest_items)' ELSE 0)
                                   + (IF refs'[Extra] > 0 THEN InSeq(o, EntryValues)' ELSE 0)
                                   + Cardinality(Holding(refs, o)')
      BY DEF InContents, Holding
    <3>3. InContents(refs, o) = (IF refs[Rest] > 0 THEN InSeq(o, rest_items) ELSE 0)
                                  + (IF refs[Extra] > 0 THEN InSeq(o, EntryValues) ELSE 0)
                                  + Cardinality(Holding(refs, o))
      BY DEF InContents, Holding
    <3>4. InContents(refs, o) \in Nat
      BY Counts
    <3> QED
      BY <1>6, <2>2, <3>1, <3>2, <3>3, <3>4
  <2>4. Held(o)' = Held(o) + h
    <3>1. /\ Held(o)' = InSeq(o, values) + InSeq(o, lists) + InSeq(o, locals) + InSeq(o, cells')
                           + (IF o = extra THEN 1 ELSE 0)
          /\ Held(o) = InSeq(o, values) + InSeq(o, lists) + InSeq(o, locals) + InSeq(o, cells)
                         + (IF o = extra THEN 1 ELSE 0)
      BY <1>1 DEF Held, InSeq
    <3>2. /\ InSeq(o, values) \in Nat /\ InSeq(o, lists) \in Nat /\ InSeq(o, cells) \in Nat
          /\ InSeq(o, locals) \in Nat
      BY Counts
    <3> QED
      BY <2>1, <3>1, <3>2
  <2>5. refs'[o] = refs[o] + h + 0 /\ h \in Int /\ 0 \in Int
    <3>1. refs[o] \in Nat
      BY Typed
    <3> HIDE DEF c
    <3> QED
      BY <1>3, <1>5, <3>1
  <2> HIDE DEF h
  <2> QED
    BY <2>3, <2>4, <2>5
<1> HIDE DEF c
<1> QED
  BY <1>1, <1>5, <1>8, Balanced

\* What a local holds moves to its cell, where it counts as before.
LEMMA FillCellsRefs ==
  ASSUME Inv, RefsOK, FillCells
  PROVE  RefsOK'
<1> DEFINE frees == [i \in 1..func.frees |-> Free(i)]
<1>1. /\ pc = "cells" /\ Len(cells) = Ncells
      /\ inside' = [i \in DOMAIN inside |-> locals[func.cell_slots[i]]]
      /\ locals' = [s \in DOMAIN locals |-> IF s \in Range(func.cell_slots) THEN Null ELSE locals[s]]
      /\ cells' = cells \o frees /\ refs' = RetainAll(refs, frees)
      /\ UNCHANGED <<func, call, values, lists, extra, rest_items, entries>>
  BY DEF FillCells, Keep, Ncells
<1>2. DOMAIN inside = 1..Ncells /\ Ncells \in Nat /\ \A i \in DOMAIN inside : inside[i] = Null
  BY <1>1, Signatures DEF Inv, Stages, TypeOK
<1>3. DOMAIN locals = Slots /\ IsFiniteSet(Slots)
  <2>1. locals \in [Slots -> Things]
    BY <1>1 DEF Inv, Stages, Live
  <2> QED
    BY <2>1, Counts
<1>4. frees \in Seq(Objects) /\ cells \in Seq(Objects)
  <2>1. func.frees \in Nat /\ \A i \in 1..func.frees : Free(i) \in Objects
    BY Signatures DEF Inv, Objects
  <2> QED
    BY <2>1, IsSequence DEF Inv, TypeOK
<1>5. \A c \in Containers : InSeq(c, frees) = 0
  <2> TAKE c \in Containers
  <2>1. \A i \in DOMAIN frees : frees[i] # c
    BY Distinct DEF Containers
  <2> QED
    BY <2>1, CountNone
<1>6. /\ refs' = [o \in Objects |-> refs'[o]]
      /\ \A o \in Objects : refs'[o] = refs[o] + InSeq(o, frees)
  BY <1>1 DEF RetainAll
<1> HIDE DEF frees
<1>7. \A c \in Containers : refs'[c] = refs[c]
  <2> TAKE c \in Containers
  <2>1. c \in Objects /\ refs[c] \in Nat
    BY ContainerObjects, Typed
  <2> QED
    BY <1>5, <1>6, <2>1
<1>8. \A i \in 1..Ncells : refs'[Cell(i)] > 0
  <2> TAKE i \in 1..Ncells
  <2>1. Cell(i) \in Objects /\ Cell(i) \in Containers
    BY ContainerObjects DEF Containers
  <2>2. i \in DOMAIN cells /\ cells[i] = Cell(i) /\ IsFiniteSet(DOMAIN cells)
    BY <1>1, <1>2, <1>4, Counts DEF Inv, Stages
  <2>3. InSeq(Cell(i), cells) # 0
    <3> DEFINE A == {j \in DOMAIN cells : cells[j] = Cell(i)}
    <3>1. IsFiniteSet(A) /\ A # {}
      BY <2>2, CountType
    <3> HIDE DEF A
    <3>2. Cardinality(A) # 0
      BY <3>1, FS_EmptySet
    <3> QED
      BY <3>2 DEF A, InSeq
  <2>4. Held(Cell(i)) > 0
    BY <2>3, Counts DEF Held
  <2>5. /\ refs[Cell(i)] = Held(Cell(i)) + InContents(refs, Cell(i)) + Owned(Cell(i))
        /\ refs[Cell(i)] \in Nat /\ Held(Cell(i)) \in Nat
        /\ InContents(refs, Cell(i)) \in Nat /\ Owned(Cell(i)) \in Nat
    BY <2>1, Typed, Counts
  <2> QED
    BY <1>7, <2>1, <2>4, <2>5
<1>9. Rest \in Containers /\ Extra \in Containers
  BY DEF Containers
<1>10. /\ func.cell_slots \in Seq(Slots) /\ DOMAIN func.cell_slots = 1..Ncells
       /\ \A i, j \in 1..Ncells : func.cell_slots[i] = func.cell_slots[j] => i = j
       /\ \A i \in 1..Ncells : func.cell_slots[i] \in Slots
       /\ \A s : s \in Range(func.cell_slots) <=> \E i \in 1..Ncells : func.cell_slots[i] = s
  <2>1. /\ func.cell_slots \in Seq(Slots) /\ DOMAIN func.cell_slots = 1..Ncells
        /\ IsInjective(func.cell_slots)
    BY Signatures DEF Inv
  <2>2. \A i, j \in 1..Ncells : func.cell_slots[i] = func.cell_slots[j] => i = j
    BY <2>1 DEF IsInjective
  <2>3. \A i \in 1..Ncells : func.cell_slots[i] \in Slots
    BY <2>1 DEF Ncells
  <2>4. \A s : s \in Range(func.cell_slots) <=> \E i \in 1..Ncells : func.cell_slots[i] = s
    BY <2>1 DEF Range
  <2> QED
    BY <2>1, <2>2, <2>3, <2>4
<1>11. ASSUME NEW o \in Objects
       PROVE  InSeq(o, locals) = InSeq(o, locals') + InSeq(o, inside')
  <2> DEFINE new == locals'
             filled == inside'
             B == {i \in DOMAIN filled : filled[i] = o}
             A == {s \in Slots : s \in Range(func.cell_slots) /\ locals[s] = o}
             g == [i \in B |-> func.cell_slots[i]]
  <2>1. o # Null
    BY Distinct DEF Objects
  <2>2. /\ DOMAIN filled = 1..Ncells
        /\ \A i \in 1..Ncells : filled[i] = locals[func.cell_slots[i]]
        /\ DOMAIN new = Slots
        /\ \A s \in Slots : new[s] = IF s \in Range(func.cell_slots) THEN Null ELSE locals[s]
    BY <1>1, <1>2, <1>3
  <2> HIDE DEF new, filled
  <2>3. g \in Bijection(B, A)
    <3>1. g \in [B -> A]
      BY <1>10, <2>2
    <3>2. \A i, j \in B : g[i] = g[j] => i = j
      BY <1>10, <2>2
    <3>3. \A s \in A : \E i \in B : g[i] = s
      BY <1>10, <2>2
    <3> HIDE DEF A, B, g
    <3> QED
      BY <3>1, <3>2, <3>3 DEF Bijection, Injection, Surjection, IsInjective
  <2>4. IsFiniteSet(A) /\ Cardinality(A) = InSeq(o, filled)
    <3>1. IsFiniteSet(1..Ncells)
      BY <1>2, FS_Interval
    <3>2. IsFiniteSet(B) /\ Cardinality(B) = InSeq(o, filled)
      <4>1. IsFiniteSet(DOMAIN filled)
        BY <2>2, <3>1
      <4> QED
        BY <4>1, CountType DEF InSeq
    <3>3. ExistsBijection(B, A)
      BY <2>3 DEF ExistsBijection
    <3> HIDE DEF A, B
    <3> QED
      BY <3>2, <3>3, FS_Bijection
  <2>5. /\ \A s \in A : ~(s \in DOMAIN new /\ new[s] = o)
        /\ \A s : (s \in DOMAIN locals /\ locals[s] = o) <=> (s \in DOMAIN new /\ new[s] = o) \/ s \in A
    BY <1>3, <2>1, <2>2
  <2>6. IsFiniteSet(DOMAIN new)
    BY <1>3, <2>2
  <2>7. InSeq(o, locals) = InSeq(o, new) + Cardinality(A)
    <3> HIDE DEF A
    <3> QED
      BY <2>4, <2>5, <2>6, CountMore
  <2> QED
    BY <2>4, <2>7 DEF new, filled
<1>12. ASSUME NEW o \in Objects
       PROVE  InContents(refs, o)' = InContents(refs, o) + InSeq(o, inside')
  <2>1. Holding(refs, o) = {} /\ Cardinality(Holding(refs, o)) = 0
    BY <1>2, Distinct, FS_EmptySet DEF Holding, Objects
  <2>2. Cardinality(Holding(refs, o)') = InSeq(o, inside')
    <3>1. DOMAIN inside' = 1..Ncells
      BY <1>1, <1>2
    <3>2. Holding(refs, o)' = {i \in DOMAIN inside' : inside'[i] = o}
      BY <1>8, <3>1 DEF Holding
    <3> QED
      BY <3>2 DEF InSeq
  <2>3. EntryValues' = EntryValues
    BY <1>1 DEF EntryValues
  <2>4. /\ InSeq(o, rest_items)' = InSeq(o, rest_items)
        /\ InSeq(o, EntryValues)' = InSeq(o, EntryValues)
    BY <1>1, <2>3 DEF InSeq
  <2>5. InContents(refs, o)' = (IF refs'[Rest] > 0 THEN InSeq(o, rest_items)' ELSE 0)
                                 + (IF refs'[Extra] > 0 THEN InSeq(o, EntryValues)' ELSE 0)
                                 + Cardinality(Holding(refs, o)')
    BY DEF InContents, Holding
  <2>6. InContents(refs, o) = (IF refs[Rest] > 0 THEN InSeq(o, rest_items) ELSE 0)
                                + (IF refs[Extra] > 0 THEN InSeq(o, EntryValues) ELSE 0)
                                + Cardinality(Holding(refs, o))
    BY DEF InContents, Holding
  <2>7. InSeq(o, rest_items) \in Nat /\ InSeq(o, EntryValues) \in Nat
    BY Counts
  <2>8. refs'[Rest] = refs[Rest] /\ refs'[Extra] = refs[Extra]
    BY <1>7, <1>9
  <2> QED
    BY <2>1, <2>2, <2>4, <2>5, <2>6, <2>7, <2>8
<1>13. ASSUME NEW o \in Objects
       PROVE  \E h, k \in Int : /\ Held(o)' = Held(o) + h
                                /\ InContents(refs, o)' = InContents(refs, o) + k
                                /\ refs'[o] = refs[o] + h + k
  <2> DEFINE moved == InSeq(o, inside')
             shared == InSeq(o, frees)
             left == InSeq(o, locals')
  <2>1. moved \in Nat /\ shared \in Nat /\ left \in Nat
    <3>1. DOMAIN inside' = 1..Ncells /\ DOMAIN locals' = Slots
      BY <1>1, <1>2, <1>3
    <3>2. IsFiniteSet(DOMAIN inside') /\ IsFiniteSet(DOMAIN locals') /\ IsFiniteSet(DOMAIN frees)
      BY <1>2, <1>3, <1>4, <3>1, FS_Interval, SequenceFinite
    <3> QED
      BY <3>2, CountType
  <2>2. InSeq(o, cells') = InSeq(o, cells) + shared
    <3>1. InSeq(o, cells \o frees) = InSeq(o, cells) + InSeq(o, frees)
      BY <1>4, CountConcat
    <3> QED
      BY <1>1, <3>1
  <2>3. /\ Held(o)' = InSeq(o, values) + InSeq(o, lists) + left + InSeq(o, cells')
                         + (IF o = extra THEN 1 ELSE 0)
        /\ Held(o) = InSeq(o, values) + InSeq(o, lists) + InSeq(o, locals) + InSeq(o, cells)
                       + (IF o = extra THEN 1 ELSE 0)
    BY <1>1 DEF Held, InSeq
  <2>4. /\ InSeq(o, values) \in Nat /\ InSeq(o, lists) \in Nat /\ InSeq(o, cells) \in Nat
        /\ refs[o] \in Nat
    BY Counts, Typed
  <2>5. InSeq(o, locals) = left + moved
    BY <1>11
  <2>6. InContents(refs, o)' = InContents(refs, o) + moved /\ refs'[o] = refs[o] + shared
    BY <1>6, <1>12
  <2> HIDE DEF moved, shared, left
  <2>7. Held(o)' = Held(o) + (shared - moved) /\ refs'[o] = refs[o] + (shared - moved) + moved
    BY <2>1, <2>2, <2>3, <2>4, <2>5, <2>6
  <2>8. shared - moved \in Int /\ moved \in Int
    BY <2>1
  <2> QED
    BY <2>6, <2>7, <2>8
<1> QED
  BY <1>1, <1>6, <1>13, Balanced
-----------------------------------------------------------------------------
(***************************************************************************)
(* The releases, and the theorems.                                         *)
(***************************************************************************)
LEMMA Released ==
  ASSUME Inv, RefsOK, NEW s, IsFiniteSet(DOMAIN s), refs' = ReleaseAll(refs, s),
         UNCHANGED <<func, call, rest_items, entries, inside>>,
         \A o \in Objects : Held(o)' \in Nat /\ Held(o) = InSeq(o, s) + Held(o)'
  PROVE  RefsOK'
<1> DEFINE kept == [o \in Objects |-> Held(o)' + Owned(o)]
           q == ReleaseAll(refs, s)
<1>1. \A o \in Objects : Owned(o) \in Nat /\ InSeq(o, s) \in Nat
  BY Counts, CountType
<1>2. kept \in [Objects -> Nat] /\ \A o \in Objects : kept[o] = Held(o)' + Owned(o)
  BY <1>1
<1> HIDE DEF kept
<1>3. \A o \in Objects : refs[o] = InSeq(o, s) + kept[o] + InContents(refs, o)
  <2> TAKE o \in Objects
  <2>1. refs[o] = Held(o) + InContents(refs, o) + Owned(o) /\ InContents(refs, o) \in Nat
    BY Typed, Counts
  <2>2. Held(o) = InSeq(o, s) + Held(o)' /\ Held(o)' \in Nat
    OBVIOUS
  <2> QED
    BY <1>1, <1>2, <2>1, <2>2
<1>4. \A o \in Objects : q[o] = kept[o] + InContents(q, o) /\ InContents(q, o) \in Nat
  <2>1. \A o \in Objects : q[o] = kept[o] + InContents(q, o)
    BY <1>2, <1>3, ReleaseExact
  <2> HIDE DEF q
  <2> QED
    BY <2>1, Counts
<1>5. /\ refs' = [o \in Objects |-> refs'[o]]
      /\ \A o \in Objects : refs'[o] = Held(o)' + Owned(o) + InContents(refs', o)
                            /\ InContents(refs', o) \in Nat
  <2>1. q = [o \in Objects |-> q[o]]
    BY DEF ReleaseAll
  <2>2. refs' = q
    OBVIOUS
  <2> HIDE DEF q
  <2> QED
    BY <1>2, <1>4, <2>1, <2>2
<1>6. \A o : Owners(o)' = Held(o)' + InContents(refs', o) + Owned(o)
  <2>1. EntryValues' = EntryValues
    BY DEF EntryValues
  <2>2. \A o : InContents(refs, o)' = InContents(refs', o)
    BY <2>1 DEF InContents, InSeq
  <2>3. \A o : Owners(o)' = Held(o)' + InContents(refs, o)' + Owned(o)'
    BY DEF Owners, Held, Owned
  <2> QED
    BY <2>2, <2>3, OwnedKept
<1>7. \A o \in Objects : refs'[o] = Owners(o)' /\ refs'[o] \in Int
  <2> TAKE o \in Objects
  <2>1. Held(o)' \in Nat /\ Owned(o) \in Nat /\ InContents(refs', o) \in Nat
    BY <1>1, <1>5
  <2> QED
    BY <1>5, <1>6, <2>1
<1> QED
  BY <1>5, <1>7, SameCall DEF RefsOK, OwnersExact

\* The locals in the order of their slots.
LEMMA InOrder ==
  ASSUME Inv, Live \/ pc = "unwind"
  PROVE  /\ LocalsInOrder \in Seq(Things)
         /\ \A o : InSeq(o, LocalsInOrder) = InSeq(o, locals)
<1>1. locals \in [Slots -> Things] /\ func.nlocals \in Nat
  BY Signatures DEF Inv, Stages
<1>2. /\ DOMAIN LocalsInOrder = 1..func.nlocals
      /\ \A i \in 1..func.nlocals : i - 1 \in Slots /\ LocalsInOrder[i] = locals[i - 1]
  BY <1>1 DEF LocalsInOrder, Slots
<1>3. LocalsInOrder \in [1..func.nlocals -> Things]
  BY <1>1 DEF LocalsInOrder, Slots
<1>4. LocalsInOrder \in Seq(Things)
  BY <1>1, <1>3, IsSequence
<1>5. ASSUME NEW o
      PROVE  InSeq(o, LocalsInOrder) = InSeq(o, locals)
  <2> DEFINE s == LocalsInOrder
             f == [i \in 1..func.nlocals |-> i - 1]
  <2>1. \A i \in DOMAIN s : s[i] = o => f[i] \in DOMAIN locals /\ locals[f[i]] = o
    BY <1>1, <1>2
  <2>2. \A i, j \in DOMAIN s : f[i] = f[j] => i = j
    BY <1>2
  <2>3. \A k \in DOMAIN locals : locals[k] = o => \E i \in DOMAIN s : s[i] = o /\ f[i] = k
    <3> TAKE k \in DOMAIN locals
    <3> HAVE locals[k] = o
    <3>1. k + 1 \in 1..func.nlocals /\ (k + 1) - 1 = k
      BY <1>1 DEF Slots
    <3> QED
      BY <1>2, <3>1
  <2>4. IsFiniteSet(DOMAIN s)
    BY <1>1, <1>2, FS_Interval
  <2> HIDE DEF s, f
  <2>5. InSeq(o, s) = InSeq(o, locals)
    BY <2>1, <2>2, <2>3, <2>4, CountMoved
  <2> QED
    BY <2>5 DEF s
<1> QED
  BY <1>4, <1>5

LEMMA DropArgsRefs ==
  ASSUME Inv, RefsOK, DropArgs
  PROVE  RefsOK'
<1> DEFINE S == Args \cup {Unset}
<1>1. /\ pc = "drop_args" /\ refs' = ReleaseAll(refs, values \o lists)
      /\ values' = << >> /\ lists' = << >>
      /\ UNCHANGED <<func, call, locals, extra, rest_items, entries, cells, inside>>
  BY DEF DropArgs
<1>2. values \in Seq(S) /\ lists \in Seq(S)
  <2>1. /\ values \in [1..NArgs -> S] /\ NArgs \in Nat
        /\ lists = Given \/ lists = << >>
    BY <1>1, GivenIs DEF Inv, Arrays, Nargs
  <2>2. Given \in Seq(Args) /\ Args \subseteq S
    BY GivenIs
  <2>3. \A s \in Seq(Args) : s \in Seq(S)
    BY <2>2
  <2> HIDE DEF S
  <2>4. values \in Seq(S)
    BY <2>1, IsSequence
  <2>5. Given \in Seq(S) /\ << >> \in Seq(S)
    BY <2>2, <2>3
  <2> QED
    BY <2>1, <2>4, <2>5
<1> HIDE DEF S
<1>3. IsFiniteSet(DOMAIN (values \o lists))
  <2>1. values \o lists \in Seq(S)
    BY <1>2, ConcatIs
  <2> QED
    BY <2>1, SequenceFinite
<1>4. ASSUME NEW o \in Objects
      PROVE  Held(o)' \in Nat /\ Held(o) = InSeq(o, values \o lists) + Held(o)'
  <2>1. InSeq(o, values \o lists) = InSeq(o, values) + InSeq(o, lists)
    BY <1>2, CountConcat
  <2>2. InSeq(o, values') = 0 /\ InSeq(o, lists') = 0
    BY <1>1, CountNone
  <2>3. /\ Held(o)' = InSeq(o, values') + InSeq(o, lists') + InSeq(o, locals) + InSeq(o, cells)
                         + (IF o = extra THEN 1 ELSE 0)
        /\ Held(o) = InSeq(o, values) + InSeq(o, lists) + InSeq(o, locals) + InSeq(o, cells)
                       + (IF o = extra THEN 1 ELSE 0)
    BY <1>1 DEF Held, InSeq
  <2>4. /\ InSeq(o, values) \in Nat /\ InSeq(o, lists) \in Nat /\ InSeq(o, cells) \in Nat
        /\ InSeq(o, locals) \in Nat
    BY Counts
  <2> QED
    BY <2>1, <2>2, <2>3, <2>4
<1> QED
  BY <1>1, <1>3, <1>4, Released

LEMMA FrameFreeRefs ==
  ASSUME Inv, RefsOK, FrameFree
  PROVE  RefsOK'
<1> DEFINE S == Things \cup Objects
           all == LocalsInOrder \o cells
<1>1. /\ pc = "body" /\ refs' = ReleaseAll(refs, all) /\ cells' = << >> /\ locals' = << >>
      /\ UNCHANGED <<func, call, values, lists, extra, rest_items, entries, inside>>
  BY DEF FrameFree, Keep
<1>2. Live
  BY <1>1 DEF Live, Filled, Inv, Stages
<1>3. LocalsInOrder \in Seq(S) /\ cells \in Seq(S)
  BY <1>2, InOrder DEF Inv, TypeOK
<1> HIDE DEF S
<1>4. IsFiniteSet(DOMAIN all)
  <2>1. all \in Seq(S)
    BY <1>3, ConcatIs
  <2> HIDE DEF all
  <2> QED
    BY <2>1, SequenceFinite
<1>5. ASSUME NEW o \in Objects
      PROVE  Held(o)' \in Nat /\ Held(o) = InSeq(o, all) + Held(o)'
  <2>1. InSeq(o, all) = InSeq(o, locals) + InSeq(o, cells)
    BY <1>2, <1>3, CountConcat, InOrder
  <2>2. InSeq(o, locals') = 0 /\ InSeq(o, cells') = 0
    BY <1>1, CountNone
  <2>3. /\ Held(o)' = InSeq(o, values) + InSeq(o, lists) + InSeq(o, locals') + InSeq(o, cells')
                         + (IF o = extra THEN 1 ELSE 0)
        /\ Held(o) = InSeq(o, values) + InSeq(o, lists) + InSeq(o, locals) + InSeq(o, cells)
                       + (IF o = extra THEN 1 ELSE 0)
    BY <1>1 DEF Held, InSeq
  <2>4. /\ InSeq(o, values) \in Nat /\ InSeq(o, lists) \in Nat /\ InSeq(o, cells) \in Nat
        /\ InSeq(o, locals) \in Nat
    BY Counts
  <2> HIDE DEF all
  <2> QED
    BY <2>1, <2>2, <2>3, <2>4
<1> HIDE DEF all
<1> QED
  BY <1>1, <1>4, <1>5, Released

LEMMA UnwindRefs ==
  ASSUME Inv, RefsOK, Unwind
  PROVE  RefsOK'
<1> DEFINE S == Things \cup Objects
           all == (<<extra>> \o cells) \o LocalsInOrder
<1>1. /\ pc = "unwind" /\ refs' = ReleaseAll(refs, all)
      /\ cells' = << >> /\ locals' = << >> /\ extra' = Null
      /\ UNCHANGED <<func, call, values, lists, rest_items, entries, inside>>
  BY DEF Unwind, Keep
<1>2. LocalsInOrder \in Seq(S) /\ cells \in Seq(S) /\ <<extra>> \in Seq(S)
  <2>1. extra \in Things
    BY DEF Inv, TypeOK, Things
  <2> QED
    BY <1>1, <2>1, InOrder DEF Inv, TypeOK
<1> HIDE DEF S
<1>3. <<extra>> \o cells \in Seq(S)
  BY <1>2, ConcatIs
<1>4. IsFiniteSet(DOMAIN all)
  <2>1. all \in Seq(S)
    BY <1>2, <1>3, ConcatIs
  <2> HIDE DEF all
  <2> QED
    BY <2>1, SequenceFinite
<1>5. ASSUME NEW o \in Objects
      PROVE  Held(o)' \in Nat /\ Held(o) = InSeq(o, all) + Held(o)'
  <2>1. InSeq(o, all) = InSeq(o, <<extra>>) + InSeq(o, cells) + InSeq(o, locals)
    <3>1. InSeq(o, all) = InSeq(o, <<extra>> \o cells) + InSeq(o, LocalsInOrder)
      BY <1>2, <1>3, CountConcat
    <3>2. InSeq(o, <<extra>> \o cells) = InSeq(o, <<extra>>) + InSeq(o, cells)
      BY <1>2, CountConcat
    <3> QED
      BY <1>1, <3>1, <3>2, InOrder
  <2>2. InSeq(o, <<extra>>) = IF o = extra THEN 1 ELSE 0
    <3> DEFINE one == <<extra>>
    <3>1. DOMAIN one = {1} /\ one[1] = extra
      OBVIOUS
    <3> HIDE DEF one
    <3>2. CASE o = extra
      BY <3>1, <3>2, CountOne
    <3>3. CASE o # extra
      BY <3>1, <3>3, CountNone
    <3> QED
      BY <3>2, <3>3 DEF one
  <2>3. InSeq(o, locals') = 0 /\ InSeq(o, cells') = 0
    BY <1>1, CountNone
  <2>4. /\ Held(o)' = InSeq(o, values) + InSeq(o, lists) + InSeq(o, locals') + InSeq(o, cells')
                         + (IF o = Null THEN 1 ELSE 0)
        /\ Held(o) = InSeq(o, values) + InSeq(o, lists) + InSeq(o, locals) + InSeq(o, cells)
                       + (IF o = extra THEN 1 ELSE 0)
    BY <1>1 DEF Held, InSeq
  <2>5. /\ InSeq(o, values) \in Nat /\ InSeq(o, lists) \in Nat /\ InSeq(o, cells) \in Nat
        /\ InSeq(o, locals) \in Nat
    BY Counts
  <2>6. o # Null
    BY Distinct DEF Objects
  <2> HIDE DEF all
  <2> QED
    BY <2>1, <2>2, <2>3, <2>4, <2>5, <2>6
<1> HIDE DEF all
<1> QED
  BY <1>1, <1>4, <1>5, Released

LEMMA InitRefs ==
  ASSUME Init
  PROVE  RefsOK
<1>1. Inv
  BY InitInv
<1>2. /\ locals = << >> /\ cells = << >> /\ rest_items = << >> /\ entries = << >> /\ extra = Null
      /\ \A i \in DOMAIN inside : inside[i] = Null
      /\ refs = [o \in Objects |-> IF o \in FunctionOwns \cup Args THEN 1 ELSE 0]
      /\ \/ values = Given /\ lists = << >>
         \/ lists = Given /\ DOMAIN values = Nargs /\ \A i \in Nargs : values[i] = Unset
  BY DEF Init, Args, Nargs, Given
<1>3. ASSUME NEW o \in Objects
      PROVE  refs[o] = Owners(o)
  <2>1. o # Null /\ o # Unset
    BY Distinct DEF Objects
  <2>2. InSeq(o, locals) = 0 /\ InSeq(o, cells) = 0 /\ InSeq(o, rest_items) = 0
    BY <1>2, CountNone
  <2>3. InSeq(o, EntryValues) = 0
    BY <1>2, CountNone DEF EntryValues
  <2>4. Cardinality(Holding(refs, o)) = 0
    BY <1>2, <2>1, FS_EmptySet DEF Holding
  <2>5. InContents(refs, o) = 0
    BY <2>2, <2>3, <2>4 DEF InContents, Holding
  <2>6. InSeq(o, Given) = IF o \in Args THEN 1 ELSE 0
    <3>1. DOMAIN Given = Nargs /\ \A i \in Nargs : Given[i] = Arg(i)
      BY GivenType DEF Given
    <3>2. CASE o \in Args
      <4>1. PICK k \in Nargs : o = Arg(k)
        BY <3>2 DEF Args
      <4>2. \A i \in DOMAIN Given : Given[i] = o <=> i = k
        BY <3>1, <4>1, Distinct
      <4> QED
        BY <3>1, <3>2, <4>2, CountOne
    <3>3. CASE o \notin Args
      BY <3>1, <3>3, CountNone DEF Args
    <3> QED
      BY <3>2, <3>3
  <2>7. InSeq(o, values) + InSeq(o, lists) = IF o \in Args THEN 1 ELSE 0
    <3>1. CASE values = Given /\ lists = << >>
      <4>1. InSeq(o, lists) = 0
        BY <3>1, CountNone
      <4> QED
        BY <2>6, <3>1, <4>1
    <3>2. CASE lists = Given /\ DOMAIN values = Nargs /\ \A i \in Nargs : values[i] = Unset
      <4>1. InSeq(o, values) = 0
        BY <2>1, <3>2, CountNone
      <4> QED
        BY <2>6, <3>2, <4>1
    <3> QED
      BY <1>2, <3>1, <3>2
  <2>8. ~(o \in Args /\ o \in FunctionOwns)
    BY Distinct DEF Args, FunctionOwns
  <2>9. refs[o] = IF o \in FunctionOwns \cup Args THEN 1 ELSE 0
    BY <1>2
  <2>10. Owners(o) = (IF o \in Args THEN 1 ELSE 0) + (IF o \in FunctionOwns THEN 1 ELSE 0)
    <3>1. InSeq(o, values) \in Nat /\ InSeq(o, lists) \in Nat
      BY <1>1, Counts
    <3>2. (IF o = extra THEN 1 ELSE 0) = 0
      BY <1>2, <2>1
    <3>3. (IF o \in FunctionOwns THEN 1 ELSE 0) \in Nat
      OBVIOUS
    <3> HIDE DEF Init
    <3> QED
      BY <2>2, <2>5, <2>7, <3>1, <3>2, <3>3 DEF Owners
  <2> QED
    BY <2>8, <2>9, <2>10
<1> QED
  BY <1>2, <1>3 DEF RefsOK, OwnersExact

LEMMA NextRefs ==
  ASSUME Inv, Inv', RefsOK, [Next]_vars
  PROVE  RefsOK'
<1>1. CASE ExValues
  BY <1>1, ExValuesRefs
<1>2. CASE ExNames
  BY <1>2, ExNamesRefs
<1>3. CASE \/ ExNamesFail \/ EnterFail \/ BindRestFail \/ NoKeywords \/ NoKwonly
           \/ StoreKwargsFail \/ NewCellFail \/ NewFrame \/ NewFrameFail
  BY <1>3, NothingCountedRefs
<1>4. CASE Enter
  BY <1>4, EnterRefs
<1>5. CASE BindRest
  BY <1>5, BindRestRefs
<1>6. CASE BindKeyword
  BY <1>6, BindKeywordRefs
<1>7. CASE BindExtra
  BY <1>7, BindExtraRefs
<1>8. CASE BindExtraFail
  BY <1>8, BindExtraFailRefs
<1>9. CASE FillDefaults
  BY <1>9, FillDefaultsRefs
<1>10. CASE FillKwDefault
  BY <1>10, FillKwDefaultRefs
<1>11. CASE StoreKwargs
  BY <1>11, StoreKwargsRefs
<1>12. CASE NewCell
  BY <1>12, NewCellRefs
<1>13. CASE FillCells
  BY <1>13, FillCellsRefs
<1>14. CASE Unwind
  BY <1>14, UnwindRefs
<1>15. CASE DropArgs
  BY <1>15, DropArgsRefs
<1>16. CASE FrameFree
  BY <1>16, FrameFreeRefs
<1>17. CASE UNCHANGED vars
  <2>1. UNCHANGED <<func, call, refs, values, lists, locals, extra, rest_items, entries, cells, inside>>
    BY <1>17 DEF vars
  <2> QED
    BY <2>1, SameCounts
<1> QED
  BY <1>1, <1>2, <1>3, <1>4, <1>5, <1>6, <1>7, <1>8, <1>9, <1>10, <1>11, <1>12, <1>13,
     <1>14, <1>15, <1>16, <1>17 DEF Next

\* The refcount of every object is the number of pointers that own it, after every
\* statement of vm_call_ex, vm_call_user and frame_free, for every signature and every
\* call and whichever allocation fails.
THEOREM OwnersTheorem == Spec => []OwnersExact
<1>1. Init => Inv /\ RefsOK
  BY InitInv, InitRefs
<1>2. (Inv /\ RefsOK) /\ [Next]_vars => (Inv /\ RefsOK)'
  BY NextInv, NextRefs
<1>3. Inv /\ RefsOK => OwnersExact
  BY DEF RefsOK
<1> QED
  BY <1>1, <1>2, <1>3, PTL DEF Spec

\* When the call is over what it took and what it made has no owner left, so no
\* reference: neither leaks.
LEMMA NothingLeftHolds ==
  ASSUME Inv, RefsOK
  PROVE  NothingLeft
<1> SUFFICES ASSUME pc = "done", NEW o \in Objects, o[1] \in {"arg", "rest", "extra", "cell"}
             PROVE  refs[o] = 0
  BY DEF NothingLeft
<1>1. /\ values = << >> /\ lists = << >> /\ locals = << >> /\ cells = << >> /\ extra = Null
  BY DEF Inv, Arrays, Stages, Live, Filled, Binds, TypeOK
<1>2. o # Null /\ o \notin FunctionOwns
  BY DEF Null, FunctionOwns, Default, Free, KwDefault
<1>3. \A x \in Objects : Held(x) = 0
  <2> TAKE x \in Objects
  <2>1. x # Null
    BY Distinct DEF Objects
  <2>2. InSeq(x, values) = 0 /\ InSeq(x, lists) = 0 /\ InSeq(x, locals) = 0 /\ InSeq(x, cells) = 0
    BY <1>1, CountNone
  <2> QED
    BY <1>1, <2>1, <2>2 DEF Held
\* No cell is left, so no tuple and no dict, so nothing that was in them.
<1>4. \A i \in DOMAIN inside : refs[Cell(i)] = 0
  <2> TAKE i \in DOMAIN inside
  <2>1. Cell(i) \in Containers /\ Cell(i) # extra
    BY <1>1, ContainerObjects, Distinct DEF Containers
  <2>2. \A j \in DOMAIN inside : inside[j] # Cell(i)
    BY Distinct DEF Inv, TypeOK, Things, Args
  <2> QED
    BY <1>1, <2>1, <2>2, Unheld
<1>5. \A x : Cardinality(Holding(refs, x)) = 0
  BY <1>4, FS_EmptySet DEF Holding
<1>6. \A c \in {Rest, Extra} : refs[c] = 0
  <2> TAKE c \in {Rest, Extra}
  <2>1. c \in Objects /\ c \in Containers /\ c \notin FunctionOwns
    BY ContainerObjects, Distinct DEF Containers, FunctionOwns
  <2>2. InSeq(c, rest_items) = 0 /\ InSeq(c, EntryValues) = 0
    BY <2>1, ArgsOnly, NotArgs
  <2>3. InContents(refs, c) = 0
    BY <1>5, <2>2 DEF InContents, Holding
  <2> QED
    BY <1>3, <2>1, <2>3, Typed DEF Owned
<1>7. InContents(refs, o) = 0
  <2>1. ~(refs[Rest] > 0) /\ ~(refs[Extra] > 0)
    BY <1>6
  <2>2. Cardinality({i \in DOMAIN inside : refs[Cell(i)] > 0 /\ inside[i] = o}) = 0
    BY <1>5 DEF Holding
  <2> QED
    BY <2>1, <2>2 DEF InContents
<1> QED
  BY <1>2, <1>3, <1>7, Typed DEF Owned

THEOREM NothingLeftTheorem == Spec => []NothingLeft
<1>1. Init => Inv /\ RefsOK
  BY InitInv, InitRefs
<1>2. (Inv /\ RefsOK) /\ [Next]_vars => (Inv /\ RefsOK)'
  BY NextInv, NextRefs
<1>3. Inv /\ RefsOK => NothingLeft
  BY NothingLeftHolds
<1> QED
  BY <1>1, <1>2, <1>3, PTL DEF Spec
=============================================================================
