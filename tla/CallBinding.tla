---------------------------- MODULE CallBinding ----------------------------
(***************************************************************************)
(* A call of a Python function from the operand stack to the frame, and    *)
(* the release of all of it: vm_call_value, vm_call_ex, vm_call_user of    *)
(* vm_c/call.c and frame_free of vm_c/vm.c, one action per statement that  *)
(* allocates or binds.  Any allocation may fail.                           *)
(*                                                                         *)
(* Every object has the refcount of its Value.  Functions and Calls are    *)
(* the signatures and calls that are tried; a function also says where its *)
(* locals are (slots from 0), which locals are cells and how many cells    *)
(* its closure has.                                                        *)
(***************************************************************************)
EXTENDS PyBinding, FiniteSetsExt, Functions

CONSTANTS Functions, Calls

\* What the compiler and the loader see to: the parameters have slots of their own
\* among the locals, the plain ones first, and a name stands for one of them.
OtherSlots(f) == Len(f.params)..(f.nlocals - 1)

ASSUME FunctionsAssumption ==
  \A f \in Functions :
    /\ f.nlocals \in Nat /\ f.frees \in Nat
    /\ f.params \in Seq(STRING) /\ IsInjective(f.params) /\ Len(f.params) <= f.nlocals
    /\ f.posonly \in 0..Len(f.params) /\ f.defaults \in 0..Len(f.params)
    /\ f.kwonly \in Seq(STRING) /\ IsInjective(f.kwonly)
    /\ Range(f.kwonly) \cap Range(f.params) = {}
    /\ f.kwflags \in [1..Len(f.kwonly) -> BOOLEAN]
    /\ f.kwonly_slots \in [1..Len(f.kwonly) -> OtherSlots(f)] /\ IsInjective(f.kwonly_slots)
    /\ f.vararg \in BOOLEAN /\ f.kwarg \in BOOLEAN
    /\ f.vararg => f.vararg_slot \in OtherSlots(f) \ Range(f.kwonly_slots)
    /\ f.kwarg => /\ f.kwarg_slot \in OtherSlots(f) \ Range(f.kwonly_slots)
                  /\ ~(f.vararg /\ f.vararg_slot = f.kwarg_slot)
    /\ f.cell_slots \in Seq(0..(f.nlocals - 1)) /\ IsInjective(f.cell_slots)

\* A keyword is given once: the compiler refuses it twice, a dict cannot hold it twice.
ASSUME CallsAssumption ==
  \A c \in Calls : /\ c.npos \in Nat /\ c.ex \in BOOLEAN
                   /\ c.kwnames \in Seq(STRING) /\ IsInjective(c.kwnames)

Null   == <<"null", 0>>
Rest   == <<"rest", 0>>       \* the tuple of *args
Extra  == <<"extra", 0>>      \* the dict of **kwargs
Cell(i) == <<"cell", i>>
Free(i) == <<"free", i>>      \* a cell of the closure
Unset  == <<"unset", 0>>      \* memory that was not written

VARIABLES
  func, call,   \* of the call under way
  pc,           \* the next statement
  n,            \* the counter of the loop pc is in
  values,       \* the C array of the arguments
  lists,        \* what vm_call_ex holds: the list of *args, the dict of **kwargs
  locals,       \* slot -> object
  extra,        \* the C variable: Extra or Null
  rest_items, entries,    \* contents of Rest and Extra
  cells,        \* the cells of the frame
  inside,       \* cell number -> content
  refs,         \* refcounts
  wild,         \* an unset pointer was released
  err           \* last_error

vars == <<func, call, pc, n, values, lists, locals, extra, rest_items, entries, cells,
          inside, refs, wild, err>>

NArgs    == call.npos + Len(call.kwnames)
NParams  == Len(func.params)
Supplied == Min({call.npos, NParams})
NCells   == Len(func.cell_slots) + func.frees

Objects ==
  {Arg(i) : i \in 1..NArgs} \cup {Default(i) : i \in 1..func.defaults}
    \cup {KwDefault(i) : i \in 1..Len(func.kwonly)} \cup {Rest, Extra}
    \cup {Cell(i) : i \in 1..Len(func.cell_slots)} \cup {Free(i) : i \in 1..func.frees}

-----------------------------------------------------------------------------
(* Reference counts *)

\* How many of the pointers of s are to o.
InSeq(o, s) == Cardinality({i \in DOMAIN s : s[i] = o})

Retain(r, o) == [r EXCEPT ![o] = @ + 1]
RetainAll(r, s) == [o \in Objects |-> r[o] + InSeq(o, s)]

EntryValues == [i \in DOMAIN entries |-> entries[i][2]]

\* value_release of every pointer of s: the last reference to a cell releases what is
\* in it, the last one to the tuple or to the dict, which may have been in a cell, its
\* items.
LastCells(r, s)  == {i \in DOMAIN inside : r[Cell(i)] > 0 /\ r[Cell(i)] = InSeq(Cell(i), s)}
Drops(r, s, o)   == InSeq(o, s) + Cardinality({i \in LastCells(r, s) : inside[i] = o})
IsLast(r, s, o)  == r[o] > 0 /\ r[o] = Drops(r, s, o)

ReleaseAll(r, s) ==
  [o \in Objects |->
     r[o] - Drops(r, s, o) - (IF IsLast(r, s, Rest) THEN InSeq(o, rest_items) ELSE 0)
                           - (IF IsLast(r, s, Extra) THEN InSeq(o, EntryValues) ELSE 0)]

-----------------------------------------------------------------------------
\* The objects the function holds from its definition.
FunctionOwns ==
  {Default(i) : i \in 1..func.defaults} \cup {Free(i) : i \in 1..func.frees}
    \cup {KwDefault(i) : i \in {j \in DOMAIN func.kwflags : func.kwflags[j]}}

Init ==
  /\ func \in Functions
  /\ call \in Calls
  /\ pc = IF call.ex THEN "ex_values" ELSE "enter"
  /\ n = 1
  \* The stack owned the arguments; vm_call_ex got them in a list and a dict.
  /\ values = IF call.ex THEN [i \in 1..NArgs |-> Unset] ELSE [i \in 1..NArgs |-> Arg(i)]
  /\ lists = IF call.ex THEN [i \in 1..NArgs |-> Arg(i)] ELSE << >>
  /\ locals = << >>
  /\ extra = Null
  /\ rest_items = << >>
  /\ entries = << >>
  /\ cells = << >>
  /\ inside = [i \in 1..Len(func.cell_slots) |-> Null]
  /\ refs = [o \in Objects |-> IF o \in FunctionOwns \cup {Arg(i) : i \in 1..NArgs} THEN 1 ELSE 0]
  /\ wild = FALSE
  /\ err = "OK"

Goto(to)  == pc' = to /\ n' = 1
Fail(e)   == err' = e /\ Goto("unwind")
Keep      == UNCHANGED <<func, call, lists>>
Bindings  == <<values, locals, extra, rest_items, entries, cells, inside>>

-----------------------------------------------------------------------------
(* vm_call_ex *)

\* The positional arguments are taken from the list, each with a reference.
ExValues ==
  /\ pc = "ex_values"
  /\ values' = [i \in 1..NArgs |-> IF i <= call.npos THEN lists[i] ELSE values[i]]
  /\ refs' = RetainAll(refs, SubSeq(lists, 1, call.npos))
  /\ Goto(IF call.kwnames = << >> THEN "enter" ELSE "ex_names")
  /\ Keep /\ UNCHANGED <<locals, extra, rest_items, entries, cells, inside, wild, err>>

\* The tuple of names, then the named arguments.
ExNames ==
  /\ pc = "ex_names"
  /\ values' = lists
  /\ refs' = RetainAll(refs, SubSeq(lists, call.npos + 1, NArgs))
  /\ Goto("enter")
  /\ Keep /\ UNCHANGED <<locals, extra, rest_items, entries, cells, inside, wild, err>>

\* The tuple cannot be allocated: drop_args releases the whole array, the part that
\* was not written yet too; what is there is zero or not.
ExNamesFail ==
  /\ pc = "ex_names"
  /\ err' = "OOM"
  /\ wild' \in {FALSE, \E i \in 1..NArgs : values[i] = Unset}
  /\ Goto("drop_args")
  /\ Keep /\ UNCHANGED <<Bindings, refs>>

-----------------------------------------------------------------------------
(* vm_call_user *)

\* The call depth is at its limit, or the array of locals cannot be allocated.
EnterFail ==
  /\ pc = "enter"
  /\ err' \in {"RECURSION"} \cup (IF func.nlocals > 0 THEN {"OOM"} ELSE {})
  /\ Goto("drop_args")
  /\ Keep /\ UNCHANGED <<Bindings, refs, wild>>

\* The positional arguments that have a parameter.
Enter ==
  /\ pc = "enter"
  /\ locals' = [s \in 0..(func.nlocals - 1) |-> IF s < Supplied THEN values[s + 1] ELSE Null]
  /\ refs' = RetainAll(refs, SubSeq(values, 1, Supplied))
  /\ IF call.npos > NParams /\ ~func.vararg THEN Fail("TYPE")
     ELSE err' = err /\ Goto(IF func.vararg THEN "rest" ELSE "keywords")
  /\ Keep /\ UNCHANGED <<values, extra, rest_items, entries, cells, inside, wild>>

\* The tuple of the positional arguments that have none.
BindRest ==
  /\ pc = "rest"
  /\ rest_items' = SubSeq(values, NParams + 1, call.npos)
  /\ refs' = [RetainAll(refs, rest_items') EXCEPT ![Rest] = 1]
  /\ locals' = [locals EXCEPT ![func.vararg_slot] = Rest]
  /\ Goto("keywords")
  /\ Keep /\ UNCHANGED <<values, extra, entries, cells, inside, wild, err>>

BindRestFail ==
  /\ pc = "rest"
  /\ Fail("OOM")
  /\ Keep /\ UNCHANGED <<Bindings, refs, wild>>

\* keyword_slot and kwonly_keyword_slot: the slots a name stands for.
KeywordSlot(name) == {i - 1 : i \in {j \in (func.posonly + 1)..NParams : func.params[j] = name}}
KwonlySlot(name)  == {func.kwonly_slots[i] : i \in {j \in 1..Len(func.kwonly) : func.kwonly[j] = name}}

Name  == call.kwnames[n]
Value == values[call.npos + n]
More(limit, to) == IF n < limit THEN pc' = pc /\ n' = n + 1 ELSE Goto(to)

FaultyBindKeyword ==
  /\ pc = "keywords" /\ n <= Len(call.kwnames)
  /\ \E s \in KeywordSlot(Name) \cup KwonlySlot(Name) :
       /\ locals' = [locals EXCEPT ![s] = Value]
       /\ refs' = Retain(refs, Value)
       /\ err' = err
       /\ More(Len(call.kwnames), "defaults")
  /\ Keep /\ UNCHANGED <<values, extra, rest_items, entries, cells, inside, wild>>

\* A keyword that names a parameter.
BindKeyword ==
  /\ pc = "keywords" /\ n <= Len(call.kwnames)
  /\ \E s \in IF KeywordSlot(Name) # {} THEN KeywordSlot(Name) ELSE KwonlySlot(Name) :
       IF IF KeywordSlot(Name) # {} THEN s < Supplied ELSE locals[s] # Null
       THEN Fail("TYPE") /\ UNCHANGED <<locals, refs>>
       ELSE /\ locals' = [locals EXCEPT ![s] = Value]
            /\ refs' = Retain(refs, Value)
            /\ err' = err
            /\ More(Len(call.kwnames), "defaults")
  /\ Keep /\ UNCHANGED <<values, extra, rest_items, entries, cells, inside, wild>>

IsExtra == KeywordSlot(Name) = {} /\ KwonlySlot(Name) = {}

\* One that names none goes to the dict of **kwargs, which is made for the first.
BindExtra ==
  /\ pc = "keywords" /\ n <= Len(call.kwnames) /\ IsExtra
  /\ IF ~func.kwarg THEN Fail("TYPE") /\ UNCHANGED <<extra, entries, refs>>
     ELSE /\ extra' = Extra
          /\ entries' = Append(entries, <<Name, Value>>)
          /\ refs' = [Retain(refs, Value) EXCEPT ![Extra] = 1]
          /\ err' = err
          /\ More(Len(call.kwnames), "defaults")
  /\ Keep /\ UNCHANGED <<values, locals, rest_items, cells, inside, wild>>

\* No memory for the dict; or for its entry, which is reported as a TypeError.
BindExtraFail ==
  /\ pc = "keywords" /\ n <= Len(call.kwnames) /\ IsExtra /\ func.kwarg
  /\ \/ extra = Null /\ Fail("OOM") /\ UNCHANGED <<extra, refs>>
     \/ Fail("TYPE") /\ extra' = Extra /\ refs' = [refs EXCEPT ![Extra] = 1]
  /\ Keep /\ UNCHANGED <<values, locals, rest_items, entries, cells, inside, wild>>

NoKeywords ==
  /\ pc = "keywords" /\ call.kwnames = << >>
  /\ Goto("defaults")
  /\ Keep /\ UNCHANGED <<Bindings, refs, wild, err>>

FirstDefault == NParams - func.defaults

\* The parameters left take their defaults, up to the first that has none.
FillDefaults ==
  /\ pc = "defaults"
  /\ LET missing == {s \in 0..(NParams - 1) : locals[s] = Null}
         fill    == IF \E s \in missing : s < FirstDefault THEN {} ELSE missing
     IN /\ locals' = [s \in DOMAIN locals |->
                        IF s \in fill THEN Default(s - FirstDefault + 1) ELSE locals[s]]
        /\ refs' = [o \in Objects |-> refs[o] + Cardinality({s \in fill : o = Default(s - FirstDefault + 1)})]
        /\ IF fill # missing THEN Fail("TYPE") ELSE err' = err /\ Goto("kwdefaults")
  /\ Keep /\ UNCHANGED <<values, extra, rest_items, entries, cells, inside, wild>>

\* The keyword-only ones, one after the other.
FillKwDefault ==
  /\ pc = "kwdefaults" /\ n <= Len(func.kwonly)
  /\ LET s == func.kwonly_slots[n]
     IN IF locals[s] # Null
        THEN err' = err /\ More(Len(func.kwonly), "kwargs") /\ UNCHANGED <<locals, refs>>
        ELSE IF ~func.kwflags[n] THEN Fail("TYPE") /\ UNCHANGED <<locals, refs>>
        ELSE /\ locals' = [locals EXCEPT ![s] = KwDefault(n)]
             /\ refs' = Retain(refs, KwDefault(n))
             /\ err' = err
             /\ More(Len(func.kwonly), "kwargs")
  /\ Keep /\ UNCHANGED <<values, extra, rest_items, entries, cells, inside, wild>>

NoKwonly ==
  /\ pc = "kwdefaults" /\ func.kwonly = << >>
  /\ Goto("kwargs")
  /\ Keep /\ UNCHANGED <<Bindings, refs, wild, err>>

\* The dict of **kwargs moves into its local, made now if no keyword needed it.
StoreKwargs ==
  /\ pc = "kwargs"
  /\ IF func.kwarg
     THEN /\ locals' = [locals EXCEPT ![func.kwarg_slot] = Extra]
          /\ refs' = [refs EXCEPT ![Extra] = 1]
     ELSE UNCHANGED <<locals, refs>>
  /\ extra' = Null
  /\ Goto("cells")
  /\ Keep /\ UNCHANGED <<values, rest_items, entries, cells, inside, wild, err>>

StoreKwargsFail ==
  /\ pc = "kwargs" /\ func.kwarg /\ extra = Null
  /\ Fail("OOM")
  /\ Keep /\ UNCHANGED <<Bindings, refs, wild>>

\* The array of cells, and the new cells one by one.
NewCell ==
  /\ pc = "cells" /\ Len(cells) < Len(func.cell_slots)
  /\ cells' = Append(cells, Cell(Len(cells) + 1))
  /\ refs' = [refs EXCEPT ![Cell(Len(cells) + 1)] = 1]
  /\ Keep /\ UNCHANGED <<pc, n, values, locals, extra, rest_items, entries, inside, wild, err>>

NewCellFail ==
  /\ pc = "cells" /\ NCells > 0 /\ Len(cells) <= Len(func.cell_slots)
  /\ Len(cells) = Len(func.cell_slots) => Len(cells) = 0
  /\ Fail("OOM")
  /\ Keep /\ UNCHANGED <<Bindings, refs, wild>>

FaultyFillCells ==
  /\ pc = "cells" /\ Len(cells) = Len(func.cell_slots)
  /\ inside' = [i \in DOMAIN inside |-> locals[func.cell_slots[i]]]
  /\ cells' = cells \o [i \in 1..func.frees |-> Free(i)]
  /\ refs' = RetainAll(refs, [i \in 1..func.frees |-> Free(i)])
  /\ Goto("frame")
  /\ Keep /\ UNCHANGED <<values, locals, extra, rest_items, entries, wild, err>>

\* The locals that are cells move into them; the cells of the closure are shared.
FillCells ==
  /\ pc = "cells" /\ Len(cells) = Len(func.cell_slots)
  /\ inside' = [i \in DOMAIN inside |-> locals[func.cell_slots[i]]]
  /\ locals' = [s \in DOMAIN locals |-> IF s \in Range(func.cell_slots) THEN Null ELSE locals[s]]
  /\ cells' = cells \o [i \in 1..func.frees |-> Free(i)]
  /\ refs' = RetainAll(refs, [i \in 1..func.frees |-> Free(i)])
  /\ Goto("frame")
  /\ Keep /\ UNCHANGED <<values, extra, rest_items, entries, wild, err>>

NewFrame ==
  /\ pc = "frame"
  /\ Goto("drop_args")
  /\ Keep /\ UNCHANGED <<Bindings, refs, wild, err>>

NewFrameFail ==
  /\ pc = "frame"
  /\ Fail("OOM")
  /\ Keep /\ UNCHANGED <<Bindings, refs, wild>>

\* The end of a call that failed: extra, the cells, the locals.
LocalsInOrder == [s \in 1..func.nlocals |-> locals[s - 1]]

FaultyUnwind ==
  /\ pc = "unwind"
  /\ refs' = ReleaseAll(refs, cells \o LocalsInOrder)
  /\ cells' = << >> /\ locals' = << >> /\ extra' = Null
  /\ Goto("drop_args")
  /\ Keep /\ UNCHANGED <<values, rest_items, entries, inside, wild, err>>

Unwind ==
  /\ pc = "unwind"
  /\ refs' = ReleaseAll(refs, <<extra>> \o cells \o LocalsInOrder)
  /\ cells' = << >> /\ locals' = << >> /\ extra' = Null
  /\ Goto("drop_args")
  /\ Keep /\ UNCHANGED <<values, rest_items, entries, inside, wild, err>>

-----------------------------------------------------------------------------
\* The caller releases its array, and vm_call_ex the list and the dict.
DropArgs ==
  /\ pc = "drop_args"
  /\ refs' = ReleaseAll(refs, values \o lists)
  /\ values' = << >> /\ lists' = << >>
  /\ Goto(IF err = "OK" THEN "body" ELSE "done")
  /\ UNCHANGED <<func, call, locals, extra, rest_items, entries, cells, inside, wild, err>>

\* The frame is freed when the function returns or unwinds: its locals, its cells.
FrameFree ==
  /\ pc = "body"
  /\ refs' = ReleaseAll(refs, LocalsInOrder \o cells)
  /\ cells' = << >> /\ locals' = << >>
  /\ Goto("done")
  /\ Keep /\ UNCHANGED <<values, extra, rest_items, entries, inside, wild, err>>

Next ==
  \/ ExValues \/ ExNames \/ ExNamesFail
  \/ Enter \/ EnterFail \/ BindRest \/ BindRestFail
  \/ BindKeyword \/ BindExtra \/ BindExtraFail \/ NoKeywords
  \/ FillDefaults \/ FillKwDefault \/ NoKwonly \/ StoreKwargs \/ StoreKwargsFail
  \/ NewCell \/ NewCellFail \/ FillCells \/ NewFrame \/ NewFrameFail
  \/ Unwind \/ DropArgs \/ FrameFree

Spec == Init /\ [][Next]_vars

-----------------------------------------------------------------------------
\* The pointers to o in the containers that are alive, and in all of what owns: the C
\* arrays, the locals, the cells of the frame, the containers, the function object.
InContents(r, o) ==
  (IF r[Rest] > 0 THEN InSeq(o, rest_items) ELSE 0)
    + (IF r[Extra] > 0 THEN InSeq(o, EntryValues) ELSE 0)
    + Cardinality({i \in DOMAIN inside : r[Cell(i)] > 0 /\ inside[i] = o})

Owners(o) ==
  InSeq(o, values) + InSeq(o, lists) + InSeq(o, locals) + InSeq(o, cells)
    + (IF o = extra THEN 1 ELSE 0) + InContents(refs, o)
    + (IF o \in FunctionOwns THEN 1 ELSE 0)

\* The refcount of every object is the number of pointers that own it, after every
\* statement, whichever allocation fails: nothing is freed that is still in use,
\* nothing stays behind.  It covers the whole of vm_call_user and its callers, but
\* for the array that vm_call_ex drops half written.
OwnersExact == \A o \in Objects : refs[o] = Owners(o)

\* When the call is over nothing it made or took is left.
NothingLeft ==
  pc = "done" => \A o \in Objects : o[1] \in {"arg", "rest", "extra", "cell"} => refs[o] = 0

\* A call that was given its memory binds every parameter as Python does, through
\* the locals and cells the body reads, or is a TypeError where Python says so.
InSlot(s) ==
  LET at == {i \in DOMAIN inside : func.cell_slots[i] = s}
  IN IF at = {} THEN locals[s] ELSE inside[CHOOSE i \in at : TRUE]

BindsAsPython ==
  /\ pc = "body" =>
       LET want == Bound(func, call)
       IN /\ ~BindError(func, call)
          /\ \A i \in 1..NParams : InSlot(i - 1) = want.params[i]
          /\ \A i \in 1..Len(func.kwonly) : InSlot(func.kwonly_slots[i]) = want.kwonly[i]
          /\ func.vararg => InSlot(func.vararg_slot) = Rest /\ rest_items = want.rest
          /\ func.kwarg => InSlot(func.kwarg_slot) = Extra /\ Range(entries) = want.extra
  /\ pc = "done" /\ err = "TYPE" =>
       BindError(func, call) \/ (func.kwarg /\ Extras(func, call) # {})
=============================================================================
