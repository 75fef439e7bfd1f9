# A TLA+ verification project for cVM

cVM compiles a subset of Python to bytecode (`src/compiler/`, Python), packs it with a
virtual machine into one executable (`src/packer/`), and runs it there (`src/vm_c/`, C).
This directory holds TLA+ models of that system, the TLC configurations that check them on
small instances, and TLAPS proofs of what holds for every instance.

The program is sequential: one thread, no signals, no shared memory. What makes it hard
is not scheduling but *re-entrancy* and *interrupted control*: a builtin runs user code in
a nested interpreter loop, user code raises through C frames, `finally` bodies are pasted
in line at every exit that crosses them, handlers and the current exception live in
registers that many paths set and clear, iterators walk containers that their loop bodies
change, and every limit (stack, frames, heap) is checked at some places and trusted at
others. The models are about those.

## 1. Inventory

| Component | State it keeps | Operations | Hard behaviours | What makes it correct |
|---|---|---|---|---|
| **Interpreter core** (`vm_c/vm.c`, `vm_stack.c`, `vm_internal.h`, `opcodes.h`) | operand stack, frame chain, `ip`, `exception`, `last_error` | one handler per opcode, `op_return`, `vm_unwind_to`, `vm_run` | any opcode may fail at any depth; unwinding drops frames and cuts the stack; the registers are read later than they are set | limits hold; frames keep their operand regions; a raised failure always carries an exception; a handler is entered at its depth |
| **Calls and callbacks** (`call.c`, `args.c`) | frames, the saved frame of each `vm_call_sync` | `vm_call_value`, `vm_call_user`, `vm_call_ex`, `vm_call_sync`, binding of keywords, defaults, `*args` | a native calls user code that raises, returns, calls natives again; failure half way through binding | unwinding stops at the native's frame; frames below it are untouched; Python's binding rules |
| **Exceptions** (`exceptions.c`) | `vm->exception`, exception objects with a traceback | failure code to type, subtype test, raising, matching | two kinds of failure (code only, code with object) share one register | the type a handler sees is the type that failed |
| **Statement and expression compiler** (`compiler/compiler.py`) | `loop_stack`, `active_finally`, labels | one visitor per syntax node | exits (`return`, `break`, `continue`, exceptions) through nested `try`; every path must balance handlers and operands | compiled code does what Python says the source does |
| **Emitter** (`emitter.py`, `opcodes.py`) | code buffer, fixups, line table | emit, bind label, patch | forward jumps, operand widths | every jump lands on an instruction start |
| **Symbol analysis** (`symbols.py`) | scope tree | declare, resolve, free and cell variables | closures across several levels, `global`, `nonlocal` | each name resolves to the variable Python's rules give |
| **Iterators** (`ops_iter.c`) | iterator objects with a position or an inner iterator and a callback | `GET_ITER`, `FOR_ITER`, unpacking, `map`, `filter`, `zip`, ... | containers change while they are walked; `next` runs user code; an error ends a loop half way | every item once; a resized dict is noticed; nothing walks out of bounds |
| **Dict and set tables** (`value.c`, `methods_dict.c`, `methods_set.c`, `ops_set.c`, `hash.c`) | entries in insertion order, open-addressed index, its use count | set, get, delete, `popitem`, `pop`, `clear`, iterate | the index is dropped or rebuilt lazily; deletion shifts entries; probing needs a free slot | an insertion-ordered map, whatever the history |
| **Values and reference counts** (`value.c`, `value.h`) | a count per heap object | `retain`, `release`, constructors | who owns an argument on each error path | no object freed while referenced, none kept for ever (cycles excepted) |
| **Sequences and slices** (`ops_sequence.c`, `methods_list.c`) | list buffers | index, slice, slice store and delete | extreme bounds and steps; the assigned iterable may run user code that resizes the list | Python's slice semantics; accesses in bounds |
| **Container format and loader** (`compiler/container.py`, `constants.py`, `module.py`, `vm_c/loader.c`) | section table, constant pool, function records | write, read, bounds checks | truncated or inconsistent files | what is written is what is read; no read past the end |
| **Numeric operators** (`ops_numeric.c`, `ops_compare.c`, `builtins_math.c`) | none | checked 64-bit arithmetic, floor division, shifts | overflow, sign of zero and of remainders | Python's result or OverflowError |
| **Builtins and constructors** (`builtins*.c`, `constructors.c`, `types.c`) | none of their own | about seventy natives | those with `key=` or a callable call back | as Python's for the supported arguments |
| **String and bytes methods, formatting** (`methods_*.c`, `str*.c`, `format.c`, `value_repr.c`, `utf8.c`, `unicodedata.c`, ...) | buffers | text processing | encodings, boundaries | as Python's |
| **Runtime stub and packer** (`stub.c`, `platform_win32.c`, `packer/pack.py`, `compiler/cli.py`, `crypto.py`) | files | find the container in the executable, decrypt, load, run | a damaged trailer | the packed program is the compiled one |
| **Generated tables** (`unicode_data.h`) | constants | none | none | generated |

How they interact: the compiler hands the loader a container; the loader hands the
interpreter a module; the interpreter calls natives (`vm_invoke`), natives call user code
(`vm_call_sync`), and both fail by setting `last_error` (and, for an exception with an
object, `exception`) and returning false, which the interpreter loop turns into unwinding.
Iterators and containers are passive: they are entered by natives and by `FOR_ITER`, and
may enter user code themselves.

The list of hazards, each at its line and with the properties that watch it, is in
`PROJECT.json`.

## 2. Modules

```
Bytecode            values, failure codes, instructions, functions
  Vm                the interpreter, for any bytecode            VmProofs        (TLAPS)
    MCVmAnyCode     all short bytecodes             [vm]
  TryCompiler       statements to bytecode (with Emitter)
  TryReference      what the statements mean in Python
    MCTry           TryCompiler's code on Vm against TryReference    [try, try_departures]
ExceptionTypes      the exception hierarchy (data for the two MC modules)
Emitter             code, labels and fixups, for both compilers

Syntax, Objects     syntax trees, and values that need no memory
  Scopes            which variable a name is (symbols.py)
    NameCompiler    names, functions, comprehensions, expressions to bytecode (with Emitter)
      ClosureVm     the machine on that code
  PyNames           what the same trees mean in Python
    MCNames         NameCompiler's code on ClosureVm against PyNames [names, names_departures]

PyBinding           how Python binds arguments
  CallBinding       how vm_call_user does, with every reference count
                                                                 CallBindingProofs (TLAPS)
    MCCallBinding   small signatures and calls      [binding]

OrderedMap          what a dict promises
  HashIndex         the table behind it, implements OrderedMap   HashIndexProofs (TLAPS)
    MCHashIndex     small tables                    [table]

Int64               machine integers
  Slices            subscripts and slices
  Arithmetic        the operators on integers                   ArithmeticProofs (TLAPS)
    PyNumbers       what Python says of integers, ranges, slices  NumberProofs   (TLAPS)
  Comparing         equality, hashes, order, sets (with Arithmetic)
    PyValues        what Python says of values, with PyNumbers    ComparingProofs (TLAPS)
      MCOperators   all of them over small inputs   [operators, number_departures]

Iterators           iterators of containers, and how containers change
  LiveIteration     programs that do both in any order, against Python   LiveProofs (TLAPS)
  Iteration         the iterators that run others and user functions
    Consuming       what runs an iterator
PyIteration         what Python says of these
    MCIteration     pipelines, live containers, bulk operations  [iteration]

Executable          the packer's executable, and the stub that opens it
  Container         what the compiler writes, byte by byte
  Loader            what the VM reads, from any bytes            LoaderProofs    (TLAPS)
    MCContainer     files written, cut, extended, damaged        [container, container_departures]
```

`PROJECT.json` maps every definition to the lines it models. Definitions whose name begins
with `Faulty` are plausible mistakes, kept beside the definition they would replace to show
that the properties can tell the difference; nothing uses them.

### Bytecode and Vm: the interpreter

One action per instruction (`LoadConst`, `Call`, `SetupHandler`, ...), one per way of
unwinding, and three for native code that calls back. The variables are the fields of `VM`:

| Variable | Code |
|---|---|
| `module` | the loaded module: bytecode, function records, entry |
| `stack` | `vm->stack[0 .. stack_top)` |
| `frames` | the chain from `vm->current_frame`, oldest first; `base` is `stack_base`, `handlers` the handler table, `locals` the slots |
| `ip` | `vm->ip - vm->bytecode`; an instruction is one unit long |
| `exception`, `last_error` | `vm->exception`, `vm->last_error` |
| `iterators` | iterator objects: what is left of a range, and the function of a `map` |
| `natives` | C activations that are inside `vm_call_sync`: the native stack of the process |
| `out`, `status` | what `print` wrote; whether `vm_run` is still in its loop |

`vm_call_sync` is where the C stack and the frame chain meet. In the code it recurses into
`vm_step`; in the model `natives` holds one record per activation with the frame it saved
(`saved`), and the enabled actions are those of the innermost loop: `NativeStep` starts the
next callback, the instructions run while the chain is longer than `saved`, `CallbackDone`
returns to the native when it is `saved` again, and `UnwindToNative` makes the native fail
when no handler was found above `saved`.

The bytecode is a parameter (`Modules`): the machine is checked and proved for any code,
well formed or not, because that is what makes the compiler's obligations visible. What the
compiler guarantees is added only in `MCTry`.

Kept: every guard and its order (operand checks, the depth check before arity, failures
before and after operands are popped), the two limits, what each register is set and reset
to, and the quirks found on the way (a push in the unwinder that resets `last_error` even
if it failed; `vm_call_sync` going on after a failed push; `RETURN` clearing the current
exception). Abstracted: values to a tag with what control flow looks at; operators, container
instructions and method calls to `NATIVE_OP`, which takes *n* operands and returns, fails or
raises; allocation failure to iterators and handler tables; no reference counts; cells,
globals by name and keyword arguments are in `ClosureVm` and `CallBinding`; tracebacks are left out.

### TryCompiler, TryReference, MCTry: exits from try statements

`TryCompiler` translates `compiler.py` visitor by visitor for function bodies made of
`for`, `try`/`except`/`else`/`finally`, `return`, `break`, `continue`, `raise`, calls and
failing expressions: the same labels, the same instructions in the same order, the same
context (`handler_depth`, `except_depth`, `finally_stack`, `loop_stack`).
`TryReference` states independently what such a body prints and how it ends in Python.
`MCTry` compiles families of programs, runs the code on `Vm`, and compares.

### Scopes, NameCompiler, ClosureVm, PyNames: names

`Scopes` is `symbols.py`: one walk collects what every scope binds, reads and declares, then from
the inner scopes outward each name that is read is captured from the nearest function that binds it
and handed through the scopes between. `NameCompiler` is the rest of `compiler.py` as far as names and the
order of evaluation need it: loads, stores and deletions through slots, cells and globals, closures
and defaults, decorators and iterators in hidden locals, comprehensions as functions, chained
comparisons, `and`, `or` and conditional expressions as jumps. `ClosureVm` runs that code, one action per
instruction; its `heap` holds cells, lists and iterators, so that functions share variables as they
do in C. It leaves out what `Vm` has (limits, missing operands, unwinding: a failure ends the program)
and has what `Vm` abstracts (cells, globals by name, defaults, lists). `PyNames` knows no slots and
no cells: each activation is a frame with variables and a parent, and a name is looked for outward.
`starts` is the one history variable of the compiler: where the code of a statement begins.

### PyBinding and CallBinding: a call, with its references

`CallBinding` follows one call from the operand stack to the frame and back to nothing:
`vm_call_value`, `vm_call_ex`, `vm_call_user` and `frame_free`, one action per statement that
allocates or binds, each allocation free to fail. `refs` is the reference count of every
object concerned: the arguments, the defaults, the tuple of `*args` and the dict of
`**kwargs`, the cells. Who owns a reference at which statement is what
the failing paths of that function are about, and it is not written down in the code:
`OwnersExact` recomputes every count from the places that hold the object. A loop that releases an
array is one step, `ReleaseAll`, which works by levels: the pointers of the array, what is in a cell
whose last reference goes with them, then the items of the tuple and the entries of the dict if their
last reference goes with either. No chain is longer: neither holds anything but arguments.
`PyBinding` says how Python binds arguments without slots, loops or order.

### OrderedMap and HashIndex: dicts and sets

`HashIndex` follows `value.c`: `entries` in insertion order, the index as a function from
slots to entry numbers, `index_cap`, `index_used`. `pc` says which of the C functions is
running: `value_dict_set` is `Begin`, `Ready` (`dict_index_ready`), perhaps rounds of `Build`
(one round of the fill loop of `dict_index_build` is one step), then a lookup (`SetFound` or
`NotFound`), `Reserve`, perhaps `Build` again, `Insert`. With `MayFail` every allocation may
fail, and the answer says `NoMemory` where C returns what it returns for a missing key: the
callers cannot tell, so a lookup that runs out of memory raises `KeyError`. Probing is stated
by the slots it passes, without recursion, so that it can be proved about. Hash values, key
comparison and values are parameters (two hashable values that are equal are one key). Sets
are the same code a second time (`value.c:654-822`).

### Int64, Arithmetic, Slices, PyNumbers, Comparing, PyValues: the operators

These are functions of their operands, so the modules hold operators and no behaviour. `Int64`
is the machine word, with its width as a constant. `Arithmetic` has every operator and builtin
on integers with its overflow test as the code makes it (`mul_overflows` divides, `pow` squares,
`pow_mod` adds and doubles in unsigned words), the lengths of ranges, and the test that stops a
repetition too long for a 32-bit length. `Slices` has `adjust_slice` and everything built on
it. `PyNumbers` says what Python makes of the same integers, ranges and slices; it stands apart from
`MCOperators` so that the proofs can use its properties. A power is written `Power(base, n)`, a recursive
function, and not `base^n`, of which the provers know nothing. `Comparing` has `value_equal`, `value_hash`, the orders, `in`, and the operators and methods
of sets over a heap of numbered cells, so that identity and equality differ. The heap is a constant:
what is modelled changes none of the values compared. A hash is a term
that equal data share: what the hash functions compute is left out and unequal values may
collide, which is what `HashIndex` assumes. `EqualBy`, `HashBy` and `OrderBy` are the C functions with
the recursive call as an argument, a function over cells (`AreEqual`, `HashTerms`, `Orders`) is their recursion.
Whatever searches a table (`Has`, `With`, `Drop`, `Matching`) takes the hashes and the equality as arguments too.
`Doubles` are the integers a double can hold and `ToDouble` is the conversion, of which only
this is assumed: it never goes past a double (`DoubleAssumption`), so that it is exact where it can be.

`PyValues` says what Python makes of the same cells, without the code's case distinctions: each value *denotes*
something (a number, a text, a tuple of what its items denote, a set of what its elements denote, the
members of a range in order), values are equal when they denote the same, a container holds what its members
denote, and the order and the algebra of sets are those of what is denoted. `WellFormed` says what the
cells of a heap are: each is made after what it holds, the elements of a set can be hashed and no two match,
and so on. A list that holds itself, items views and floats that are not integers of the word are left out.

### Iterators, LiveIteration, Iteration, Consuming, PyIteration: iterators

`Iterators` is `value_make_iter` and `iterator_next` for lists, dicts, sets and values that do not
change: the position, the length at the start and the `done` of each iterator, and what the methods
do to a container. `LiveIteration` is a state machine over them: `Open`, `Ask` (`OP_FOR_ITER`, `next()`)
and the changes, in any order; beside the heap, `ref` has for each iterator what the language
reference counts (`given`, `state`, the items at the `start`), and `last` the answer of the VM with the
one that was promised. Nothing is promised of a dict or a set once it has the old size with other keys, or
once its error was raised.
`Iteration` has the iterators made of others: `map`, `zip`, `filter`, `enumerate` and
`iter(f, sentinel)`. A C function becomes an operator from a heap to a heap and an outcome;
user functions are records that say what they return, what they raise for and which
containers they change. `Consuming` is every C loop over an iterable: each asks for one item
and acts before it asks for the next. `PyIteration` says what Python promises without
iterators: the sequence of rounds of a pipeline with the calls each makes.

### Executable, Container and Loader: the file

`Executable` is what `packer/pack.py` appends to a stub and how `main` of `stub.c` finds it again.
`Container` is what `constants.py`, `symbols.py`, `module.py` and `container.py`
write, byte by byte. `Loader` is `load_buffer` as a state machine over a file of any bytes: one
action for the header, the head of a section, a constant, a name, a function record (read twice: to
measure the code, then to copy it) and the source name. `reach` is the end of the furthest byte
read. `junk` is the byte found past the end, an arbitrary one, because one of the reads
is not checked (see `ReadsInside` below).

## 3. What the runs check

| Run | Question | Bounds |
|---|---|---|
| `vm` | Do limits, frame order, unwinding and nested interpreter loops hold under every control sequence, and every way of missing or mistyping an operand? | all bodies of 4 control instructions over 8, called back from a builtin and from a loop over `map`, and of 3 operand instructions over 20, called by a builtin and directly; 0 or 1 parameters; stack 4, frames 3, 2 handlers |
| `try` | Does every combination of ways to leave the parts of a `try`, alone in a loop, nested in another and across callbacks, do what Python does, once, and end? | about 4500 programs; loops of two items, two levels of nesting, callbacks two deep; stack 12, 4 frames |
| `table` | Is the index trusted only when right, does probing end, is the dict a map, when memory may fail at any point? | 4 keys that collide and wrap, capacities 2, 4, 8, heap of 3 entries |
| `binding` | Does a call bind as Python does, and is every reference owned once, whatever allocation fails? | up to 2 plain parameters, 1 keyword-only, `*`, `**`, a cell, a free variable; up to 3 positional and 2 named arguments; direct and `f(*a, **k)` |
| `operators` | Do the operators compute what the mathematics and Python say? | every pair of integers of a 7-bit word; every slice of lists up to 4 items, bounds and steps -6..6 and the ends of the word; every pair of 51 values |
| `iteration` | Are the user's functions called as Python calls them, are changes seen as promised, are bulk operations those of sets and lists? | pipelines two deep over tuples up to 3 items; live lists, dicts and sets of up to 3 of 2 values, two iterators at a time; loops up to 8 steps |
| `container` | Is what is written what is read, and is a damaged file refused or loaded soundly? | two modules; cut at every length, one byte too many, each byte changed to 6 others; any allocation failing |
| `names` | Does a program read, write, capture and delete the variables Python would, and evaluate in Python's order? | 1472 programs of three nested functions; 15 comprehensions, each in a module, in a function and returned from one; about 1360 operators nested in operators; closures, decorators, recursion, loops |
| `try_departures`, `names_departures`, `number_departures`, `container_departures` | Two programs, one function and one module on which the code departs from what its documents say | one program of nine functions; one of six; the same integers; one module of three constants |

**Why the bounds are enough.** The interpreter's limits (1024 operands, 256 frames) are
constants of the model; with 4 and 3 they are reached by bodies of four instructions, and
the proofs cover every value. A body of four instructions is long enough to pop an operand
of the caller, push two and call, which is the shortest way into the callers' region; three
suffice to reach every failing branch of every operand instruction. A loop of two items
distinguishes leaving the loop from going on and shows what the first item left behind;
the compiler treats nesting recursively with four context fields, and two levels exercise
each field above and below a boundary. The stack of `try` (12) is larger than any of
those programs needs: the operand leaked by each typed clause would otherwise end them. For
tables, 4 keys at capacities 2, 4, 8 go through growth, wrap-around, collision, a full heap
and a stale index; the code's own capacities (8, 16, ...) are covered by the proof.

`vm_call_user` treats parameters in loops with one counter: two of a kind show the first, the
last and the order; three arguments for two parameters overflow into `*`. The tests of
overflow compare with `INT64_MAX` and `INT64_MIN` and use no other property of 64 than that the
word is two's complement: every pair of a 7-bit word has every relation to those ends (and to
`10^d`, the powers of `round`) that 64-bit words have. Which variable a name is depends, for one
scope, on whether it binds or declares the name, whether a scope outside it does, and whether one
inside reads it: three nested functions have a scope with both neighbours, and each of the three goes
through every mixture. A slice meets its list at bounds below, at
and beyond either end, which -6..6 are for four items; the proofs cover every length and word.
The heap of `operators` has every type, nesting, the pairs Python calls equal across
types, nan, and two numbers that are the same double. A file is read by one cursor with
one test per field, so that a cut or a changed byte meets each test once; six values of a byte are
the smallest, the largest, valid and invalid tags, and flags.

Where a run has one state per case (`binding`, `container`, `iteration`, `operators`), the case
is over when it is over and deadlock is not checked. It is checked everywhere else: there the only
end is `Halted`, which stutters.

**The properties.**

* The machine under any code: `TypeOK`, `FrameBases` (the operand regions of frames stay in
  call order), `RaisedHasException` (a raised failure has an exception), `NativeNesting` (nested
  loops wait for frames that are still there), `CallbacksConfined` (a step inside a callback
  changes no frame below it).
* Compiled programs: `AsInPython` (what is printed and the exception at the end),
  `OperandsIsolated` (compiled code never reaches below its frame's base), `HandlersPaired`
  (no handler is left installed at the end of a function), `Termination`.
* Tables: `IndexSound`, `ProbingEnds`, `DictSpec` (refinement of `OrderedMap`).
* Calls: `OwnersExact` (every count is the number of holders, at every statement),
  `NothingLeft` (after the call nothing it made or took is left), `BindsAsPython`.
* Operators: `ArithmeticExact`, `PowModAsInPython`, `RangesExact`, `SlicesAsInPython`,
  `EqualityAsPython` (with the hash law a dict depends on), `MembershipAsPython` (the linear search,
  the lookup and the arithmetic of ranges agree with one definition), `OrderAsPython`,
  `SetAlgebra`.
* Iterators: `PipelinesAsPython` (which user functions are called, how often and in which order,
  and what comes out), `LiveAsPython` (iterators asked and containers changed in every order),
  `BulkAsPython` (the value of a slice assignment, or the key function of a sort, makes the list
  longer; a container updates itself).
* Names: `NamesAsInPython` (what is shown, in which order, and how the program ends),
  `StatementsStartEmpty` (a statement starts, and a return finds, no operand left over, whichever jump
  led there).
* Files: `RoundTrip`, `LoadedIsSound` (a loaded module indexes only what it has),
  `ReadsInside`, `PackedIsFound`.

**What the passing runs leave out.** A property that holds except where the code is known to
depart says so in its comment and excepts exactly that; families of programs leave out what
section 4 lists. `MCTry` leaves out an error of the machine's own while an exception is being
handled and what follows a `finally` that drops an exception by `continue`. `MCNames` leaves out a
nonlocal name that is not read, a global declaration between a use and a binding, and a comprehension in the
element of one with two generators. `PipelinesAsPython` leaves out the calls of two sorts: of a lone
item with a key function, which the code never calls (`builtins_seq.c:228`; its error is lost), and of a
reversed sort, which calls it from the last item. `BulkAsPython` leaves out a set that is updated by its difference with
itself and user code that makes the list shorter. `RoundTrip` has no str with a NUL, and takes False and
True for themselves. `ReadsInside` excepts
one field: after the line table of the last function record the length of the code is
read without a test (`loader.c:306`), up to four bytes past the payload. The model has those bytes
arbitrary, and `LoadedIsSound` holds nevertheless. `CallBinding` leaves out the allocation of the
argument array of a call with more than eight arguments. When the tuple of keyword names of `vm_call_ex`
cannot be allocated, its failure path also releases array entries that were never written
(`call.c:485-491`): the action `ExNamesFail` has it and `wild` records it, and the properties count
only the pointers that were set.

Before relying on them, the models of compiler and machine were compared with the real ones
on programs of these families, and the models of the operators on their departures.

**Fairness.** Only `try` checks liveness (`Termination`), under weak fairness of `Step`,
the disjunction of everything the machine can do. The interpreter is one thread in a loop
that waits for nothing, so a step that is possible is taken; no fairness between actions is
assumed, and none is needed because at most one native or instruction is enabled at a time.
`Halted` (the process is over) is the only stuttering. That probing ends is a safety property here
(`ProbingEnds`: there is a free slot), because a probe is one step of the model.

## 4. What the code does that its documents do not say

`try_departures` is one program that goes through six of them, `names_departures` one that goes through three; `PROJECT.json` quotes the lines.
Python prints 10, 20, 30, 40, 45, 50, 60; the code prints 11, 21, 31, 40, 40, 45 and dies of a full
stack.

* Every typed `except` clause that matches leaves one operand behind (`compiler.py:723`), so a
  loop that handles about a thousand exceptions fails.
* An error of the VM's own inside an `except` clause surfaces as the exception being handled
  (`vm.c:793`).
* A call inside an `except` clause makes a later bare `raise` a `RuntimeError` (`vm.c:264`).
* A `finally` body that raises while a `return` is pending runs twice (`compiler.py:346`).
* A `break` in an inner `finally` that a `return` is running skips the outer one
  (`compiler.py:242`).
* A `finally` body that handles an exception of its own re-raises that one (`compiler.py:768`).

`number_departures`: `round(n, -d)` is 0 when `10^d` is out of range, also where the nearest
multiple is out of range and Python's result no 64-bit integer (`builtins_math.c:238`).

`container_departures`: `docs/CVM2_FORMAT.md:77-78` says that the constants False and True load as the
integers 0 and 1; `loader.c:29-35` loads the Booleans themselves. A str constant is written with its
length and read as a C string, so that it ends at its first NUL (`loader.c:74`).

Met while modelling, and excepted by name in the property or the family concerned:

* Numbers: `pow(3, -2**63, m)` takes the exponent for `-(2**63 - 1)`, and the extended Euclid
  wraps for moduli past half the range; `(-2**63) % -1` is an `OverflowError`; an int and a
  float are compared as doubles; `len` and `in` of a range whose bounds are more than `2**63`
  apart wrap.
* Values: a nan equals itself; equal ranges of one number may hash differently; lists that hold sets
  have no order although the sets have; the comparisons of a keys view read it as a set; set operators
  refuse views; `{1}.difference([[1]])` is no error.
* Iterators: a dict whose size is back to what it was is not noticed to have changed; the error
  of a resized dict is raised again only if it is still resized; `list.extend(self)` does not
  end; `sorted` and `list.sort` of a single item never call the key function, so that what it would raise is
  lost (`builtins_seq.c:228`); `sorted(reverse=True)` calls it from the last item; `l[2:6] = v` uses bounds
  from before `v` ran (both iterators of the list and the list's end are then as CPython would
  have them unless `v` shrinks the list); `s.difference_update(s)` is a `RuntimeError`.
* Files: nested tuple constants recurse without limit (`loader.c:112`).
* Names: `names_departures` has the first three. A nonlocal name that is assigned but not read is
  stored as a global (`symbols.py:317`); a comprehension in the element of one with two generators
  takes the hidden local of the second generator (`compiler.py:881`); deleting an unset captured
  variable is no error (`vm.c:211`). A global declaration in a function between a use of a name and the
  function whose variable Python would skip makes the compiler refuse the program (`compiler.py:778`:
  `Refused`). Using a free variable that is unset is an `UnboundLocalError` where Python says
  `NameError`: the two are one in `MCNames`.
* Order of evaluation outside `NameCompiler`'s subset: with `*` or `**` the callee is evaluated after its
  arguments (`compiler.py:940`); `a()[i()] = v()` evaluates the container and the index before the
  value (`compiler.py:968`); a method is looked up after its arguments are evaluated; the shortcut
  for `len` does not see that `len` is rebound by `*args` or `except ... as` (`compiler.py:70-80`).
* `docs/BYTECODE.md:152` says `FOR_ITER` leaves the iterator below the item; `vm.c:733-749` replaces
  it, and the compiler reloads the iterator from a hidden local each time round.

## 5. What is proved

All proofs are checked by TLAPS for every value of the constants.

**`VmProofs`**, from `TypesAssumption` (the failure codes name exception types),
`BoundsAssumption` (limits are numbers, at least one operand and one frame) and
`ModulesAssumption` (what the loader checks: an entry function, parameters that have slots).
Nothing is assumed of the code itself. `TypeCorrect`, `BasesOrdered`, `RaisedIsSet`,
`NativesNest` say `Spec => []P` for the four invariants, `Confinement` proves the action
property `CallbacksConfined`. The invariants are inductive only together: when `vm_call_sync`
gives up, the frame chain is cut back to the saved frame, which is a frame only if that frame
is still on the chain (`NativeNesting`); the unwinder pushes `vm->exception`, which is a
value only if `RaisedHasException`; it cuts the stack at the base of the lowest frame it
drops, which is right only if bases are ordered. `Inv` is their conjunction. The step proof
goes action by action, grouped by what the actions change. `Confinement` then needs `Inv`
for one fact: whatever unwinds or returns while a native waits, the chain is not cut below
the frame it saved.

**`HashIndexProofs`**, from `TableAssumption` (the doubling reaches a capacity for every size
the heap can hold; hashes are numbers). `TrustedIndexSound`, `ProbesEnd`, `TypeCorrect`, and
`ImplementsDict`: `Spec => DictSpec`, the table is the insertion-ordered map. `IndexSound` is not
inductive: it speaks only of an index in use. `Inv` adds that `index_used` is never below the
length outside the fill loop (so what `popitem`, `clear` or a failed rebuild left behind is
recognised), that the index under construction holds the entries so far with no gap on their
probe paths, that the slots taken are at most `index_used`, which stays below the capacity
(hence the free slot), and that keys are distinct. `WidthAssumption` (the heap holds fewer
entries than 2^32 / 3) is not used by the proofs: it is what makes `Needed`, stated without
wrapping, faithful to the 32-bit code.

**`NumberProofs`** begins with slices, from `IntMaxAssumption` and `AbsentAssumption` (the value of a bound that is
None is no integer). `SliceInList`: for every length of list, every bound and every step but 0 the
count of `adjust_slice` is not negative and each index it stands for is one of the list's.
The step may be as large as the word allows: the argument goes through the quotient, whose product with the
step stays between the clamped bounds. `SliceOfItems` concludes that reading a slice takes every item
from the list, and `StoreSliceLength` what a store does to the length. *Which* indexes they are is
`SliceIsNamed`, below.

**`ArithmeticProofs`**, from `IntMaxAssumption` and `LenMaxAssumption`, for words of any size. `AddExact`,
`SubExact`, `NegAndAbsExact` and `MulExact`: the test for overflow that comes before the operation is
true exactly when the mathematical result is not an integer of the word. `MulExact` is the one that is
hard: `mul_overflows` divides a bound of the range by one factor and compares with the other, by
cases of their signs, and treats the smallest integer apart; the proof reduces each case to
one lemma on naturals (`DivisionTest`: x > m ÷ y iff x · y > m). `FloorDivModExact` turns C's truncating
quotient and remainder into Python's, in range but for the two divisions that are refused;
`RangeLenExact` and `RangeContainsExact` show that a range counts and finds exactly its terms, under the
hypothesis that its ends are no further apart than `INT64_MAX` (the code's difference wraps
beyond); `LengthsExact` is about repeated and joined sequences.

Then, from those and `BitsAssumption` (`INT64_MAX` is 2^(Bits - 1) - 1),
`DigitsAssumption` (`Digits` is the least d for which 10^d is no integer of the word, 19 in the code),
`StepsAssumption` (a range has no step 0), `BoundsAssumption` (a bound of a slice is a 64-bit integer or
None), it shows what loops or takes powers, and with it
`ArithmeticTheorem` and `RangesTheorem`: the properties `ArithmeticExact` and `RangesExact` for words of any
size. (`CaseType` says that the two integers are of the word, and that the length of a list and a bound are.)
`PowExact` is the hardest. `int_pow` squares the base while bits of the exponent are left and stops when a
square or a product overflows, and it has to be shown that the power itself is then out of range. The loop's
invariant is result · base^exponent = a^b, and that the result is 1, or at least 2 in magnitude, once
the base is: the square that overflowed is then a factor of the power, and what it is multiplied by
can neither make it smaller nor be 0. The case that would break this, a base of 0, 1 or -1, never overflows.
`Bits` turns are enough since each halves the exponent. `LShiftExact` compares the shifted word, as unsigned
and back, with the product: two numbers that differ by a multiple of 2^Bits. `RoundIntExact` goes from C's
quotient towards zero to the nearest multiple, the even one of two, and shows that the test for
overflow of the product is not disturbed.
`PowModExact`, and so `PowModTheorem` (`PowModAsInPython`), is `pow` with a modulus, from one theorem per
function of `pow_mod`. `MulModExact` and `ModExpExact` have the loops' invariants modulo m, result + a · b and
result · base^exponent; no sum wraps, because a modulus is at most 2^(Bits - 1) and the sums are of unsigned
words. `ModInverseExact` is about Euclid's algorithm: the coefficient times the base is the remainder modulo m,
and two coefficients in a row differ in sign and with their remainders, crosswise, make up m, so that neither
passes m; the product of two remainders in a row halves, so 2 · Bits turns are enough. That there is no
inverse when the last remainder is not 1 follows because base and modulus are both multiples of it. The
hypothesis that the modulus is at most half the range is where the code needs it: it adds the modulus
to a residue in signed words.
`SliceIsNamed` says that the indexes a slice goes through are, one by
one and in that order, those start:stop:step names: each bound is clamped and then the count is that of a
range, for which `RangeLenExact` holds; a step of `INT64_MIN`, which the loops take for
`-INT64_MAX`, names the same one index because no list is that long.
On it rest `IndexExact`, `SliceExact` and `StoreSliceExact`, and `SlicesTheorem` (`SlicesAsInPython`): what is
read, stored and deleted by an index or a slice is what Python says, for any list, items, bounds and step.
Python's side is stated with the set of indexes and its order, so first there is only one way to go through
a set of numbers upwards or downwards (`InOrderIs`: the k-th member is the one with k - 1 before it). A slice
that goes down is deleted by a loop that goes up, waiting for the slice's last index first; its
invariant is that the indexes it no longer waits for are those below i (`Passed`) and that it has kept the
other items below i, in order (`Remains`).
These proofs need induction over numbers. The library's rule of induction takes an operator, which the
provers cannot instantiate; the module states its own over sets (`Induction`, from the least
number that is not in the set, which `NatLessThanWellFounded` gives) and from it that a function defined by
recursion exists (`Recursion`), which is what the definitions of `Power` and `Loop` rest on.

**`LoaderProofs`**, from `FilesAssumption` and `JunkAssumption` (a file is a sequence of bytes, of
any length and content). `LoaderInvariant`, `StaysInside` (`ReadsInside`) and `SoundWhenLoaded`
(`LoadedIsSound`). Neither is inductive. `IInv` says in addition where the cursor is (between the header
and the end of the section, which is within the payload), what has been loaded at each stage, that
every function record accepted so far satisfies what the loader tests (its names are in the table, its
slots below its count of locals, its code within what was measured), and that the two passes
over the records agree on how much code there is, which is the only thing that keeps the
copy inside the buffer allocated for it.
`PackedAlwaysFound` (`PackedIsFound`) adds `StubsAssumption` and `SizesAssumption`: stubs are bytes too, and
neither is as long as 2^30, below which the length field reads back as it was written. The bytes of
the executable are followed through its five concatenations (`Trailed`), and the offset and the length
that are read from the last sixteen cut out the container.

**`LiveProofs`**, from `StartsAssumption` (the program begins with some lists, dicts and sets and no
iterators), `FixedAssumption`, `PositionsAssumption` and `BoundsAssumption`. `LiveIteratorsAsPython` is
`Spec => []LiveAsPython`, for any number of containers, values and iterators. It is not inductive, since `last`
is forgotten at once: the invariant makes each iterator of the VM a function of what the reference
counts (`Matched`). Its index is the number of items given, or counts down from the last; `done` is
set exactly when the reference is over; and the length it noted is that of `start`, which for a value that does
not change is still the value (`FixedKept`). The argument is then about one answer: why the
VM's test of the position and the length (`seq_next`, `reversed_next`) comes out as the reference's wherever
that promises anything. Changes are needed only for their type, because an iterator keeps a position and
no item.

**`ComparingProofs`**, from `HeapAssumption` (every cell is well formed), `DoubleAssumption` and
`IntMaxAssumption`, for heaps of any size and values of any depth. `EqualityTheorem`, `MembershipTheorem`,
`OrderTheorem` and `SetAlgebraTheorem` state the four properties of values that `operators` checks (`ValuesType` says
that the two values of a case are cells). The argument is that the code and Python agree (`Agree`) on any two
cells: equal in the code just when they denote the same, and then with equal hashes if they have any. The two halves need each
other, since a set finds an item only by its hash: `AgreeAll` is by induction on the later of the two
cells, and the exceptions (`Clear`) are about everything the two values hold. Two sets of one length where
each item of the first is found in the second denote one set because neither denotes a thing twice
(`SameImages`); two ranges with the fields that `value_equal` looks at have the same members in the same order and
the converse (`RangesAgree`). Order adds that the items of two lists first differ for the code where they do for Python,
that the conversion to double keeps the order where it is exact, and that a set is part of another of
more elements just when it is a proper one (`ProperIs`). The algebra needs the loops of
`value_set_update` and `setlike_difference`: after each item the result is a set of cells (`Proper`) that denotes what it
should (`AddAllIs`, `DropAllIs`). That the recursive functions exist at all, and take the values their
definitions give, comes first (`CanHashIs` to `RankingIs`): by induction on the number of cells, since a cell holds
only earlier ones.

**`CallBindingProofs`**, from `FunctionsAssumption` (parameters have
different names and slots among the locals, the positional ones first; a local is in one cell at
most) and `CallsAssumption` (no keyword twice). The compiler sees to both: it refuses equal
parameters (`compiler.py:152`) and equal keywords (`compiler.py:640`, `902`), a dict cannot hold a
key twice, and slots come from one table of names (`symbols.py:46`). Nothing is assumed of how many
there are of anything. `BindingTheorem` is `Spec => []BindsAsPython`. What a slot holds when the body
starts depends on the loops that went over it, so the invariant (`BindingInvariant`) says for every
statement what each slot holds: the arguments seen so far (`ParamSoFar`, `KwonlySoFar`,
`ExtrasSoFar`, with the counter of the keyword loop), a default if the loop of defaults is past it,
or nothing. `Arrays` and `Stages` add what the C arrays, cells and containers hold at each stage;
`TypeErrors` that a `TypeError` is one in Python too.
`OwnersTheorem` is `Spec => []OwnersExact`, `NothingLeftTheorem` is `Spec => []NothingLeft`.
`OwnersExact` is inductive relative to that invariant: a slot that is written held nothing (else its
old reference would be lost), and a container that is made was held by nobody, so its contents start
to count with it. The proof counts pointers: a statement that copies, moves or drops pointers changes
the number of owners of each object by what it changes in its refcount. For a release
(`ReleaseExact`) the count is done level by level, as above, and rests on each container being
released for good exactly when the pointers to it in the array are all there are. At the end every
array, slot and cell is gone, and the only owner left is the function object: that is `NothingLeft`.

**Only model-checked:** `Termination` (liveness is out of the prover's reach); what compiled
programs do, `AsInPython`, `OperandsIsolated`, `HandlersPaired`, `NamesAsInPython` and
`StatementsStartEmpty`, and `PipelinesAsPython`, `BulkAsPython` and `RoundTrip`: the compilers, the encoder,
the iterators that run others and the references are recursive over syntax or over what they run
(RECURSIVE operators, of which tlapm proves nothing).

## 6. What is not modelled

`PROJECT.json` gives the reason for each component. In short:

* Text processing, formatting and `repr`, generated tables, files and the command line: sequential functions
  of their input that the unit tests compare with CPython case by case.
* Floats, but for their place in comparisons; complex conversions between types.
* The compilation of subscripts, method calls, keyword and starred arguments, several or nested targets
  and f-strings: straight sequences of instructions over what `NameCompiler` has.
* Reference counts outside calls; tracebacks.
