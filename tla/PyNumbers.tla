------------------------------ MODULE PyNumbers ------------------------------
(***************************************************************************)
(* What Python says of integers, ranges and slices, beside what Arithmetic *)
(* and Slices compute.                                                     *)
(*                                                                         *)
(* A state is one case and the properties are about the case: two integers *)
(* of the word, or the length and the first bound of a slice.  Where the   *)
(* code is known to differ from Python, the property says so and excepts   *)
(* exactly that.                                                           *)
(***************************************************************************)
EXTENDS Arithmetic, Slices, FiniteSets, SequencesExt

CONSTANTS
  Steps,       \* of ranges
  Bounds,      \* of slices, and their steps
  MaxItems     \* of what is stored to a slice

ASSUME StepsAssumption == Steps \subseteq Ints \ {0}
ASSUME BoundsAssumption == Bounds \subseteq Ints \cup {Absent}

VARIABLE case

\* A case of two integers has two of the word, one of a slice a length and a bound.
CaseType ==
  /\ case.kind = "ints" => case.a \in Ints /\ case.b \in Ints
  /\ case.kind = "slice" => case.a \in 0..IntMax /\ case.b \in Ints \cup {Absent}

-----------------------------------------------------------------------------
(* Arithmetic *)

\* base to the n, or a number out of range once it is out of range for good.
PowerOf(base, n) ==
  LET p[i \in 0..n] ==
        IF i = 0 THEN 1
        ELSE LET q == p[i - 1] * base IN IF q \in Ints THEN q ELSE 2 * (IntMax + 1)
  IN p[n]

\* The multiple of 10^-ndigits nearest to value, the even one of two.
IsRounded(value, unit, r) ==
  /\ r % unit = 0
  /\ 2 * Magnitude(value - r) <= unit
  /\ 2 * Magnitude(value - r) = unit => (r \div unit) % 2 = 0

RoundedTo(value, unit) ==
  CHOOSE r \in {(value \div unit) * unit, (value \div unit + 1) * unit} : IsRounded(value, unit, r)

\* Every arithmetic operator and function on two integers yields what the
\* mathematics says, or OverflowError when that is no 64-bit integer, without an
\* intermediate result that overflows: ops_numeric.c, builtins_math.c.  Exceptions:
\* the remainder 0 of the smallest integer by -1 is an OverflowError, and rounding
\* to a unit that is itself out of range is left to RoundExact.
ArithmeticExact ==
  case.kind = "ints" =>
    LET a == case.a
        b == case.b
    IN /\ Add(a, b) = Exactly(a + b)
       /\ Sub(a, b) = Exactly(a - b)
       /\ Mul(a, b) = Exactly(a * b)
       /\ Neg(a) = Exactly(-a)
       /\ AbsOf(a) = Exactly(Magnitude(a))
       /\ IF b = 0 THEN FloorDiv(a, b) = Failed("DIV_ZERO") /\ Mod(a, b) = Failed("DIV_ZERO")
          ELSE IF a = IntMin /\ b = -1
          THEN FloorDiv(a, b) = Failed("OVERFLOW") /\ Mod(a, b) = Failed("OVERFLOW")
          ELSE IsDivMod(a, b, FloorDiv(a, b).value, Mod(a, b).value)
       /\ b >= 0 => Pow(a, b) = Exactly(PowerOf(a, b))
       /\ IF b < 0 THEN LShift(a, b) = Failed("VALUE") /\ RShift(a, b) = Failed("VALUE")
          ELSE /\ LShift(a, b) = Exactly(a * Power(2, Min({b, Bits})))
               /\ RShift(a, b) = Done(a \div Power(2, Min({b, Bits})))
       /\ \A d \in 0..(Digits - 1) : RoundInt(a, -d) = Exactly(RoundedTo(a, Power(10, d)))

\* base^exp modulo m by multiplying, m > 0.
ModularPower(base, exp, m) ==
  LET p[i \in 0..exp] == IF i = 0 THEN 1 % m ELSE (p[i - 1] * base) % m IN p[exp]

\* pow with three arguments: the power, or for a negative exponent the power of the
\* inverse, reduced to the sign of the modulus; ValueError when there is no inverse
\* or the modulus is 0.  Two exceptions of pow_mod: the exponent INT64_MIN is taken
\* for -INT64_MAX, and Euclid's algorithm wraps for a modulus past half the range.
PowModIsPython(base, exp, mod) ==
  LET m      == Magnitude(mod)
      result == PowMod(base, exp, mod)
      \* The residues that are an inverse of the base: one at most.
      bases  == IF exp >= 0 THEN {base}
                ELSE {x \in 0..(m - 1) : (base * x - 1) % m = 0}
      known  == exp = IntMin \/ (exp < 0 /\ 2 * m > IntMax)
  IN IF m = 0 THEN result = Failed("VALUE")
     ELSE ~known =>
       IF bases = {} THEN result = Failed("VALUE")
       ELSE LET p == ModularPower(CHOOSE x \in bases : TRUE, Magnitude(exp), m)
            IN result = Done(IF mod < 0 /\ p # 0 THEN p - m ELSE p)

\* The exponents of the word that are tried: small ones and the ends of the range.
Exponents == {IntMin, IntMin + 1, -1, 0, 1, 5, IntMax} \cap Ints

\* pow with a modulus is what Python says it is, for every base and modulus.
PowModAsInPython ==
  case.kind = "ints" => \A exp \in Exponents : PowModIsPython(case.a, exp, case.b)

\* round(value, ndigits) is the nearest multiple, or OverflowError when that is out
\* of range: round_int.
RoundExact ==
  case.kind = "ints" =>
    \A d \in 1..Digits :
      RoundInt(case.a, -d) = Exactly(RoundedTo(case.a, Power(10, d)))

\* The numbers of a range.
RangeSet(start, stop, step) ==
  IF step > 0 THEN {x \in start..(stop - 1) : (x - start) % step = 0}
  ELSE {x \in (stop + 1)..start : (start - x) % (-step) = 0}

\* len(range) and membership of a range, while its bounds are no further apart than
\* INT64_MAX: value_range_len and op_contains subtract in 64 bits.
RangesExact ==
  case.kind = "ints" /\ Magnitude(case.a - case.b) <= IntMax =>
    \A step \in Steps :
      LET range == RangeSet(case.a, case.b, step)
      IN /\ RangeLen(case.a, case.b, step) = Cardinality(range)
         /\ \A x \in {IntMin, case.a - 1, case.a, case.a + 1, case.a + step, case.b, case.b - 1, 0, IntMax} \cap Ints :
              RangeContains(x, case.a, case.b, step) <=> x \in range

-----------------------------------------------------------------------------
(* Slices *)

Firsts(n) == [i \in 1..n |-> i]

\* The indexes start:stop:step names in a list of len items, by Python's account:
\* bounds that are negative count from the end, and then those in between.
From(bound, len) == IF bound < 0 THEN bound + len ELSE bound

Named(start, stop, step, len) ==
  LET up   == step > 0
      low  == IF start = Absent THEN 0 ELSE Max({0, From(start, len)})
      high == IF stop = Absent THEN len ELSE Min({len, From(stop, len)})
      top  == IF start = Absent THEN len - 1 ELSE Min({len - 1, From(start, len)})
      end  == IF stop = Absent THEN -1 ELSE Max({-1, From(stop, len)})
  IN IF up THEN {i \in low..(high - 1) : (i - low) % step = 0}
     ELSE {i \in (end + 1)..top : (top - i) % (-step) = 0}

\* In the order they are visited: the k-th comes after k - 1 others.
InOrder(indexes, step) ==
  LET Before(i) == {j \in indexes : IF step > 0 THEN j < i ELSE j > i}
  IN [k \in 1..Cardinality(indexes) |-> CHOOSE i \in indexes : Cardinality(Before(i)) = k - 1]

\* A list without the items at some indexes.
Without(list, indexes) ==
  LET left == InOrder((0..(Len(list) - 1)) \ indexes, 1)
  IN [k \in 1..Len(left) |-> list[left[k] + 1]]

\* One index is valid from -len to len - 1, to read, to store and to delete: the
\* op_*_index.
IndexIsPython(list, idx, value) ==
  LET i == From(idx, Len(list))
      results == <<GetIndex(list, idx), SetIndex(list, idx, value), DeleteIndex(list, idx)>>
  IN IF idx \in (-Len(list))..(Len(list) - 1)
     THEN results = <<Done(list[i + 1]), Done([list EXCEPT ![i + 1] = value]), Done(Without(list, {i}))>>
     ELSE results = <<Failed("BOUNDS"), Failed("BOUNDS"), Failed("BOUNDS")>>

\* Reading and deleting a slice touch the indexes Python names, in its order:
\* op_get_slice, op_delete_slice.  (A step of 0 is an error in both; its type differs.)
SliceIsPython(list, start, stop, step_val) ==
  LET step   == IF step_val = Absent THEN 1 ELSE step_val
      named  == Named(start, stop, step, Len(list))
      visit  == InOrder(named, step)
      get    == GetSlice(list, start, stop, step_val)
      delete == DeleteSlice(list, start, stop, step_val)
  IN IF step = 0 THEN get.error # "OK" /\ delete.error # "OK"
     ELSE /\ get = Done([k \in 1..Len(visit) |-> list[visit[k] + 1]])
          /\ delete = Done(Without(list, named))

\* Storing puts the items in the place of those named: any number of them when the
\* step is 1, else as many as there are, one for one: op_store_slice.
StoreIsPython(list, start, stop, step_val, items) ==
  LET len   == Len(list)
      step  == IF step_val = Absent THEN 1 ELSE step_val
      named == Named(start, stop, step, len)
      visit == InOrder(named, step)
      begin == IF start = Absent THEN 0 ELSE Min({len, Max({0, From(start, len)})})
      store == StoreSlice(list, start, stop, step_val, items)
  IN IF step = 0 THEN store.error # "OK"
     ELSE IF step = 1
     THEN store = Done(SubSeq(list, 1, begin) \o items \o SubSeq(list, begin + Len(visit) + 1, len))
     ELSE IF Len(items) # Len(visit) THEN store = Failed("VALUE")
     ELSE store = Done([i \in 1..len |->
                    IF i - 1 \in named
                    THEN items[CHOOSE k \in 1..Len(visit) : visit[k] = i - 1] ELSE list[i]])

\* Subscripts and slices are Python's, for bounds and steps to the ends of the
\* 64-bit range: ops_sequence.c, on adjust_slice.
SlicesAsInPython ==
  case.kind = "slice" =>
    LET list == Firsts(case.a)
    IN /\ case.b # Absent => IndexIsPython(list, case.b, 100)
       /\ \A stop \in Bounds, step_val \in Bounds :
            /\ SliceIsPython(list, case.b, stop, step_val)
            /\ \A k \in 0..(MaxItems + 1) :
                 StoreIsPython(list, case.b, stop, step_val, [i \in 1..k |-> 100 + i])
=============================================================================
