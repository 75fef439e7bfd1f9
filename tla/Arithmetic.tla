----------------------------- MODULE Arithmetic -----------------------------
(***************************************************************************)
(* The operators and functions on integers: vm_c/ops_numeric.c and         *)
(* vm_c/builtins_math.c.  Overflow is tested before an operation, so that  *)
(* none overflows; floats are left out.                                    *)
(***************************************************************************)
EXTENDS Int64

CONSTANTS
  LenMax,     \* UINT32_MAX, the most bytes or items of a sequence
  Digits      \* 19: the least d for which 10^d is no int64_t

ASSUME LenMaxAssumption == LenMax \in Nat

ASSUME DigitsAssumption == Digits \in Nat /\ Power(10, Digits) > IntMax /\ Power(10, Digits - 1) <= IntMax

\* n steps of a loop from state s.
Loop(Step(_), s, n) ==
  LET after[i \in 0..n] == IF i = 0 THEN s ELSE Step(after[i - 1]) IN after[n]

-----------------------------------------------------------------------------
FaultyMulOverflows(a, b) ==
  \/ a > 0 /\ b > 0 /\ a > Quotient(IntMax, b)
  \/ a > 0 /\ b < 0 /\ b < Quotient(IntMin, a)
  \/ a < 0 /\ b > 0 /\ a < -Quotient(IntMax, b)
  \/ a < 0 /\ b < 0 /\ a < Quotient(IntMax, b)

\* mul_overflows.
MulOverflows(a, b) ==
  IF a = 0 \/ b = 0 THEN FALSE
  ELSE IF a = IntMin THEN b # 1
  ELSE IF b = IntMin THEN a # 1
  ELSE \/ a > 0 /\ b > 0 /\ a > Quotient(IntMax, b)
       \/ a > 0 /\ b < 0 /\ b < Quotient(IntMin, a)
       \/ a < 0 /\ b > 0 /\ a < Quotient(IntMin, b)
       \/ a < 0 /\ b < 0 /\ a < Quotient(IntMax, b)

Checked(overflows, v) == IF overflows THEN Failed("OVERFLOW") ELSE Done(v)

\* binary_add, binary_sub, binary_mul of two integers.
Add(a, b) == Checked((b > 0 /\ a > IntMax - b) \/ (b < 0 /\ a < IntMin - b), a + b)
Sub(a, b) == Checked((b < 0 /\ a > IntMax + b) \/ (b > 0 /\ a < IntMin + b), a - b)
Mul(a, b) == IF MulOverflows(a, b) THEN Failed("OVERFLOW") ELSE Done(a * b)

\* int_floor_divmod: C's quotient and remainder made Python's.
FloorDiv(a, b) ==
  CASE b = 0 -> Failed("DIV_ZERO")
    [] a = IntMin /\ b = -1 -> Failed("OVERFLOW")
    [] OTHER -> Done(IF Remainder(a, b) # 0 /\ (Remainder(a, b) < 0) # (b < 0)
                     THEN Quotient(a, b) - 1 ELSE Quotient(a, b))

Mod(a, b) ==
  CASE b = 0 -> Failed("DIV_ZERO")
    [] a = IntMin /\ b = -1 -> Failed("OVERFLOW")
    [] OTHER -> Done(IF Remainder(a, b) # 0 /\ (Remainder(a, b) < 0) # (b < 0)
                     THEN Remainder(a, b) + b ELSE Remainder(a, b))

\* One turn of the loop of int_pow: square and multiply, the last square not
\* computed.
PowStep(s) ==
  LET times == s.exp % 2 = 1
      rest  == s.exp \div 2
  IN IF s.exp = 0 \/ s.over THEN s
     ELSE IF times /\ MulOverflows(s.result, s.base) THEN [s EXCEPT !.over = TRUE]
     ELSE IF rest > 0 /\ MulOverflows(s.base, s.base) THEN [s EXCEPT !.over = TRUE]
     ELSE [s EXCEPT !.result = IF times THEN @ * s.base ELSE @,
                    !.base = IF rest > 0 THEN @ * @ ELSE @, !.exp = rest]

\* binary_pow and pow of two integers, the exponent not negative.
Pow(base, exp) ==
  LET end == Loop(PowStep, [base |-> base, exp |-> exp, result |-> 1, over |-> FALSE], Bits)
  IN Checked(end.over, end.result)

\* -x and abs.
Neg(a) == IF a = IntMin THEN Failed("OVERFLOW") ELSE Done(-a)
AbsOf(a) == IF a = IntMin THEN Failed("OVERFLOW") ELSE Done(Magnitude(a))

\* a << n: shifted as unsigned, and back to see whether bits were lost.
LShift(a, n) ==
  CASE n < 0 -> Failed("VALUE")
    [] n >= Bits -> IF a # 0 THEN Failed("OVERFLOW") ELSE Done(0)
    [] OTHER -> LET shifted == Signed(Unsigned(a) * Power(2, n))
                IN Checked(shifted \div Power(2, n) # a, shifted)

RShift(a, n) ==
  CASE n < 0 -> Failed("VALUE")
    [] n >= Bits -> Done(IF a < 0 THEN -1 ELSE 0)
    [] OTHER -> Done(a \div Power(2, n))

-----------------------------------------------------------------------------
\* mulmod: a * b modulo m by doubling, in unsigned integers that wrap.
MulModStep(s) ==
  LET sum     == Unsigned(s.result + s.a)
      doubled == Unsigned(2 * s.a)
      less(x) == IF x >= s.m \/ x < s.a THEN Unsigned(x - s.m) ELSE x
  IN IF s.b = 0 THEN s
     ELSE [s EXCEPT !.result = IF s.b % 2 = 1 THEN less(sum) ELSE @,
                    !.b = @ \div 2,
                    !.a = IF s.b \div 2 > 0 THEN less(doubled) ELSE @]

MulMod(a, b, m) ==
  Loop(MulModStep, [a |-> a % m, b |-> b, m |-> m, result |-> 0], Bits).result

\* modexp: base^exp modulo m.
ModExpStep(s) ==
  IF s.exp = 0 THEN s
  ELSE [s EXCEPT !.result = IF s.exp % 2 = 1 THEN MulMod(@, s.base, s.m) ELSE @,
                 !.exp = @ \div 2,
                 !.base = IF s.exp \div 2 > 0 THEN MulMod(@, @, s.m) ELSE @]

ModExp(base, exp, m) ==
  Loop(ModExpStep, [base |-> base % m, exp |-> exp, m |-> m, result |-> 1 % m], Bits).result

\* mod_inverse: Euclid's algorithm; old_s * base is old_r modulo m throughout.
\* A sum or product past the range wraps, as it does in every build.
EuclidStep(s) ==
  LET q == Quotient(s.old_r, s.r)
  IN IF s.r = 0 THEN s
     ELSE [s EXCEPT !.old_r = s.r, !.r = Signed(s.old_r - q * s.r),
                    !.old_s = s.s, !.s = Signed(s.old_s - q * s.s)]

\* The residue of base that is not negative, for a signed m.
Residue(base, m) ==
  LET r == Remainder(base, m) IN IF r < 0 THEN Signed(r + m) ELSE r

ModInverse(base, m) ==
  LET first == Remainder(Signed(Remainder(base, m) + m), m)
      end   == Loop(EuclidStep, [old_r |-> first, r |-> m, old_s |-> 1, s |-> 0], 2 * Bits)
  IN IF end.old_r # 1 THEN Failed("VALUE") ELSE Done(Unsigned(Residue(end.old_s, m)))

PowModBy(base, exp, m) ==
  LET b == IF exp < 0 THEN ModInverse(base, Signed(m)) ELSE Done(Unsigned(Residue(base, Signed(m))))
  IN IF b.error # "OK" THEN b
     ELSE Done(ModExp(b.value, IF exp = IntMin THEN IntMax ELSE Magnitude(exp), m))

FaultyPowMod(base, exp, mod) ==
  LET m == Magnitude(mod)
      r == PowModBy(base, exp, m)
  IN CASE mod = 0 -> Failed("VALUE")
       [] m = 1   -> Done(0)
       [] m > 1   -> IF r.error # "OK" THEN r ELSE Done(IF mod < 0 THEN r.value - m ELSE r.value)

\* pow_mod: the result has the sign of the modulus.
PowMod(base, exp, mod) ==
  LET m == Magnitude(mod)
      r == PowModBy(base, exp, m)
  IN CASE mod = 0 -> Failed("VALUE")
       [] m = 1   -> Done(0)
       [] m > 1   -> IF r.error # "OK" THEN r
                     ELSE Done(IF mod < 0 /\ r.value # 0 THEN r.value - m ELSE r.value)

-----------------------------------------------------------------------------
\* round_int: to a multiple of 10^-ndigits, halves to the even multiple.
RoundInt(value, ndigits) ==
  LET scale == Power(10, -ndigits)
      q     == Quotient(value, scale)
      r     == Magnitude(Remainder(value, scale))
      half  == scale \div 2
      up    == r > half \/ (r = half /\ q % 2 # 0)
      to    == IF ~up THEN q ELSE IF value < 0 THEN q - 1 ELSE q + 1
  IN IF ndigits >= 0 THEN Done(value)
     ELSE IF -ndigits >= Digits THEN Done(0)
     ELSE IF MulOverflows(to, scale) THEN Failed("OVERFLOW") ELSE Done(to * scale)

\* repeat_overflows and repeat_x: the length of a sequence of unit items
\* repeated count times.
RepeatLen(unit, count) ==
  LET times == IF count < 0 THEN 0 ELSE count
  IN IF unit # 0 /\ times > LenMax \div unit THEN Failed("OVERFLOW") ELSE Done(unit * times)

\* concat_x: the length of two sequences one after the other.
ConcatLen(len1, len2) == Checked(len1 + len2 > LenMax, len1 + len2)

FaultyRangeLen(start, stop, step) ==
  IF step > 0 THEN (IF stop <= start THEN 0 ELSE Quotient(Signed(stop - start), step) + 1)
  ELSE IF stop >= start THEN 0 ELSE Quotient(Signed(start - stop), -step) + 1

\* value_range_len: the difference is taken as unsigned and read as signed.
RangeLen(start, stop, step) ==
  IF step > 0 THEN (IF stop <= start THEN 0 ELSE Quotient(Signed(stop - start) - 1, step) + 1)
  ELSE IF stop >= start THEN 0 ELSE Quotient(Signed(start - stop) - 1, -step) + 1

\* op_contains, of a range; the difference wraps.
RangeContains(x, start, stop, step) ==
  /\ IF step > 0 THEN x >= start /\ x < stop ELSE x <= start /\ x > stop
  /\ Remainder(Signed(x - start), step) = 0

-----------------------------------------------------------------------------
(* What the operators should yield. *)

\* The mathematical result when it is an int64_t, OverflowError when it is not.
Exactly(v) == IF v \in Ints THEN Done(v) ELSE Failed("OVERFLOW")

\* Python's quotient is rounded down, its remainder has the sign of the divisor.
IsDivMod(a, b, q, r) == a = q * b + r /\ (IF b > 0 THEN r \in 0..(b - 1) ELSE r \in (b + 1)..0)
=============================================================================
