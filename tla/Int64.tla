------------------------------- MODULE Int64 -------------------------------
(***************************************************************************)
(* The machine's integers: C's int64_t and uint64_t with Bits bits, and    *)
(* what an operation on values yields.                                     *)
(***************************************************************************)
EXTENDS Integers

CONSTANTS
  Bits,      \* 64 in the code
  IntMax     \* INT64_MAX

ASSUME IntMaxAssumption == IntMax \in Nat \ {0}

\* base to the n, as a recursion that can be reasoned about.
Power(base, n) ==
  LET p[i \in Nat] == IF i = 0 THEN 1 ELSE base * p[i - 1] IN p[n]

\* Apart, so that what needs no powers is proved without them.
ASSUME BitsAssumption == Bits \in Nat \ {0} /\ IntMax = Power(2, Bits - 1) - 1

IntMin == -IntMax - 1
Ints   == IntMin..IntMax

\* The unsigned value of the same bits, and the signed one.
Unsigned(x) == x % (2 * (IntMax + 1))
Signed(x)   == IF Unsigned(x) > IntMax THEN Unsigned(x) - 2 * (IntMax + 1) ELSE Unsigned(x)

\* C divides towards zero.
Magnitude(x) == IF x < 0 THEN -x ELSE x
Quotient(a, b) ==
  LET q == Magnitude(a) \div Magnitude(b) IN IF (a < 0) = (b < 0) THEN q ELSE -q
Remainder(a, b) == a - b * Quotient(a, b)

\* An operation yields a value, or sets last_error to VM_ERR_c.
Done(v)   == [error |-> "OK", value |-> v]
Failed(c) == [error |-> c]
=============================================================================
