-------------------------- MODULE ArithmeticProofs --------------------------
(***************************************************************************)
(* The tests that come before an operation of vm_c/ops_numeric.c are       *)
(* exact, whatever the word: an operation fails just when its result is no *)
(* integer of the word, and otherwise yields the result.                   *)
(***************************************************************************)
EXTENDS Arithmetic, TLAPS

LEMMA Word == IntMax \in Nat /\ IntMax > 0 /\ IntMin \in Int /\ IntMin = -IntMax - 1
BY IntMaxAssumption DEF IntMin

\* The quotient of two naturals lies between the multiples next to it.
LEMMA NaturalDivision ==
  ASSUME NEW a \in Nat, NEW b \in Nat, b > 0
  PROVE  /\ a \div b \in Nat
         /\ b * (a \div b) <= a
         /\ a < b * (a \div b) + b
<1>1. a \div b \in Int
  OBVIOUS
<1>2. a = b * (a \div b) + (a % b) /\ (a % b) \in 0..(b - 1)
  OBVIOUS
<1>3. a \div b >= 0
  BY <1>1, <1>2, SMT
<1> QED
  BY <1>1, <1>2, <1>3, SMT

LEMMA Monotone ==
  ASSUME NEW b \in Nat, NEW k \in Nat, NEW q \in Nat, k <= q
  PROVE  b * k <= b * q
OBVIOUS

\* Comparing with a quotient is comparing a product.
LEMMA DivisionTest ==
  ASSUME NEW x \in Nat, NEW y \in Nat, NEW m \in Nat, y > 0
  PROVE  x > m \div y <=> x * y > m
<1> DEFINE q == m \div y
<1>1. q \in Nat /\ y * q <= m /\ m < y * q + y
  BY NaturalDivision
<1> HIDE DEF q
<1>2. x * y = y * x /\ y * x \in Nat /\ y * q \in Nat
  BY <1>1
<1>3. CASE x <= q
  <2>1. y * x <= y * q
    BY <1>1, <1>3, Monotone
  <2> QED
    BY <1>1, <1>2, <1>3, <2>1 DEF q
<1>4. CASE x > q
  <2>1. q + 1 \in Nat /\ q + 1 <= x
    BY <1>1, <1>4
  <2>2. y * (q + 1) <= y * x
    BY <2>1, Monotone
  <2>3. y * (q + 1) = y * q + y
    BY <1>1
  <2> QED
    BY <1>1, <1>2, <1>4, <2>2, <2>3 DEF q
<1> QED
  BY <1>1, <1>3, <1>4

\* binary_add of two integers, in vm_c/ops_numeric.c, yields their sum, or fails
\* with an overflow just when the sum is out of range.
THEOREM AddExact ==
  ASSUME NEW a \in Ints, NEW b \in Ints
  PROVE  Add(a, b) = Exactly(a + b)
BY Word DEF Add, Checked, Exactly, Ints

\* binary_sub of two integers yields their difference, or fails with an overflow
\* just when it is out of range: the difference with IntMin, which has no
\* negative, too.
THEOREM SubExact ==
  ASSUME NEW a \in Ints, NEW b \in Ints
  PROVE  Sub(a, b) = Exactly(a - b)
BY Word DEF Sub, Checked, Exactly, Ints

\* -x and abs fail for IntMin alone, and so just when their result is out of range.
THEOREM NegAndAbsExact ==
  ASSUME NEW a \in Ints
  PROVE  Neg(a) = Exactly(-a) /\ AbsOf(a) = Exactly(Magnitude(a))
BY Word DEF Neg, AbsOf, Magnitude, Exactly, Ints

-----------------------------------------------------------------------------
\* C's quotient, by the signs of the two.
LEMMA QuotientOf ==
  ASSUME NEW a \in Int, NEW b \in Int, b # 0
  PROVE  /\ a >= 0 /\ b > 0 => Quotient(a, b) = a \div b
         /\ a > 0  /\ b < 0 => Quotient(a, b) = -(a \div (-b))
         /\ a = 0  /\ b < 0 => Quotient(a, b) = -(a \div (-b))
         /\ a < 0  /\ b > 0 => Quotient(a, b) = -((-a) \div b)
         /\ a < 0  /\ b < 0 => Quotient(a, b) = (-a) \div (-b)
<1>1. a >= 0 => Magnitude(a) = a
  BY DEF Magnitude
<1>2. a < 0 => Magnitude(a) = -a
  BY DEF Magnitude
<1>3. b > 0 => Magnitude(b) = b
  BY DEF Magnitude
<1>4. b < 0 => Magnitude(b) = -b
  BY DEF Magnitude
<1> QED
  BY <1>1, <1>2, <1>3, <1>4 DEF Quotient

LEMMA ProductSigns ==
  ASSUME NEW a \in Nat \ {0}, NEW b \in Nat \ {0}
  PROVE  a * b \in Nat /\ a * b >= 1
<1>1. a * 1 <= a * b
  BY Monotone
<1> QED
  BY <1>1

\* IntMin has only itself as a multiple in range, but for 0.
LEMMA MultipleOfIntMin ==
  ASSUME NEW b \in Int, b # 0
  PROVE  IntMin * b \in Ints <=> b = 1
<1> DEFINE n == IntMax + 1
<1>1. n \in Nat /\ IntMin = -n /\ n >= 2
  BY Word
<1> HIDE DEF n
<1>2. CASE b = 1
  BY <1>1, <1>2, Word DEF Ints
<1>3. CASE b >= 2
  <2>1. n * 2 <= n * b
    BY <1>1, <1>3, Monotone
  <2>2. IntMin * b = -(n * b) /\ n * b \in Int
    BY <1>1
  <2> QED
    BY <1>1, <1>3, <2>1, <2>2, Word DEF Ints
<1>4. CASE b < 0
  <2> DEFINE k == -b
  <2>1. k \in Nat /\ 1 <= k
    BY <1>4
  <2>2. IntMin * b = n * k /\ n * k \in Int
    BY <1>1
  <2> HIDE DEF k
  <2>3. n * 1 <= n * k
    BY <1>1, <2>1, Monotone
  <2>4. n * k >= n
    BY <1>1, <2>2, <2>3
  <2> QED
    BY <1>1, <1>4, <2>2, <2>4, Word DEF Ints, n
<1> QED
  BY <1>2, <1>3, <1>4

\* Apart from IntMin the signs of the two tell which end of the range to
\* compare with.
LEMMA MulOverflowsBySign ==
  ASSUME NEW a \in Ints, NEW b \in Ints, a # 0, b # 0, a # IntMin, b # IntMin
  PROVE  MulOverflows(a, b) <=> a * b \notin Ints
<1>1. a \in Int /\ b \in Int
  BY Word DEF Ints
<1>2. CASE a > 0 /\ b > 0
  <2>1. MulOverflows(a, b) <=> a > IntMax \div b
    BY <1>1, <1>2, Word, QuotientOf DEF MulOverflows
  <2>2. a * b \in Nat
    BY <1>1, <1>2, ProductSigns
  <2>3. a > IntMax \div b <=> a * b > IntMax
    BY <1>1, <1>2, Word, DivisionTest
  <2> QED
    BY <2>1, <2>2, <2>3, Word DEF Ints
<1>3. CASE a > 0 /\ b < 0
  <2> DEFINE k == -b
  <2>1. k \in Nat \ {0} /\ a \in Nat \ {0} /\ b = -k
    BY <1>1, <1>3
  <2>2. IntMax + 1 \in Nat /\ -IntMin = IntMax + 1 /\ IntMin < 0
    BY Word
  <2>3. Quotient(IntMin, a) = -((IntMax + 1) \div a) /\ (IntMax + 1) \div a \in Nat
    <3>1. Quotient(IntMin, a) = -((-IntMin) \div a)
      BY <2>1, <2>2, Word, QuotientOf
    <3>2. (IntMax + 1) \div a \in Nat
      BY <2>1, <2>2, NaturalDivision
    <3> QED
      BY <2>2, <3>1, <3>2
  <2>4. MulOverflows(a, b) <=> b < Quotient(IntMin, a)
    BY <1>1, <1>3 DEF MulOverflows
  <2>5. a * b = -(k * a)
    BY <1>1
  <2> HIDE DEF k
  <2>6. k > (IntMax + 1) \div a <=> k * a > IntMax + 1
    BY <2>1, <2>2, DivisionTest
  <2>7. k * a \in Nat
    BY <2>1
  <2> QED
    BY <2>1, <2>3, <2>4, <2>5, <2>6, <2>7, Word DEF Ints
<1>4. CASE a < 0 /\ b > 0
  <2> DEFINE k == -a
  <2>1. k \in Nat \ {0} /\ b \in Nat \ {0} /\ a = -k
    BY <1>1, <1>4
  <2>2. IntMax + 1 \in Nat /\ -IntMin = IntMax + 1 /\ IntMin < 0
    BY Word
  <2>3. Quotient(IntMin, b) = -((IntMax + 1) \div b) /\ (IntMax + 1) \div b \in Nat
    <3>1. Quotient(IntMin, b) = -((-IntMin) \div b)
      BY <2>1, <2>2, Word, QuotientOf
    <3>2. (IntMax + 1) \div b \in Nat
      BY <2>1, <2>2, NaturalDivision
    <3> QED
      BY <2>2, <3>1, <3>2
  <2>4. MulOverflows(a, b) <=> a < Quotient(IntMin, b)
    BY <1>1, <1>4 DEF MulOverflows
  <2>5. a * b = -(k * b)
    BY <1>1
  <2> HIDE DEF k
  <2>6. k > (IntMax + 1) \div b <=> k * b > IntMax + 1
    BY <2>1, <2>2, DivisionTest
  <2>7. k * b \in Nat
    BY <2>1
  <2> QED
    BY <2>1, <2>3, <2>4, <2>5, <2>6, <2>7, Word DEF Ints
<1>5. CASE a < 0 /\ b < 0
  <2> DEFINE j == -a
             k == -b
  <2>1. j \in Nat \ {0} /\ k \in Nat \ {0} /\ a = -j /\ b = -k
    BY <1>1, <1>5
  <2>2. Quotient(IntMax, b) = -(IntMax \div k) /\ IntMax \div k \in Nat
    <3>1. Quotient(IntMax, b) = -(IntMax \div (-b))
      BY <1>1, <1>5, Word, QuotientOf
    <3>2. IntMax \div k \in Nat
      BY <2>1, Word, NaturalDivision
    <3> QED
      BY <3>1, <3>2
  <2>3. MulOverflows(a, b) <=> a < Quotient(IntMax, b)
    BY <1>1, <1>5 DEF MulOverflows
  <2>4. a * b = j * k
    BY <1>1
  <2> HIDE DEF j, k
  <2>5. j > IntMax \div k <=> j * k > IntMax
    BY <2>1, Word, DivisionTest
  <2>6. j * k \in Nat
    BY <2>1
  <2> QED
    BY <2>1, <2>2, <2>3, <2>4, <2>5, <2>6, Word DEF Ints
<1> QED
  BY <1>1, <1>2, <1>3, <1>4, <1>5

\* mul_overflows, in vm_c/ops_numeric.c, divides to find out, and is right for
\* every two integers: binary_mul never computes a product that wraps, and refuses
\* none that fits.
THEOREM MulExact ==
  ASSUME NEW a \in Ints, NEW b \in Ints
  PROVE  Mul(a, b) = Exactly(a * b)
<1>1. a \in Int /\ b \in Int /\ 0 \in Ints
  BY Word DEF Ints
<1>2. MulOverflows(a, b) <=> a * b \notin Ints
  <2>1. CASE a = 0 \/ b = 0
    <3>1. a * b = 0
      BY <1>1, <2>1
    <3> QED
      BY <1>1, <2>1, <3>1 DEF MulOverflows
  <2>2. CASE a = IntMin /\ b # 0
    <3>1. MulOverflows(a, b) <=> b # 1
      BY <2>2, Word DEF MulOverflows
    <3> QED
      BY <1>1, <2>2, <3>1, MultipleOfIntMin
  <2>3. CASE b = IntMin /\ a # 0 /\ a # IntMin
    <3>1. MulOverflows(a, b) <=> a # 1
      BY <2>3, Word DEF MulOverflows
    <3>2. a * b = IntMin * a
      BY <1>1, <2>3
    <3> QED
      BY <1>1, <2>3, <3>1, <3>2, MultipleOfIntMin
  <2>4. CASE a # 0 /\ b # 0 /\ a # IntMin /\ b # IntMin
    BY <2>4, MulOverflowsBySign
  <2> QED
    BY <2>1, <2>2, <2>3, <2>4
<1> QED
  BY <1>2 DEF Mul, Exactly

-----------------------------------------------------------------------------
\* C's division of integers of both signs, from that of their magnitudes.
LEMMA TruncatedDivision ==
  ASSUME NEW a \in Int, NEW b \in Int, b # 0
  PROVE  \E q, t \in Nat :
           /\ Magnitude(a) = Magnitude(b) * q + t
           /\ t < Magnitude(b)
           /\ Quotient(a, b) = IF (a < 0) = (b < 0) THEN q ELSE -q
           /\ Remainder(a, b) = IF a < 0 THEN -t ELSE t
<1> DEFINE A == Magnitude(a)
           B == Magnitude(b)
           q == A \div B
           t == A - B * q
<1>1. A \in Nat /\ B \in Nat /\ B > 0
  BY DEF Magnitude
<1>2. q \in Nat /\ B * q <= A /\ A < B * q + B
  BY <1>1, NaturalDivision
<1>3. Quotient(a, b) = IF (a < 0) = (b < 0) THEN q ELSE -q
  BY DEF Quotient
<1>4. A = (IF a < 0 THEN -a ELSE a) /\ B = (IF b < 0 THEN -b ELSE b)
  BY DEF Magnitude
<1> HIDE DEF A, B, q
<1>5. B * q \in Nat
  BY <1>1, <1>2
<1>6. t \in Nat /\ t < B /\ A = B * q + t
  BY <1>1, <1>2, <1>5
<1>7. b * Quotient(a, b) = IF a < 0 THEN -(B * q) ELSE B * q
  <2>1. (-b) * q = -(b * q) /\ b * (-q) = -(b * q) /\ (-b) * (-q) = b * q
    BY <1>2
  <2>2. CASE b < 0
    BY <1>2, <1>3, <1>4, <2>1, <2>2
  <2>3. CASE b > 0
    BY <1>2, <1>3, <1>4, <2>1, <2>3
  <2> QED
    BY <2>2, <2>3
<1>8. Remainder(a, b) = IF a < 0 THEN -t ELSE t
  BY <1>1, <1>4, <1>5, <1>6, <1>7 DEF Remainder
<1> QED
  BY <1>2, <1>3, <1>6, <1>8 DEF A, B

\* int_floor_divmod, in vm_c/ops_numeric.c: // and % of two integers are Python's
\* quotient, rounded down, and its remainder, with the sign of the divisor, and
\* both are integers of the word; but for a divisor 0 and the quotient of IntMin by
\* -1, which it refuses.
THEOREM FloorDivModExact ==
  ASSUME NEW a \in Ints, NEW b \in Ints, b # 0, ~(a = IntMin /\ b = -1)
  PROVE  \E q, r \in Ints : /\ FloorDiv(a, b) = Done(q)
                            /\ Mod(a, b) = Done(r)
                            /\ IsDivMod(a, b, q, r)
<1> DEFINE A == Magnitude(a)
           B == Magnitude(b)
<1>1. a \in Int /\ b \in Int
  BY Word DEF Ints
<1>2. PICK n, t \in Nat : /\ A = B * n + t
                          /\ t < B
                          /\ Quotient(a, b) = IF (a < 0) = (b < 0) THEN n ELSE -n
                          /\ Remainder(a, b) = IF a < 0 THEN -t ELSE t
  BY <1>1, TruncatedDivision
<1> DEFINE adjust == t # 0 /\ (a < 0) # (b < 0)
           q == IF adjust THEN Quotient(a, b) - 1 ELSE Quotient(a, b)
           r == IF adjust THEN Remainder(a, b) + b ELSE Remainder(a, b)
<1>3. Remainder(a, b) # 0 /\ (Remainder(a, b) < 0) # (b < 0) <=> adjust
  BY <1>1, <1>2
<1>4. FloorDiv(a, b) = Done(q) /\ Mod(a, b) = Done(r)
  BY <1>3 DEF FloorDiv, Mod
<1>5. /\ A = (IF a < 0 THEN -a ELSE a) /\ A \in Nat
      /\ B = (IF b < 0 THEN -b ELSE b) /\ B \in Nat /\ B > 0
  BY <1>1 DEF Magnitude
<1> HIDE DEF A, B
<1>6. B * n \in Nat
  BY <1>5
<1>7. a = q * b + r
  <2>1. (n * b = b * n) /\ ((-n) * b = -(b * n)) /\ b * n \in Int
    BY <1>1
  <2>2. (-n - 1) * b = -(b * n) - b
    BY <1>1
  <2>3. B * n = IF b < 0 THEN -(b * n) ELSE b * n
    BY <1>1, <1>5
  <2>4. CASE adjust
    <3>1. q = -n - 1 /\ r = (IF a < 0 THEN -t ELSE t) + b
      BY <1>1, <1>2, <2>4
    <3>2. q * b = -(b * n) - b
      BY <2>2, <3>1
    <3> HIDE DEF q, r
    <3> QED
      BY <1>1, <1>2, <1>5, <2>1, <2>3, <2>4, <3>1, <3>2
  <2>5. CASE ~adjust
    <3>1. q = (IF (a < 0) = (b < 0) THEN n ELSE -n) /\ r = (IF a < 0 THEN -t ELSE t)
      BY <1>1, <1>2, <2>5
    <3>2. q * b = IF (a < 0) = (b < 0) THEN b * n ELSE -(b * n)
      BY <2>1, <3>1
    <3> HIDE DEF q, r
    <3> QED
      BY <1>1, <1>2, <1>5, <2>1, <2>3, <3>1, <3>2
  <2> QED
    BY <2>4, <2>5
<1>8. IF b > 0 THEN r \in 0..(b - 1) ELSE r \in (b + 1)..0
  <2>1. CASE a < 0
    BY <1>1, <1>2, <1>5, <2>1
  <2>2. CASE a >= 0
    BY <1>1, <1>2, <1>5, <2>2
  <2> QED
    BY <1>1, <2>1, <2>2
<1>9. r \in Ints
  BY <1>1, <1>8, Word DEF Ints
<1>10. q \in Ints
  <2>1. A <= IntMax + 1 /\ (A = IntMax + 1 => a = IntMin)
    BY <1>1, <1>5, Word DEF Ints
  <2>2. CASE B = 1
    <3>1. n = A /\ t = 0
      BY <1>2, <1>5, <2>2
    <3> QED
      BY <1>1, <1>2, <1>5, <2>1, <2>2, <3>1, Word DEF Ints
  <2>3. CASE B >= 2
    <3>1. n * 2 <= n * B /\ n * B = B * n
      BY <1>5, <2>3, Monotone
    <3>2. 2 * n <= A
      BY <1>2, <1>5, <1>6, <3>1
    <3>3. n <= IntMax /\ n + 1 <= IntMax + 1
      BY <1>5, <2>1, <3>2, Word
    <3> QED
      BY <1>2, <3>3, Word DEF Ints
  <2> QED
    BY <1>5, <2>2, <2>3
<1> HIDE DEF q, r
<1> QED
  BY <1>4, <1>7, <1>8, <1>9, <1>10 DEF IsDivMod

-----------------------------------------------------------------------------
\* A number has one remainder.
LEMMA OneRemainder ==
  ASSUME NEW x \in Int, NEW n \in Nat, n > 0, NEW q \in Int, NEW r \in 0..(n - 1),
         x = n * q + r
  PROVE  x % n = r
<1> DEFINE p == x \div n
           s == x % n
<1>1. p \in Int /\ s \in 0..(n - 1) /\ x = n * p + s
  OBVIOUS
<1> HIDE DEF p, s
<1>2. n * p \in Int /\ n * q \in Int
  BY <1>1
<1>3. CASE p >= q + 1
  <2>1. n * (p - q) = n * p - n * q /\ p - q \in Nat /\ 1 <= p - q
    BY <1>1, <1>3
  <2>2. n * 1 <= n * (p - q)
    BY <2>1, Monotone
  <2> QED
    BY <1>1, <1>2, <2>1, <2>2
<1>4. CASE q >= p + 1
  <2>1. n * (q - p) = n * q - n * p /\ q - p \in Nat /\ 1 <= q - p
    BY <1>1, <1>4
  <2>2. n * 1 <= n * (q - p)
    BY <2>1, Monotone
  <2> QED
    BY <1>1, <1>2, <2>1, <2>2
<1>5. CASE p = q
  <2>1. n * p = n * q
    BY <1>5
  <2> QED
    BY <1>1, <1>2, <2>1 DEF s
<1>6. s = r
  BY <1>1, <1>3, <1>4, <1>5
<1> QED
  BY <1>6 DEF s

\* A number of the word is read back from its bits.
LEMMA SignedOfInts ==
  ASSUME NEW x \in Ints
  PROVE  Signed(x) = x
<1> DEFINE n == 2 * (IntMax + 1)
<1>1. n \in Nat /\ n > 0 /\ x \in Int /\ IntMin <= x /\ x <= IntMax
  BY Word DEF Ints
<1>2. Unsigned(x) = x % n
  BY DEF Unsigned
<1>3. CASE x >= 0
  <2>1. x = n * 0 + x /\ x \in 0..(n - 1)
    BY <1>1, <1>3, Word
  <2> HIDE DEF n
  <2>2. x % n = x
    BY <1>1, <2>1, OneRemainder
  <2> QED
    BY <1>1, <1>2, <2>2, Word DEF Signed
<1>4. CASE x < 0
  <2>1. x = n * (-1) + (x + n) /\ x + n \in 0..(n - 1)
    BY <1>1, <1>4, Word
  <2> HIDE DEF n
  <2>2. x % n = x + n
    BY <1>1, <2>1, OneRemainder
  <2>3. x + n > IntMax
    BY <1>1, Word DEF n
  <2> QED
    BY <1>1, <1>2, <2>2, <2>3, Word DEF Signed, n
<1> QED
  BY <1>1, <1>3, <1>4

\* The terms of a range that are before its stop.
Within(v, stop, step) == IF step > 0 THEN v < stop ELSE v > stop

\* value_range_len, in vm_c/value.c, counts exactly the terms of a range that come
\* before its stop, as long as its ends are no further apart than INT64_MAX: beyond
\* that their difference wraps.
THEOREM RangeLenExact ==
  ASSUME NEW start \in Ints, NEW stop \in Ints, NEW step \in Ints, step # 0,
         stop - start \in (-IntMax)..IntMax
  PROVE  /\ RangeLen(start, stop, step) \in Nat
         /\ \A k \in Nat : k < RangeLen(start, stop, step) <=> Within(start + k * step, stop, step)
<1>1. start \in Int /\ stop \in Int /\ step \in Int
  BY Word DEF Ints
<1>2. CASE step > 0 /\ stop <= start
  <2>1. RangeLen(start, stop, step) = 0
    BY <1>2 DEF RangeLen
  <2>2. ASSUME NEW k \in Nat
        PROVE  ~Within(start + k * step, stop, step)
    <3>1. k * step \in Nat
      BY <1>1, <1>2
    <3> QED
      BY <1>1, <1>2, <3>1 DEF Within
  <2> QED
    BY <2>1, <2>2
<1>3. CASE step < 0 /\ stop >= start
  <2>1. RangeLen(start, stop, step) = 0
    BY <1>1, <1>3 DEF RangeLen
  <2>2. ASSUME NEW k \in Nat
        PROVE  ~Within(start + k * step, stop, step)
    <3>1. k * (-step) \in Nat /\ k * step = -(k * (-step))
      BY <1>1, <1>3
    <3> QED
      BY <1>1, <1>3, <3>1 DEF Within
  <2> QED
    BY <2>1, <2>2
<1>4. CASE step > 0 /\ start < stop
  <2> DEFINE d == stop - start - 1
  <2>1. stop - start \in Ints /\ d \in Nat /\ step \in Nat
    BY <1>1, <1>4, Word DEF Ints
  <2>2. RangeLen(start, stop, step) = (d \div step) + 1 /\ d \div step \in Nat
    <3>1. Quotient(d, step) = d \div step
      BY <1>1, <1>4, <2>1, QuotientOf
    <3>2. Signed(stop - start) = stop - start
      BY <2>1, SignedOfInts
    <3>3. RangeLen(start, stop, step) = Quotient(d, step) + 1
      BY <1>1, <1>4, <3>2 DEF RangeLen
    <3>4. d \div step \in Nat
      BY <1>4, <2>1, NaturalDivision
    <3> QED
      BY <3>1, <3>3, <3>4
  <2>3. ASSUME NEW k \in Nat
        PROVE  k < (d \div step) + 1 <=> start + k * step < stop
    <3>1. k > d \div step <=> k * step > d
      BY <1>4, <2>1, DivisionTest
    <3>2. k * step \in Nat
      BY <2>1
    <3> QED
      BY <1>1, <2>2, <3>1, <3>2
  <2> QED
    BY <1>4, <2>2, <2>3 DEF Within
<1>5. CASE step < 0 /\ stop < start
  <2> DEFINE d == start - stop - 1
             b == -step
  <2>1. start - stop \in Ints /\ d \in Nat /\ b \in Nat /\ b > 0
    BY <1>1, <1>5, Word DEF Ints
  <2>2. RangeLen(start, stop, step) = (d \div b) + 1 /\ d \div b \in Nat
    <3>1. Quotient(d, b) = d \div b
      BY <2>1, QuotientOf
    <3>2. Signed(start - stop) = start - stop
      BY <2>1, SignedOfInts
    <3>3. RangeLen(start, stop, step) = Quotient(d, b) + 1
      BY <1>1, <1>5, <3>2 DEF RangeLen
    <3>4. d \div b \in Nat
      BY <2>1, NaturalDivision
    <3> QED
      BY <3>1, <3>3, <3>4
  <2>3. ASSUME NEW k \in Nat
        PROVE  k < (d \div b) + 1 <=> start + k * step > stop
    <3>1. k > d \div b <=> k * b > d
      BY <2>1, DivisionTest
    <3>2. k * b \in Nat /\ k * step = -(k * b)
      BY <1>1, <2>1
    <3> QED
      BY <1>1, <2>2, <3>1, <3>2
  <2> HIDE DEF d, b
  <2>4. ASSUME NEW k \in Nat
        PROVE  Within(start + k * step, stop, step) <=> start + k * step > stop
    BY <1>1, <1>5 DEF Within
  <2>5. (d \div b) + 1 \in Nat
    BY <2>2
  <2> QED
    BY <2>2, <2>3, <2>4, <2>5, Zenon
<1>6. \/ step > 0 /\ stop <= start
      \/ step < 0 /\ stop >= start
      \/ step > 0 /\ start < stop
      \/ step < 0 /\ stop < start
  BY <1>1
<1> QED
  BY <1>2, <1>3, <1>4, <1>5, <1>6, Zenon

\* What divides without a remainder is a multiple.
LEMMA NoRemainder ==
  ASSUME NEW d \in Int, NEW b \in Int, (b > 0 /\ d >= 0) \/ (b < 0 /\ d <= 0)
  PROVE  Remainder(d, b) = 0 <=> \E k \in Nat : d = k * b
<1> DEFINE A == Magnitude(d)
           B == Magnitude(b)
<1>1. PICK q, t \in Nat : A = B * q + t /\ t < B /\ Remainder(d, b) = IF d < 0 THEN -t ELSE t
  <2>1. b # 0
    OBVIOUS
  <2> QED
    BY <2>1, TruncatedDivision, Zenon
<1>2. /\ A = (IF d < 0 THEN -d ELSE d) /\ A \in Nat
      /\ B = (IF b < 0 THEN -b ELSE b) /\ B \in Nat /\ B > 0
  BY DEF Magnitude
<1>3. Remainder(d, b) = 0 <=> t = 0
  BY <1>1
<1> HIDE DEF A, B
<1>4. ASSUME NEW k \in Nat
      PROVE  d = k * b <=> A = B * k
  <2>1. CASE b > 0
    BY <1>2, <2>1
  <2>2. CASE b < 0
    <3>1. k * b = -(B * k) /\ B * k \in Nat
      BY <1>2, <2>2
    <3> QED
      BY <1>2, <2>2, <3>1
  <2> QED
    BY <2>1, <2>2
<1>5. ASSUME t = 0
      PROVE  \E k \in Nat : d = k * b
  <2>1. A = B * q
    BY <1>1, <1>2, <1>5
  <2> QED
    BY <1>1, <1>4, <2>1
<1>6. ASSUME NEW k \in Nat, d = k * b
      PROVE  t = 0
  <2>1. A = B * k
    BY <1>4, <1>6
  <2>2. /\ A \in Int /\ B \in Nat /\ B > 0 /\ k \in Int /\ q \in Int
        /\ 0 \in 0..(B - 1) /\ t \in 0..(B - 1)
        /\ A = B * k + 0
        /\ A = B * q + t
    BY <1>1, <1>2, <2>1
  <2>3. A % B = 0
    BY <2>2, OneRemainder, Zenon
  <2>4. A % B = t
    BY <2>2, OneRemainder, Zenon
  <2> QED
    BY <2>3, <2>4
<1> QED
  BY <1>3, <1>5, <1>6

\* op_contains, in vm_c/ops_compare.c, finds an integer in a range just when it is
\* one of the terms before the stop, as long as the ends are no further apart than
\* INT64_MAX: the range is never walked.
THEOREM RangeContainsExact ==
  ASSUME NEW x \in Ints, NEW start \in Ints, NEW stop \in Ints, NEW step \in Ints, step # 0,
         stop - start \in (-IntMax)..IntMax
  PROVE  RangeContains(x, start, stop, step)
           <=> Within(x, stop, step) /\ \E k \in Nat : x = start + k * step
<1> DEFINE d == x - start
           Before == IF step > 0 THEN d >= 0 ELSE d <= 0
<1>1. x \in Int /\ start \in Int /\ stop \in Int /\ step \in Int /\ d \in Int
  BY Word DEF Ints
<1>2. RangeContains(x, start, stop, step)
        <=> Within(x, stop, step) /\ Before /\ Remainder(Signed(d), step) = 0
  BY <1>1 DEF RangeContains, Within
<1>3. Within(x, stop, step) /\ Before => Signed(d) = d
  <2>1. Within(x, stop, step) /\ Before => d \in Ints
    BY <1>1, Word DEF Within, Ints
  <2> QED
    BY <2>1, SignedOfInts
<1>4. ASSUME NEW k \in Nat
      PROVE  (x = start + k * step <=> d = k * step) /\ (d = k * step => Before)
  <2>1. k * step \in Int
    BY <1>1
  <2>2. step > 0 => k * step >= 0
    BY <1>1
  <2>3. step < 0 => k * step <= 0
    <3> DEFINE b == -step
    <3>1. k * step = -(k * b) /\ (step < 0 => b \in Nat)
      BY <1>1
    <3> HIDE DEF b
    <3>2. step < 0 => k * b \in Nat
      BY <3>1
    <3> QED
      BY <3>1, <3>2
  <2> QED
    BY <1>1, <2>1, <2>2, <2>3
<1>5. Before => (step > 0 /\ d >= 0) \/ (step < 0 /\ d <= 0)
  BY <1>1
<1> HIDE DEF d, Before
<1>6. Before => (Remainder(d, step) = 0 <=> \E k \in Nat : d = k * step)
  BY <1>1, <1>5, NoRemainder, Zenon
<1>7. Within(x, stop, step) /\ Before
        => (Remainder(Signed(d), step) = 0 <=> \E k \in Nat : d = k * step)
  BY <1>3, <1>6
<1>8. (\E k \in Nat : x = start + k * step) <=> Before /\ \E k \in Nat : d = k * step
  BY <1>4
<1> QED
  BY <1>2, <1>7, <1>8

\* repeat_overflows and the four concatenations of vm_c/ops_numeric.c: the length of
\* a repeated or joined sequence is exact, and refused just when it is more than the
\* 32 bits of a length hold.
THEOREM LengthsExact ==
  ASSUME NEW m \in Nat, NEW n \in Nat, NEW count \in Int
  PROVE  LET product == IF count < 0 THEN 0 ELSE m * count
         IN /\ RepeatLen(m, count) = IF product <= LenMax THEN Done(product) ELSE Failed("OVERFLOW")
            /\ ConcatLen(m, n) = IF m + n <= LenMax THEN Done(m + n) ELSE Failed("OVERFLOW")
<1>1. ConcatLen(m, n) = IF m + n <= LenMax THEN Done(m + n) ELSE Failed("OVERFLOW")
  BY LenMaxAssumption DEF ConcatLen, Checked
<1>2. CASE count < 0 \/ m = 0
  <2>1. m * 0 = 0 /\ (m = 0 => m * count = 0)
    OBVIOUS
  <2>2. m # 0 => LenMax \div m >= 0
    BY LenMaxAssumption, NaturalDivision
  <2> QED
    BY LenMaxAssumption, <1>1, <1>2, <2>1, <2>2 DEF RepeatLen
<1>3. CASE count >= 0 /\ m > 0
  <2>1. count > LenMax \div m <=> count * m > LenMax
    BY LenMaxAssumption, <1>3, DivisionTest
  <2>2. count * m = m * count /\ m * count \in Nat
    BY <1>3
  <2> QED
    BY LenMaxAssumption, <1>1, <1>3, <2>1, <2>2 DEF RepeatLen
<1> QED
  BY <1>2, <1>3
=============================================================================
