----------------------------- MODULE NumberProofs -----------------------------
(***************************************************************************)
(* Proofs about the operators that go round a loop or use powers.          *)
(*                                                                         *)
(* They need induction.  The library's rule of induction has an operator   *)
(* for its parameter; Induction says the same of a set of numbers, from    *)
(* the least one that is not in it.                                        *)
(***************************************************************************)
EXTENDS PyNumbers, ArithmeticProofs, Slices, WellFoundedInduction, FiniteSetTheorems

-----------------------------------------------------------------------------
(* Every index a slice visits is an index of the list, for all bounds and  *)
(* steps of the 64-bit range and all lengths: no read or write of           *)
(* vm_c/ops_sequence.c leaves the array.                                    *)

LEMMA IntMaxPositive == IntMax \in Nat \ {0} /\ IntMin \in Int
BY IntMaxAssumption DEF IntMin

\* What truncating division gives back is no more than what was divided.
LEMMA DivisionBounds ==
  ASSUME NEW a \in Nat, NEW b \in Nat, b > 0
  PROVE  a \div b \in Nat /\ (a \div b) * b <= a
<1>1. a \div b \in Int
  OBVIOUS
<1>2. a = b * (a \div b) + (a % b) /\ a % b \in 0..(b - 1)
  OBVIOUS
<1>3. a \div b >= 0
  BY <1>1, <1>2, SMT
<1> QED
  BY <1>1, <1>2, <1>3, SMT

LEMMA MultipleMonotone ==
  ASSUME NEW k \in Nat, NEW q \in Nat, NEW b \in Nat, k <= q
  PROVE  k * b <= q * b
OBVIOUS

\* Clamp brings a bound into the list, or one place past its end in the
\* direction of the step.
LEMMA ClampInList ==
  ASSUME NEW bound \in Int, NEW step \in Int, NEW len \in Nat
  PROVE  /\ step >= 0 => Clamp(bound, step, len) \in 0..len
         /\ step < 0  => Clamp(bound, step, len) \in -1..(len - 1)
BY DEF Clamp

\* Every index of a slice that goes up is between its start and its stop.
LEMMA UpwardIndexes ==
  ASSUME NEW start \in Int, NEW stop \in Int, NEW step \in Nat \ {0},
         NEW k \in Nat, k < Count(start, stop, step)
  PROVE  start + k * step >= start /\ start + k * step < stop
<1> DEFINE d == stop - start - 1
<1>1. start < stop /\ Count(start, stop, step) = (d \div step) + 1
  BY DEF Count
<1>2. d \in Nat
  BY <1>1
<1>3. d \div step \in Nat /\ (d \div step) * step <= d
  BY <1>2, DivisionBounds
<1> HIDE DEF d
<1>4. k <= d \div step
  BY <1>1, <1>3
<1>5. k * step <= (d \div step) * step
  BY <1>3, <1>4, MultipleMonotone
<1>6. k * step \in Nat /\ (d \div step) * step \in Nat
  BY <1>3
<1>7. k * step <= d
  BY <1>2, <1>3, <1>5, <1>6
<1> QED
  BY <1>2, <1>6, <1>7 DEF d

\* And of one that goes down.
LEMMA DownwardIndexes ==
  ASSUME NEW start \in Int, NEW stop \in Int, NEW step \in Int, step < 0,
         NEW k \in Nat, k < Count(start, stop, step)
  PROVE  start + k * step <= start /\ start + k * step > stop
<1> DEFINE d == start - stop - 1
           b == -step
<1>1. stop < start /\ Count(start, stop, step) = (d \div b) + 1
  BY DEF Count
<1>2. d \in Nat /\ b \in Nat /\ b > 0
  BY <1>1
<1>3. d \div b \in Nat /\ (d \div b) * b <= d
  BY <1>2, DivisionBounds
<1>4. k * step = -(k * b)
  OBVIOUS
<1> HIDE DEF d, b
<1>5. k <= d \div b
  BY <1>1, <1>3
<1>6. k * b <= (d \div b) * b
  BY <1>2, <1>3, <1>5, MultipleMonotone
<1>7. k * b \in Nat /\ (d \div b) * b \in Nat
  BY <1>2, <1>3
<1>8. k * b <= d
  BY <1>2, <1>3, <1>6, <1>7
<1> QED
  BY <1>4, <1>7, <1>8 DEF d

LEMMA CountIsNatural ==
  ASSUME NEW start \in Int, NEW stop \in Int, NEW step \in Int \ {0}
  PROVE  Count(start, stop, step) \in Nat
<1>1. CASE step < 0 /\ stop < start
  <2>1. start - stop - 1 \in Nat /\ -step \in Nat /\ -step > 0
    BY <1>1
  <2> QED
    BY <1>1, <2>1, DivisionBounds DEF Count
<1>2. CASE step > 0 /\ start < stop
  <2>1. stop - start - 1 \in Nat /\ step \in Nat
    BY <1>2
  <2> QED
    BY <1>2, <2>1, DivisionBounds DEF Count
<1> QED
  BY <1>1, <1>2 DEF Count

\* The first and last bound of a slice are integers, given or not.
OptInts == Ints \cup {Absent}

\* adjust_slice yields a count that is not negative, and every index the loops of
\* op_get_slice, op_store_slice and op_delete_slice compute from it is one of the
\* list's: no access outside its array, whatever the bounds, the step and the
\* length.
THEOREM SliceInList ==
  ASSUME NEW start_val \in OptInts, NEW stop_val \in OptInts, NEW step \in Int \ {0},
         NEW len \in Nat
  PROVE  LET s == AdjustSlice(start_val, stop_val, step, len)
         IN /\ s.count \in Nat
            /\ \A k \in 0..(s.count - 1) : s.start + k * step \in 0..(len - 1)
<1> DEFINE first == IF start_val # Absent THEN start_val ELSE IF step < 0 THEN IntMax ELSE 0
           last  == IF stop_val # Absent THEN stop_val ELSE IF step < 0 THEN IntMin ELSE IntMax
           start == Clamp(first, step, len)
           stop  == Clamp(last, step, len)
           s     == AdjustSlice(start_val, stop_val, step, len)
<1>1. first \in Int /\ last \in Int
  BY IntMaxPositive DEF OptInts, Ints
<1>2. s.start = start /\ s.count = Count(start, stop, step)
  BY DEF AdjustSlice
<1> HIDE DEF first, last
<1>3. /\ step >= 0 => start \in 0..len /\ stop \in 0..len
      /\ step < 0  => start \in -1..(len - 1) /\ stop \in -1..(len - 1)
  BY <1>1, ClampInList
<1>4. start \in Int /\ stop \in Int
  BY <1>3
<1> HIDE DEF start, stop, s
<1>5. s.count \in Nat
  BY <1>2, <1>4, CountIsNatural
<1>6. ASSUME NEW k \in 0..(s.count - 1)
      PROVE  s.start + k * step \in 0..(len - 1)
  <2>1. k \in Nat /\ k < Count(start, stop, step)
    BY <1>2, <1>5
  <2>2. k * step \in Int
    OBVIOUS
  <2>3. CASE step > 0
    <3>1. start + k * step >= start /\ start + k * step < stop
      BY <2>1, <2>3, <1>4, UpwardIndexes
    <3> QED
      BY <3>1, <2>2, <2>3, <1>2, <1>3
  <2>4. CASE step < 0
    <3>1. start + k * step <= start /\ start + k * step > stop
      BY <2>1, <2>4, <1>4, DownwardIndexes
    <3> QED
      BY <3>1, <2>2, <2>4, <1>2, <1>3
  <2> QED
    BY <2>3, <2>4
<1> QED
  BY <1>5, <1>6 DEF s

LEMMA StepOfNotZero ==
  ASSUME NEW step_val \in OptInts, StepOf(step_val) # 0
  PROVE  StepOf(step_val) \in Int \ {0}
BY IntMaxPositive DEF StepOf, OptInts, Ints

\* op_get_slice takes every item of its result from the list.
THEOREM SliceOfItems ==
  ASSUME NEW T, NEW items \in Seq(T), NEW start_val \in OptInts, NEW stop_val \in OptInts,
         NEW step_val \in OptInts, GetSlice(items, start_val, stop_val, step_val).error = "OK"
  PROVE  GetSlice(items, start_val, stop_val, step_val).value \in Seq(T)
<1> DEFINE step == StepOf(step_val)
           s    == AdjustSlice(start_val, stop_val, step, Len(items))
           got  == [k \in 1..s.count |-> items[s.start + (k - 1) * step + 1]]
<1>1. step # 0 /\ GetSlice(items, start_val, stop_val, step_val).value = got
  BY DEF GetSlice, Done, Failed
<1>2. step \in Int \ {0}
  BY <1>1, StepOfNotZero
<1>3. Len(items) \in Nat
  OBVIOUS
<1>4. s.count \in Nat /\ \A k \in 0..(s.count - 1) : s.start + k * step \in 0..(Len(items) - 1)
  BY <1>2, <1>3, SliceInList
<1> HIDE DEF s, step
<1>5. ASSUME NEW k \in 1..s.count
      PROVE  items[s.start + (k - 1) * step + 1] \in T
  <2> DEFINE i == s.start + (k - 1) * step
  <2>1. k - 1 \in 0..(s.count - 1)
    BY <1>4
  <2>2. i \in 0..(Len(items) - 1)
    BY <1>4, <2>1
  <2> HIDE DEF i
  <2>3. i + 1 \in 1..Len(items)
    BY <2>2
  <2>4. items[i + 1] \in T
    BY <2>3
  <2> QED
    BY <2>4 DEF i
<1>6. got \in Seq(T)
  BY <1>4, <1>5
<1> QED
  BY <1>1, <1>6

LEMMA ConcatLength ==
  ASSUME NEW T, NEW a \in Seq(T), NEW b \in Seq(T)
  PROVE  a \o b \in Seq(T) /\ Len(a \o b) = Len(a) + Len(b) /\ Len(a) \in Nat /\ Len(b) \in Nat
OBVIOUS

\* list_replace_range puts the new items in the place of count others.
LEMMA ReplaceRangeLength ==
  ASSUME NEW T, NEW list \in Seq(T), NEW items \in Seq(T), NEW start \in Nat, NEW count \in Nat,
         start + count <= Len(list)
  PROVE  /\ ReplaceRange(list, start, count, items) \in Seq(T)
         /\ Len(ReplaceRange(list, start, count, items)) = Len(list) - count + Len(items)
<1> DEFINE before == SubSeq(list, 1, start)
           after  == SubSeq(list, start + count + 1, Len(list))
<1>1. before \in Seq(T) /\ Len(before) = start
  OBVIOUS
<1>2. after \in Seq(T) /\ Len(after) = Len(list) - start - count
  OBVIOUS
<1> HIDE DEF before, after
<1>3. before \o items \in Seq(T) /\ Len(before \o items) = start + Len(items)
  BY <1>1, ConcatLength
<1>4. (before \o items) \o after \in Seq(T)
      /\ Len((before \o items) \o after) = Len(before \o items) + Len(after)
  BY <1>2, <1>3, ConcatLength
<1>5. Len(list) \in Nat /\ Len(items) \in Nat
  BY ConcatLength
<1>6. Len((before \o items) \o after) = Len(list) - count + Len(items)
  BY <1>2, <1>3, <1>4, <1>5
<1> QED
  BY <1>4, <1>6 DEF ReplaceRange, before, after

\* A store to a slice with a step keeps the length of the list, one without
\* changes it by what it puts in less what it takes out: op_store_slice.
THEOREM StoreSliceLength ==
  ASSUME NEW T, NEW list \in Seq(T), NEW items \in Seq(T), NEW start_val \in OptInts,
         NEW stop_val \in OptInts, NEW step_val \in OptInts,
         StoreSlice(list, start_val, stop_val, step_val, items).error = "OK"
  PROVE  LET stored == StoreSlice(list, start_val, stop_val, step_val, items).value
             step   == StepOf(step_val)
             s      == AdjustSlice(start_val, stop_val, step, Len(list))
         IN Len(stored) = IF step = 1 THEN Len(list) - s.count + Len(items) ELSE Len(list)
<1> DEFINE stored == StoreSlice(list, start_val, stop_val, step_val, items).value
           step   == StepOf(step_val)
           s      == AdjustSlice(start_val, stop_val, step, Len(list))
<1>1. step # 0
  BY DEF StoreSlice, Failed
<1>2. step \in Int \ {0}
  BY <1>1, StepOfNotZero
<1>3. Len(list) \in Nat
  OBVIOUS
<1>4. s.count \in Nat /\ \A k \in 0..(s.count - 1) : s.start + k * step \in 0..(Len(list) - 1)
  BY <1>2, <1>3, SliceInList
<1>5. CASE step = 1
  <2>1. stored = ReplaceRange(list, s.start, s.count, items)
    BY <1>5 DEF StoreSlice, Done
  <2>2. s.start \in 0..Len(list)
    <3> DEFINE first == IF start_val # Absent THEN start_val ELSE 0
    <3>1. s.start = Clamp(first, step, Len(list))
      BY <1>5 DEF AdjustSlice
    <3>2. first \in Int
      BY IntMaxPositive DEF OptInts, Ints
    <3> HIDE DEF s, step, first
    <3>3. step \in Int /\ step >= 0
      BY <1>5
    <3>4. Clamp(first, step, Len(list)) \in 0..Len(list)
      BY <3>2, <3>3, <1>3, ClampInList
    <3> QED
      BY <3>1, <3>4
  <2> HIDE DEF s, step
  <2>3. s.start + s.count <= Len(list)
    <3>1. CASE s.count = 0
      BY <3>1, <2>2
    <3>2. CASE s.count > 0
      <4>1. s.count - 1 \in 0..(s.count - 1)
        BY <3>2, <1>4
      <4>2. s.start + (s.count - 1) * 1 \in 0..(Len(list) - 1)
        BY <4>1, <1>4, <1>5
      <4> QED
        BY <4>2, <2>2, <1>4
    <3> QED
      BY <3>1, <3>2, <1>4
  <2>4. s.start \in Nat /\ s.count \in Nat
    BY <2>2, <1>3, <1>4
  <2>5. Len(ReplaceRange(list, s.start, s.count, items)) = Len(list) - s.count + Len(items)
    <3> HIDE DEF stored
    <3> QED
      BY <2>3, <2>4, ReplaceRangeLength
  <2> HIDE DEF stored
  <2> QED
    BY <2>1, <2>5, <1>5 DEF s, step, stored
<1>6. CASE step # 1
  <2>1. stored = [i \in 1..Len(list) |->
                   IF {k \in 0..(s.count - 1) : i - 1 = s.start + k * step} = {} THEN list[i]
                   ELSE items[(CHOOSE k \in {k \in 0..(s.count - 1) : i - 1 = s.start + k * step} : TRUE) + 1]]
    BY <1>1, <1>6 DEF StoreSlice, Done, Failed
  <2> HIDE DEF stored, s, step
  <2>2. stored = [i \in 1..Len(list) |-> stored[i]]
    BY <2>1
  <2>3. Len(stored) = Len(list)
    BY <2>2, <1>3
  <2> QED
    BY <2>3, <1>6 DEF stored, s, step
<1> QED
  BY <1>5, <1>6

-----------------------------------------------------------------------------
(* Induction and recursion. *)

LEMMA LeastNumber ==
  ASSUME NEW T, T \subseteq Nat, T # {}
  PROVE  \E x \in T : \A y \in T : x <= y
<1>1. PICK x \in T : \A y \in T : <<y, x>> \notin OpToRel(<, Nat)
  BY WFMin, NatLessThanWellFounded, Zenon
<1>2. \A y \in T : ~(y < x)
  BY <1>1, Zenon DEF OpToRel
<1> QED
  BY <1>2

LEMMA Induction ==
  ASSUME NEW S, 0 \in S, \A n \in Nat : n \in S => n + 1 \in S
  PROVE  \A n \in Nat : n \in S
<1> DEFINE T == {n \in Nat : n \notin S}
<1> SUFFICES ASSUME T # {} PROVE FALSE
  OBVIOUS
<1>1. PICK x \in T : \A y \in T : x <= y
  <2> HIDE DEF T
  <2> QED
    BY LeastNumber DEF T
<1>2. x # 0
  OBVIOUS
<1>3. x - 1 \in Nat /\ x - 1 \notin T /\ x - 1 + 1 = x
  BY <1>1, <1>2
<1> QED
  BY <1>3

\* f starts with s and goes on by G, up to n.
Iterates(f, G, s, n) == f[0] = s /\ \A i \in 0..(n - 1) : f[i + 1] = G[f[i]]

LEMMA IteratesAgree ==
  ASSUME NEW G, NEW s, NEW m \in Nat, NEW n \in Nat, NEW f, NEW g,
         Iterates(f, G, s, m), Iterates(g, G, s, n)
  PROVE  \A i \in Nat : i <= m /\ i <= n => f[i] = g[i]
<1> DEFINE S == {i \in Nat : i <= m /\ i <= n => f[i] = g[i]}
<1>1. 0 \in S
  BY DEF Iterates
<1>2. ASSUME NEW i \in Nat, i \in S PROVE i + 1 \in S
  BY <1>2 DEF Iterates
<1>3. \A i \in Nat : i \in S
  <2> HIDE DEF S
  <2> QED
    BY <1>1, <1>2, Induction
<1> QED
  BY <1>3

IsIteration(f, S, G, s) == f \in [Nat -> S] /\ f[0] = s /\ \A i \in Nat : f[i + 1] = G[f[i]]

\* There is a sequence that starts with s and goes on by G.
LEMMA Recursion ==
  ASSUME NEW S, NEW G \in [S -> S], NEW s \in S
  PROVE  \E f : IsIteration(f, S, G, s)
<1> DEFINE T == {n \in Nat : \E f \in [Nat -> S] : Iterates(f, G, s, n)}
<1>1. 0 \in T
  <2>1. [i \in Nat |-> s] \in [Nat -> S] /\ Iterates([i \in Nat |-> s], G, s, 0)
    BY DEF Iterates
  <2> QED
    BY <2>1
<1>2. ASSUME NEW n \in Nat, n \in T PROVE n + 1 \in T
  <2>1. PICK f \in [Nat -> S] : Iterates(f, G, s, n)
    BY <1>2
  <2> DEFINE g == [f EXCEPT ![n + 1] = G[f[n]]]
  <2>2. g \in [Nat -> S]
    OBVIOUS
  <2>3. Iterates(g, G, s, n + 1)
    <3>1. g[0] = s
      BY <2>1 DEF Iterates
    <3>2. ASSUME NEW i \in 0..(n + 1 - 1) PROVE g[i + 1] = G[g[i]]
      <4>1. CASE i = n
        BY <4>1
      <4>2. CASE i # n
        BY <2>1, <4>2 DEF Iterates
      <4> QED
        BY <4>1, <4>2
    <3> QED
      BY <3>1, <3>2 DEF Iterates
  <2> HIDE DEF g
  <2> QED
    BY <2>2, <2>3
<1>3. \A n \in Nat : n \in T
  <2> HIDE DEF T
  <2> QED
    BY <1>1, <1>2, Induction
<1> DEFINE of(n) == CHOOSE g \in [Nat -> S] : Iterates(g, G, s, n)
<1>4. \A n \in Nat : of(n) \in [Nat -> S] /\ Iterates(of(n), G, s, n)
  BY <1>3
<1> HIDE DEF of
<1> DEFINE f == [n \in Nat |-> of(n)[n]]
<1>5. f \in [Nat -> S] /\ f[0] = s
  BY <1>4 DEF Iterates
<1>6. ASSUME NEW i \in Nat PROVE f[i + 1] = G[f[i]]
  <2>1. of(i + 1)[i] = of(i)[i]
    BY <1>4, IteratesAgree
  <2>2. of(i + 1)[i + 1] = G[of(i + 1)[i]]
    BY <1>4 DEF Iterates
  <2> QED
    BY <2>1, <2>2
<1> QED
  BY <1>5, <1>6 DEF IsIteration

-----------------------------------------------------------------------------
(* Powers. *)

LEMMA PowerDef ==
  ASSUME NEW base \in Int
  PROVE  /\ Power(base, 0) = 1
         /\ \A n \in Nat : Power(base, n) \in Int /\ Power(base, n + 1) = base * Power(base, n)
<1> DEFINE G == [x \in Int |-> base * x]
           Is(p) == p = [i \in Nat |-> IF i = 0 THEN 1 ELSE base * p[i - 1]]
           power == CHOOSE p : Is(p)
<1>1. PICK f : IsIteration(f, Int, G, 1)
  <2>1. G \in [Int -> Int] /\ 1 \in Int
    OBVIOUS
  <2> HIDE DEF G
  <2> QED
    BY <2>1, Recursion
<1>2. Is(f)
  <2> USE DEF IsIteration
  <2>1. ASSUME NEW i \in Nat PROVE f[i] = IF i = 0 THEN 1 ELSE base * f[i - 1]
    <3>1. CASE i = 0
      BY <1>1, <3>1
    <3>2. CASE i # 0
      <4>1. i - 1 \in Nat /\ i - 1 + 1 = i
        BY <3>2
      <4>2. f[i] = G[f[i - 1]]
        BY <1>1, <4>1
      <4>3. f[i - 1] \in Int
        BY <1>1, <4>1
      <4> QED
        BY <3>2, <4>2, <4>3
    <3> QED
      BY <3>1, <3>2
  <2> QED
    BY <2>1, <1>1
<1>3. Is(power)
  <2> HIDE DEF Is
  <2> QED
    BY <1>2
<1>4. \A n : Power(base, n) = power[n]
  BY Zenon DEF Power
<1> HIDE DEF power, G
<1>5. /\ power[0] = 1
      /\ \A n \in Nat : power[n + 1] = base * power[n]
  BY <1>3
<1> DEFINE S == {n \in Nat : power[n] \in Int}
<1>6. \A n \in Nat : n \in S
  <2>1. 0 \in S
    BY <1>5
  <2>2. ASSUME NEW n \in Nat, n \in S PROVE n + 1 \in S
    BY <1>5, <2>2
  <2> HIDE DEF S
  <2> QED
    BY <2>1, <2>2, Induction
<1> QED
  BY <1>4, <1>5, <1>6

LEMMA PowerOne ==
  ASSUME NEW base \in Int
  PROVE  Power(base, 1) = base
<1>1. PICK k \in Nat : k = 0
  OBVIOUS
<1>2. Power(base, k + 1) = base * Power(base, k)
  BY PowerDef
<1> QED
  BY <1>1, <1>2, PowerDef

LEMMA PowerPositive ==
  ASSUME NEW base \in Nat \ {0}, NEW n \in Nat
  PROVE  Power(base, n) \in Nat \ {0}
<1> DEFINE S == {k \in Nat : Power(base, k) \in Nat \ {0}}
<1>1. 0 \in S
  <2>1. base \in Int
    OBVIOUS
  <2>2. Power(base, 0) = 1
    BY <2>1, PowerDef
  <2> QED
    BY <2>2
<1>2. ASSUME NEW k \in Nat, k \in S PROVE k + 1 \in S
  <2>1. base \in Int
    OBVIOUS
  <2>2. Power(base, k + 1) = base * Power(base, k)
    BY <2>1, PowerDef
  <2> QED
    BY <1>2, <2>2
<1>3. \A k \in Nat : k \in S
  <2> HIDE DEF S
  <2> QED
    BY <1>1, <1>2, Induction
<1> QED
  BY <1>3

LEMMA PowerSum ==
  ASSUME NEW base \in Int, NEW m \in Nat, NEW n \in Nat
  PROVE  Power(base, m + n) = Power(base, m) * Power(base, n)
<1> DEFINE S == {k \in Nat : Power(base, m + k) = Power(base, m) * Power(base, k)}
<1>1. 0 \in S
  BY PowerDef
<1>2. ASSUME NEW k \in Nat, k \in S PROVE k + 1 \in S
  <2> DEFINE x == Power(base, m)
             y == Power(base, k)
             z == Power(base, m + k)
  <2>1. m + k \in Nat /\ x \in Int /\ y \in Int /\ z \in Int
    <3>1. m + k \in Nat
      OBVIOUS
    <3> QED
      BY <3>1, PowerDef
  <2>2. Power(base, k + 1) = base * y /\ Power(base, (m + k) + 1) = base * z
    BY <2>1, PowerDef
  <2>3. z = x * y /\ m + (k + 1) = (m + k) + 1
    BY <1>2
  <2> HIDE DEF x, y, z
  <2>4. base * z = x * (base * y)
    BY <2>1, <2>3
  <2> QED
    BY <2>2, <2>3, <2>4 DEF x
<1>3. \A k \in Nat : k \in S
  <2> HIDE DEF S
  <2> QED
    BY <1>1, <1>2, Induction
<1> QED
  BY <1>3

LEMMA PowerMonotone ==
  ASSUME NEW base \in Nat \ {0}, NEW m \in Nat, NEW n \in Nat, m <= n
  PROVE  Power(base, m) <= Power(base, n)
<1> DEFINE x == Power(base, m)
           y == Power(base, n - m)
<1>1. x \in Nat \ {0} /\ y \in Nat \ {0}
  BY PowerPositive
<1>2. m + (n - m) = n /\ n - m \in Nat
  OBVIOUS
<1>3. Power(base, n) = x * y
  BY <1>2, PowerSum
<1> HIDE DEF x, y
<1>4. x * y >= x
  BY <1>1
<1> QED
  BY <1>3, <1>4 DEF x

LEMMA PowerOfSquare ==
  ASSUME NEW base \in Int, NEW n \in Nat
  PROVE  Power(base, 2 * n) = Power(base * base, n)
<1> DEFINE S == {k \in Nat : Power(base, 2 * k) = Power(base * base, k)}
<1>1. 0 \in S
  BY PowerDef
<1>2. ASSUME NEW k \in Nat, k \in S PROVE k + 1 \in S
  <2> DEFINE x == Power(base, 2 * k)
  <2>1. x \in Int /\ base * base \in Int
    BY PowerDef
  <2>2. Power(base * base, k + 1) = (base * base) * Power(base * base, k)
    BY <2>1, PowerDef
  <2>3. 2 * k \in Nat /\ 2 * k + 1 \in Nat /\ 2 * (k + 1) = (2 * k + 1) + 1
    OBVIOUS
  <2>4. Power(base, (2 * k + 1) + 1) = base * Power(base, 2 * k + 1) /\ Power(base, 2 * k + 1) = base * x
    BY <2>3, PowerDef
  <2>5. Power(base * base, k) = x
    BY <1>2
  <2> HIDE DEF x
  <2>6. base * (base * x) = (base * base) * x
    BY <2>1
  <2> QED
    BY <2>2, <2>3, <2>4, <2>5, <2>6
<1>3. \A k \in Nat : k \in S
  <2> HIDE DEF S
  <2> QED
    BY <1>1, <1>2, Induction
<1> QED
  BY <1>3

\* The powers of -1, 0 and 1.
LEMMA SmallPowers ==
  ASSUME NEW base \in -1..1, NEW n \in Nat
  PROVE  Power(base, n) \in -1..1
<1> DEFINE S == {k \in Nat : Power(base, k) \in -1..1}
<1>1. 0 \in S
  BY PowerDef
<1>2. ASSUME NEW k \in Nat, k \in S PROVE k + 1 \in S
  <2>1. Power(base, k + 1) = base * Power(base, k)
    BY PowerDef
  <2>2. base \in {-1, 0, 1}
    OBVIOUS
  <2> QED
    BY <1>2, <2>1, <2>2
<1>3. \A k \in Nat : k \in S
  <2> HIDE DEF S
  <2> QED
    BY <1>1, <1>2, Induction
<1> QED
  BY <1>3

\* The word has Bits bits.
LEMMA WordSize == Power(2, Bits) = 2 * (IntMax + 1) /\ IntMax \in Nat \ {0} /\ Bits \in Nat \ {0}
<1>1. PICK k \in Nat : k = Bits - 1
  BY BitsAssumption
<1>2. Power(2, k + 1) = 2 * Power(2, k) /\ Power(2, k) \in Int
  BY PowerDef
<1> QED
  BY <1>1, <1>2, BitsAssumption, IntMaxAssumption

-----------------------------------------------------------------------------
(* int_pow. *)

LEMMA MulOverflowsExact ==
  ASSUME NEW a \in Ints, NEW b \in Ints
  PROVE  MulOverflows(a, b) <=> a * b \notin Ints
<1>1. Mul(a, b) = Exactly(a * b)
  BY MulExact
<1> QED
  BY <1>1 DEF Mul, Exactly, Done, Failed

\* What is out of range stays so when it is multiplied by a positive number.
LEMMA ProductBeyond ==
  ASSUME NEW x \in Int, NEW y \in Nat \ {0}, x \notin Ints
  PROVE  x * y \notin Ints
<1>1. CASE x > IntMax
  <2>1. x * y >= x
    BY <1>1, Word
  <2> QED
    BY <1>1, <2>1, Word DEF Ints
<1>2. CASE x < IntMin
  <2>1. (-x) * y >= -x
    BY <1>2, Word
  <2>2. (-x) * y = -(x * y)
    OBVIOUS
  <2> QED
    BY <1>2, <2>1, <2>2, Word DEF Ints
<1> QED
  BY <1>1, <1>2, Word DEF Ints

LEMMA SquarePositive ==
  ASSUME NEW b \in Int, b # 0
  PROVE  b * b \in Nat \ {0}
<1>1. CASE b > 0
  BY <1>1
<1>2. CASE b < 0
  <2>1. (-b) * (-b) \in Nat \ {0}
    BY <1>2
  <2>2. (-b) * (-b) = b * b
    OBVIOUS
  <2> QED
    BY <2>1, <2>2
<1> QED
  BY <1>1, <1>2

\* Factors of at least 2 in magnitude have a product of at least 2.
LEMMA ProductOfTwo ==
  ASSUME NEW x \in Int, NEW y \in Int, x >= 2 \/ x <= -2, y >= 2 \/ y <= -2
  PROVE  x * y >= 2 \/ x * y <= -2
<1>1. ASSUME NEW p \in Nat, NEW q \in Nat, p >= 2, q >= 2 PROVE p * q >= 2
  <2>1. p * q >= p
    BY <1>1
  <2> QED
    BY <1>1, <2>1
<1>2. CASE x >= 2 /\ y >= 2
  BY <1>1, <1>2
<1>3. CASE x >= 2 /\ y <= -2
  <2>1. x * (-y) >= 2 /\ x * (-y) = -(x * y)
    BY <1>1, <1>3
  <2> QED
    BY <2>1
<1>4. CASE x <= -2 /\ y >= 2
  <2>1. (-x) * y >= 2 /\ (-x) * y = -(x * y)
    BY <1>1, <1>4
  <2> QED
    BY <2>1
<1>5. CASE x <= -2 /\ y <= -2
  <2>1. (-x) * (-y) >= 2 /\ (-x) * (-y) = x * y
    BY <1>1, <1>5
  <2> QED
    BY <2>1
<1> QED
  BY <1>2, <1>3, <1>4, <1>5

\* A square out of range stays so under a factor that is 1 or no less than 2 in magnitude.
LEMMA SquareBeyond ==
  ASSUME NEW b \in Int, b * b \notin Ints, NEW r \in Int, r = 1 \/ r >= 2 \/ r <= -2,
         NEW y \in Nat \ {0}
  PROVE  r * ((b * b) * y) \notin Ints
<1> DEFINE q == b * b
<1>1. b # 0
  BY Word DEF Ints
<1>2. q \in Nat /\ q > IntMax
  BY <1>1, SquarePositive, Word DEF Ints
<1> HIDE DEF q
<1>3. q * y \in Nat /\ q * y > IntMax
  <2>1. q * y >= q
    BY <1>2
  <2> QED
    BY <1>2, <2>1, Word
<1> DEFINE p == q * y
<1>4. p \in Nat /\ p > IntMax
  BY <1>3
<1> HIDE DEF p
<1>5. r * p \notin Ints
  <2>1. CASE r >= 1
    <3>1. r * p >= p
      BY <1>4, <2>1
    <3> QED
      BY <1>4, <3>1, Word DEF Ints
  <2>2. CASE r <= -2
    <3>1. (-r) * p >= 2 * p /\ (-r) * p = -(r * p)
      BY <1>4, <2>2
    <3> QED
      BY <1>4, <3>1, Word DEF Ints
  <2> QED
    BY <2>1, <2>2
<1> QED
  BY <1>5 DEF p, q

PowStates == [base : Int, exp : Nat, result : Int, over : BOOLEAN]

LEMMA Halving ==
  ASSUME NEW e \in Nat
  PROVE  /\ e \div 2 \in Nat /\ e % 2 \in 0..1
         /\ e = 2 * (e \div 2) + (e % 2)
         /\ e % 2 # 1 => e % 2 = 0
OBVIOUS

PowNext(s, r, b, e) == [s EXCEPT !.result = r, !.base = b, !.exp = e]

LEMMA PowFields ==
  ASSUME NEW s \in PowStates, NEW r \in Int, NEW b \in Int, NEW e \in Nat
  PROVE  LET t == PowNext(s, r, b, e)
         IN t \in PowStates /\ t.result = r /\ t.base = b /\ t.exp = e /\ t.over = s.over
BY DEF PowStates, PowNext

LEMMA PowOver ==
  ASSUME NEW s \in PowStates
  PROVE  LET t == [s EXCEPT !.over = TRUE]
         IN t \in PowStates /\ t.over
BY DEF PowStates

\* What a turn of the loop does: nothing more, an overflow, or a square.
LEMMA PowStepCases ==
  ASSUME NEW s \in PowStates
  PROVE  LET times  == s.exp % 2 = 1
             rest   == s.exp \div 2
             result == IF times THEN s.result * s.base ELSE s.result
             base   == IF rest > 0 THEN s.base * s.base ELSE s.base
             over   == \/ times /\ MulOverflows(s.result, s.base)
                       \/ rest > 0 /\ MulOverflows(s.base, s.base)
             t      == PowStep(s)
         IN /\ t \in PowStates
            /\ s.exp = 0 \/ s.over => t = s
            /\ s.exp # 0 /\ ~s.over /\ over => t.over
            /\ s.exp # 0 /\ ~s.over /\ ~over =>
                 ~t.over /\ t.result = result /\ t.base = base /\ t.exp = rest
<1> DEFINE times  == s.exp % 2 = 1
           rest   == s.exp \div 2
           result == IF times THEN s.result * s.base ELSE s.result
           base   == IF rest > 0 THEN s.base * s.base ELSE s.base
           over   == \/ times /\ MulOverflows(s.result, s.base)
                     \/ rest > 0 /\ MulOverflows(s.base, s.base)
<1>1. s.base \in Int /\ s.exp \in Nat /\ s.result \in Int
  BY DEF PowStates
<1>2. result \in Int /\ base \in Int /\ rest \in Nat
  BY <1>1, Halving
<1>3. PowStep(s) = IF s.exp = 0 \/ s.over THEN s
                   ELSE IF over THEN [s EXCEPT !.over = TRUE]
                   ELSE PowNext(s, result, base, rest)
  BY DEF PowStep, PowNext
<1> HIDE DEF times, rest, result, base, over
<1>4. LET t == [s EXCEPT !.over = TRUE] IN t \in PowStates /\ t.over
  BY PowOver
<1>5. LET t == PowNext(s, result, base, rest)
      IN t \in PowStates /\ t.result = result /\ t.base = base /\ t.exp = rest /\ t.over = s.over
  BY <1>2, PowFields
<1>6. /\ PowStep(s) \in PowStates
      /\ s.exp = 0 \/ s.over => PowStep(s) = s
      /\ s.exp # 0 /\ ~s.over /\ over => PowStep(s).over
      /\ s.exp # 0 /\ ~s.over /\ ~over =>
           /\ ~PowStep(s).over /\ PowStep(s).result = result
           /\ PowStep(s).base = base /\ PowStep(s).exp = rest
  BY <1>3, <1>4, <1>5
<1> QED
  BY <1>6 DEF times, rest, result, base, over

\* The loop as a sequence of states.
LEMMA PowLoop ==
  ASSUME NEW s \in PowStates, NEW n \in Nat
  PROVE  \E f : /\ f \in [Nat -> PowStates] /\ f[0] = s
                /\ \A i \in Nat : f[i + 1] = PowStep(f[i])
                /\ Loop(PowStep, s, n) = f[n]
<1> DEFINE G == [x \in PowStates |-> PowStep(x)]
           Is(p) == p = [i \in 0..n |-> IF i = 0 THEN s ELSE PowStep(p[i - 1])]
           after == CHOOSE p : Is(p)
<1>1. PICK f : IsIteration(f, PowStates, G, s)
  <2>1. G \in [PowStates -> PowStates]
    BY PowStepCases
  <2> HIDE DEF G
  <2> QED
    BY <2>1, Recursion
<1>2. f \in [Nat -> PowStates] /\ f[0] = s /\ \A i \in Nat : f[i + 1] = PowStep(f[i])
  BY <1>1 DEF IsIteration
<1>3. Is([i \in 0..n |-> f[i]])
  <2> DEFINE p == [i \in 0..n |-> f[i]]
  <2>1. ASSUME NEW i \in 0..n PROVE f[i] = IF i = 0 THEN s ELSE PowStep(p[i - 1])
    <3>1. CASE i = 0
      BY <1>2, <3>1
    <3>2. CASE i # 0
      <4>1. i - 1 \in Nat /\ i - 1 \in 0..n /\ (i - 1) + 1 = i
        BY <3>2
      <4>2. f[(i - 1) + 1] = PowStep(f[i - 1])
        BY <1>2, <4>1
      <4> QED
        BY <3>2, <4>1, <4>2
    <3> QED
      BY <3>1, <3>2
  <2> QED
    BY <2>1
<1>4. Is(after)
  <2> HIDE DEF Is
  <2> QED
    BY <1>3
<1>5. Loop(PowStep, s, n) = after[n]
  BY Zenon DEF Loop
<1> HIDE DEF after
<1> DEFINE S == {i \in Nat : i <= n => after[i] = f[i]}
<1>6. \A i \in Nat : i \in S
  <2>1. 0 \in S
    BY <1>2, <1>4
  <2>2. ASSUME NEW i \in Nat, i \in S PROVE i + 1 \in S
    <3> SUFFICES ASSUME i + 1 <= n PROVE after[i + 1] = f[i + 1]
      OBVIOUS
    <3>1. i + 1 \in 0..n /\ i + 1 # 0 /\ (i + 1) - 1 = i
      OBVIOUS
    <3>2. after[i + 1] = PowStep(after[i])
      BY <1>4, <3>1
    <3> QED
      BY <1>2, <2>2, <3>2
  <2> HIDE DEF S
  <2> QED
    BY <2>1, <2>2, Induction
<1> QED
  BY <1>2, <1>5, <1>6

\* Not between -1 and 1.
Big(x) == x >= 2 \/ x <= -2

\* After k turns towards a to the power b.
PowInv(s, k, a, b) ==
  IF s.over THEN Power(a, b) \notin Ints
  ELSE /\ s.base \in Ints /\ s.result \in Ints
       /\ s.result * Power(s.base, s.exp) = Power(a, b)
       /\ s.exp * Power(2, k) <= b
       /\ Big(s.base) => s.result = 1 \/ Big(s.result)

LEMMA BigSquare ==
  ASSUME NEW x \in Int, x * x >= 2 \/ x * x <= -2
  PROVE  Big(x)
<1>1. x \notin {-1, 0, 1}
  OBVIOUS
<1> QED
  BY <1>1 DEF Big

\* base ^ exp by the square of the base.
LEMMA PowerHalved ==
  ASSUME NEW base \in Int, NEW exp \in Nat
  PROVE  /\ Power(base * base, exp \div 2) \in Int
         /\ Power(base, exp) = (IF exp % 2 = 1 THEN base ELSE 1) * Power(base * base, exp \div 2)
<1> DEFINE rest == exp \div 2
<1>1. rest \in Nat /\ exp % 2 \in 0..1 /\ exp = 2 * rest + (exp % 2)
  BY Halving
<1>2. 2 * rest \in Nat /\ base * base \in Int
  BY <1>1
<1>3. Power(base, 2 * rest) = Power(base * base, rest) /\ Power(base * base, rest) \in Int
  BY <1>1, <1>2, PowerDef, PowerOfSquare
<1>4. CASE exp % 2 = 1
  <2>1. Power(base, 2 * rest + 1) = base * Power(base, 2 * rest)
    BY <1>2, PowerDef
  <2> QED
    BY <1>1, <1>3, <1>4, <2>1
<1>5. CASE exp % 2 = 0
  <2>1. exp = 2 * rest
    BY <1>1, <1>5
  <2> HIDE DEF rest
  <2> QED
    BY <1>3, <1>5, <2>1 DEF rest
<1> QED
  BY <1>1, <1>4, <1>5

LEMMA PowKeeps ==
  ASSUME NEW s \in PowStates, NEW k \in Nat, NEW a \in Int, NEW b \in Nat, PowInv(s, k, a, b)
  PROVE  PowInv(PowStep(s), k + 1, a, b)
<1> DEFINE times  == s.exp % 2 = 1
           rest   == s.exp \div 2
           result == IF times THEN s.result * s.base ELSE s.result
           base   == IF rest > 0 THEN s.base * s.base ELSE s.base
           over   == \/ times /\ MulOverflows(s.result, s.base)
                     \/ rest > 0 /\ MulOverflows(s.base, s.base)
           t      == PowStep(s)
           square == Power(s.base * s.base, rest)
<1>1. /\ s.exp = 0 \/ s.over => t = s
      /\ s.exp # 0 /\ ~s.over /\ over => t.over
      /\ s.exp # 0 /\ ~s.over /\ ~over =>
           ~t.over /\ t.result = result /\ t.base = base /\ t.exp = rest
  BY PowStepCases
<1> HIDE DEF t
<1>2. ASSUME s.over PROVE PowInv(t, k + 1, a, b)
  BY <1>1, <1>2 DEF PowInv
<1>3. ASSUME ~s.over, s.exp = 0 PROVE PowInv(t, k + 1, a, b)
  <2>1. t = s
    BY <1>1, <1>3
  <2>2. Power(2, k) \in Int /\ Power(2, k + 1) \in Int
    BY PowerDef
  <2>3. s.exp * Power(2, k + 1) <= b
    BY <1>3, <2>2
  <2> QED
    BY <1>3, <2>1, <2>3 DEF PowInv
<1>4. ASSUME ~s.over, s.exp # 0 PROVE PowInv(t, k + 1, a, b)
  <2>1. s.base \in Int /\ s.result \in Int /\ s.exp \in Nat /\ rest \in Nat
    BY Halving DEF PowStates
  <2>2. /\ s.base \in Ints /\ s.result \in Ints
        /\ s.result * Power(s.base, s.exp) = Power(a, b)
        /\ s.exp * Power(2, k) <= b
        /\ Big(s.base) => s.result = 1 \/ Big(s.result)
    BY <1>4 DEF PowInv
  <2>3. square \in Int /\ Power(s.base, s.exp) = (IF times THEN s.base ELSE 1) * square
    BY <2>1, PowerHalved
  <2>4. result \in Int /\ Power(a, b) = result * square
    <3>1. CASE times
      <4>1. s.result * (s.base * square) = (s.result * s.base) * square
        BY <2>1, <2>3
      <4> HIDE DEF square
      <4> QED
        BY <2>1, <2>2, <2>3, <3>1, <4>1
    <3>2. CASE ~times
      <4> HIDE DEF square
      <4> QED
        BY <2>1, <2>2, <2>3, <3>2
    <3> QED
      BY <3>1, <3>2
  <2>5. Big(s.base) => result = 1 \/ Big(result)
    <3> SUFFICES ASSUME Big(s.base), times PROVE Big(result)
      BY <2>2
    <3>1. CASE s.result = 1
      BY <2>1, <3>1
    <3>2. CASE Big(s.result)
      BY <2>1, <3>2, ProductOfTwo DEF Big
    <3> QED
      BY <2>2, <3>1, <3>2
  <2>6. CASE times /\ MulOverflows(s.result, s.base)
    <3>1. s.result * s.base \notin Ints
      BY <2>2, <2>6, MulOverflowsExact
    <3>2. s.base # 0
      BY <2>1, <3>1, Word DEF Ints
    <3>3. square \in Nat \ {0}
      BY <2>1, <3>2, SquarePositive, PowerPositive
    <3>4. Power(a, b) \notin Ints
      <4> HIDE DEF square
      <4> QED
        BY <2>1, <2>4, <2>6, <3>1, <3>3, ProductBeyond
    <3> QED
      BY <1>1, <1>4, <2>6, <3>4 DEF PowInv
  <2>7. CASE rest > 0 /\ MulOverflows(s.base, s.base)
    <3>1. s.base * s.base \notin Ints
      BY <2>2, <2>7, MulOverflowsExact
    <3>2. s.base \notin {-1, 0, 1}
      BY <3>1, Word DEF Ints
    <3>3. Big(s.base) /\ s.base * s.base \in Nat \ {0}
      BY <2>1, <3>2, SquarePositive DEF Big
    <3>4. PICK less \in Nat : rest = less + 1
      BY <2>1, <2>7
    <3> DEFINE y == Power(s.base * s.base, less)
    <3>5. y \in Nat \ {0} /\ square = (s.base * s.base) * y
      <4>1. s.base * s.base \in Int
        BY <3>3
      <4>2. Power(s.base * s.base, less + 1) = (s.base * s.base) * y
        BY <4>1, PowerDef
      <4> QED
        BY <3>3, <3>4, <4>2, PowerPositive
    <3> HIDE DEF y
    <3>6. Power(a, b) \notin Ints
      <4>1. result = 1 \/ result >= 2 \/ result <= -2
        BY <2>5, <3>3 DEF Big
      <4> HIDE DEF result, square
      <4> QED
        BY <2>1, <2>4, <3>1, <3>5, <4>1, SquareBeyond
    <3> QED
      BY <1>1, <1>4, <2>7, <3>6 DEF PowInv
  <2>8. CASE ~over
    <3>1. ~t.over /\ t.result = result /\ t.base = base /\ t.exp = rest
      BY <1>1, <1>4, <2>8
    <3>2. result \in Ints /\ base \in Ints
      BY <2>2, <2>8, MulOverflowsExact
    <3>3. Power(base, rest) = square
      <4>1. CASE rest > 0
        BY <4>1
      <4>2. CASE rest = 0
        <5>1. s.base * s.base \in Int
          BY <2>1
        <5> QED
          BY <2>1, <4>2, <5>1, PowerDef
      <4> QED
        BY <2>1, <4>1, <4>2
    <3>4. rest * Power(2, k + 1) <= b
      <4> DEFINE p == Power(2, k)
      <4>1. p \in Nat /\ Power(2, k + 1) = 2 * p
        BY PowerDef, PowerPositive
      <4>2. 2 * rest <= s.exp
        BY <2>1, Halving
      <4> HIDE DEF p, rest
      <4>3. (2 * rest) * p <= s.exp * p
        BY <2>1, <4>1, <4>2
      <4>4. rest * (2 * p) = (2 * rest) * p
        BY <2>1, <4>1
      <4>5. s.exp * p \in Int /\ s.exp * p <= b
        BY <2>1, <2>2, <4>1 DEF p
      <4>6. rest * (2 * p) \in Int
        BY <2>1, <4>1
      <4> QED
        BY <4>1, <4>3, <4>4, <4>5, <4>6
    <3>5. Big(base) => result = 1 \/ Big(result)
      <4> SUFFICES ASSUME Big(base) PROVE Big(s.base)
        BY <2>5
      <4> QED
        BY <2>1, BigSquare DEF Big
    <3> QED
      BY <2>4, <3>1, <3>2, <3>3, <3>4, <3>5 DEF PowInv
  <2> QED
    BY <2>6, <2>7, <2>8
<1> QED
  BY <1>2, <1>3, <1>4 DEF t, PowStates

\* pow and ** of two integers, the exponent not negative: the power, or an overflow
\* just when it is out of range, whatever the word.  The loop that squares never
\* fails on a square that is not needed, and needs no more turns than the word has bits.
THEOREM PowExact ==
  ASSUME NEW a \in Ints, NEW b \in Ints, b >= 0
  PROVE  Pow(a, b) = Exactly(Power(a, b))
<1> DEFINE s == [base |-> a, exp |-> b, result |-> 1, over |-> FALSE]
<1>1. a \in Int /\ b \in Nat /\ 1 \in Ints
  BY Word DEF Ints
<1>2. s \in PowStates /\ Bits \in Nat
  BY <1>1, WordSize DEF PowStates
<1>3. PICK f : /\ f \in [Nat -> PowStates] /\ f[0] = s
               /\ \A i \in Nat : f[i + 1] = PowStep(f[i])
               /\ Loop(PowStep, s, Bits) = f[Bits]
  <2> HIDE DEF s
  <2> QED
    BY <1>2, PowLoop
<1>4. PowInv(f[0], 0, a, b)
  <2>1. Power(2, 0) = 1 /\ Power(a, b) \in Int
    BY <1>1, PowerDef
  <2> QED
    BY <1>1, <1>3, <2>1 DEF PowInv
<1> DEFINE S == {i \in Nat : PowInv(f[i], i, a, b)}
<1>5. \A i \in Nat : i \in S
  <2>1. 0 \in S
    BY <1>4
  <2>2. ASSUME NEW i \in Nat, i \in S PROVE i + 1 \in S
    <3>1. f[i] \in PowStates /\ f[i + 1] = PowStep(f[i])
      BY <1>3
    <3> QED
      BY <1>1, <2>2, <3>1, PowKeeps
  <2> HIDE DEF S
  <2> QED
    BY <2>1, <2>2, Induction
<1> DEFINE end == f[Bits]
<1>6. end \in PowStates /\ PowInv(end, Bits, a, b)
  BY <1>2, <1>3, <1>5
<1>7. Pow(a, b) = Checked(end.over, end.result)
  BY <1>3 DEF Pow
<1> HIDE DEF end, s, S
<1>8. CASE end.over
  BY <1>6, <1>7, <1>8 DEF PowInv, Checked, Exactly
<1>9. CASE ~end.over
  <2>1. /\ end.exp \in Nat /\ end.result \in Ints /\ end.base \in Int /\ end.result \in Int
        /\ end.result * Power(end.base, end.exp) = Power(a, b)
        /\ end.exp * Power(2, Bits) <= b
    BY <1>6, <1>9 DEF PowInv, PowStates
  <2>2. end.exp = 0
    <3> DEFINE p == Power(2, Bits)
               e == end.exp
    <3>1. p \in Nat /\ p > b
      BY <1>1, WordSize, Word DEF Ints
    <3> HIDE DEF p, e
    <3>2. e >= 1 => e * p >= p
      BY <2>1, <3>1 DEF e
    <3>3. e * p <= b /\ e \in Nat
      BY <2>1 DEF e, p
    <3> QED
      BY <1>1, <3>1, <3>2, <3>3 DEF e
  <2>3. Power(end.base, end.exp) = 1
    BY <2>1, <2>2, PowerDef
  <2>4. end.result = Power(a, b)
    BY <2>1, <2>3
  <2> QED
    BY <1>7, <1>9, <2>1, <2>4 DEF Checked, Exactly
<1> QED
  BY <1>8, <1>9

-----------------------------------------------------------------------------
(* What Python says, as PyNumbers computes it without large numbers. *)

\* One multiplication of PowerOf.
Times(x, base) == IF x * base \in Ints THEN x * base ELSE 2 * (IntMax + 1)

LEMMA BeyondStays ==
  ASSUME NEW base \in Int, Big(base), NEW x \in Int, x \notin Ints
  PROVE  x * base \notin Ints
<1>1. CASE base >= 2
  BY <1>1, ProductBeyond
<1>2. CASE base <= -2
  <2> DEFINE c == -base
  <2>1. c \in Nat /\ c >= 2 /\ x * base = -(x * c)
    BY <1>2
  <2> HIDE DEF c
  <2>2. CASE x > IntMax
    <3>1. x * c >= 2 * x
      BY <2>1, <2>2, Word
    <3> QED
      BY <2>1, <2>2, <3>1, Word DEF Ints
  <2>3. CASE x < IntMin
    <3>1. (-x) * c >= 2 * (-x) /\ (-x) * c = -(x * c)
      BY <2>1, <2>3, Word
    <3> QED
      BY <2>1, <2>3, <3>1, Word DEF Ints
  <2> QED
    BY <2>2, <2>3, Word DEF Ints
<1> QED
  BY <1>1, <1>2 DEF Big

LEMMA PowerOfIs ==
  ASSUME NEW base \in Ints, NEW n \in Nat
  PROVE  Exactly(PowerOf(base, n)) = Exactly(Power(base, n))
<1> DEFINE G == [x \in Int |-> Times(x, base)]
           Is(p) == p = [i \in 0..n |-> IF i = 0 THEN 1
                                        ELSE LET q == p[i - 1] * base
                                             IN IF q \in Ints THEN q ELSE 2 * (IntMax + 1)]
           power == CHOOSE p : Is(p)
<1>1. base \in Int /\ 1 \in Ints
  BY Word DEF Ints
<1>2. PICK f : IsIteration(f, Int, G, 1)
  <2>1. G \in [Int -> Int] /\ 1 \in Int
    <3>1. \A x \in Int : Times(x, base) \in Int
      BY <1>1, Word DEF Times
    <3> QED
      BY <3>1
  <2> HIDE DEF G
  <2> QED
    BY <2>1, Recursion
<1>3. f \in [Nat -> Int] /\ f[0] = 1 /\ \A i \in Nat : f[i + 1] = Times(f[i], base)
  BY <1>2 DEF IsIteration
<1>4. Is([i \in 0..n |-> f[i]])
  <2> DEFINE p == [i \in 0..n |-> f[i]]
  <2>1. ASSUME NEW i \in 0..n
        PROVE  f[i] = IF i = 0 THEN 1
                      ELSE LET q == p[i - 1] * base
                           IN IF q \in Ints THEN q ELSE 2 * (IntMax + 1)
    <3>1. CASE i = 0
      BY <1>3, <3>1
    <3>2. CASE i # 0
      <4>1. i - 1 \in Nat /\ i - 1 \in 0..n /\ (i - 1) + 1 = i
        BY <3>2
      <4>2. f[(i - 1) + 1] = Times(f[i - 1], base)
        BY <1>3, <4>1
      <4> QED
        BY <3>2, <4>1, <4>2 DEF Times
    <3> QED
      BY <3>1, <3>2
  <2> QED
    BY <2>1
<1>5. Is(power)
  <2> HIDE DEF Is
  <2> QED
    BY <1>4
<1>6. PowerOf(base, n) = power[n]
  BY Zenon DEF PowerOf
<1> HIDE DEF power
<1> DEFINE Right(i) == IF Power(base, i) \in Ints THEN power[i] = Power(base, i)
                       ELSE power[i] = 2 * (IntMax + 1)
           S == {i \in Nat : i <= n => Right(i)}
<1>7. \A i \in Nat : i \in S
  <2>1. 0 \in S
    BY <1>1, <1>5, PowerDef
  <2>2. ASSUME NEW i \in Nat, i \in S PROVE i + 1 \in S
    <3> SUFFICES ASSUME i + 1 <= n PROVE Right(i + 1)
      OBVIOUS
    <3>1. i + 1 \in 0..n /\ i + 1 # 0 /\ (i + 1) - 1 = i
      OBVIOUS
    <3>2. power[i + 1] = Times(power[i], base)
      BY <1>5, <3>1 DEF Times
    <3>3. Power(base, i) \in Int /\ Power(base, i + 1) = base * Power(base, i)
      BY <1>1, PowerDef
    <3>4. Right(i)
      BY <2>2
    <3>5. CASE Power(base, i) \in Ints
      <4>1. power[i] * base = Power(base, i + 1)
        BY <1>1, <3>3, <3>4, <3>5
      <4> QED
        BY <3>2, <4>1 DEF Times
    <3>6. CASE Power(base, i) \notin Ints
      <4>1. Big(base)
        <5> SUFFICES ASSUME base \in -1..1 PROVE FALSE
          BY <1>1 DEF Big
        <5>1. Power(base, i) \in -1..1
          BY SmallPowers
        <5> QED
          BY <3>6, <5>1, Word DEF Ints
      <4>2. power[i] = 2 * (IntMax + 1) /\ power[i] \in Int /\ power[i] \notin Ints
        BY <3>4, <3>6, Word DEF Ints
      <4>3. power[i] * base \notin Ints
        BY <1>1, <4>1, <4>2, BeyondStays
      <4>4. Power(base, i) * base \notin Ints
        BY <1>1, <3>3, <3>6, <4>1, BeyondStays
      <4>5. Power(base, i) * base = Power(base, i + 1)
        BY <1>1, <3>3
      <4> QED
        BY <3>2, <4>3, <4>4, <4>5 DEF Times
    <3> QED
      BY <3>5, <3>6
  <2> HIDE DEF S
  <2> QED
    BY <2>1, <2>2, Induction
<1>8. Right(n)
  BY <1>7
<1>9. 2 * (IntMax + 1) \notin Ints
  BY Word DEF Ints
<1> QED
  BY <1>6, <1>8, <1>9 DEF Exactly

-----------------------------------------------------------------------------
(* Shifts. *)

LEMMA Division ==
  ASSUME NEW x \in Int, NEW n \in Nat \ {0}
  PROVE  x \div n \in Int /\ x % n \in 0..(n - 1) /\ x = n * (x \div n) + (x % n)
OBVIOUS

LEMMA Cancel ==
  ASSUME NEW n \in Nat \ {0}, NEW p \in Int, NEW q \in Int, n * p = n * q
  PROVE  p = q
<1>1. ASSUME NEW x \in Int, NEW y \in Int, x > y PROVE n * x > n * y
  <2>1. x - y \in Nat /\ x - y >= 1
    BY <1>1
  <2>2. n * (x - y) >= n
    BY <2>1
  <2>3. n * (x - y) = n * x - n * y
    OBVIOUS
  <2>4. n * x \in Int /\ n * y \in Int
    OBVIOUS
  <2> QED
    BY <2>2, <2>3, <2>4
<1>2. ~(p > q)
  BY <1>1
<1>3. ~(q > p)
  BY <1>1
<1> QED
  BY <1>2, <1>3

LEMMA OneQuotient ==
  ASSUME NEW x \in Int, NEW n \in Nat \ {0}, NEW q \in Int, NEW r \in 0..(n - 1), x = n * q + r
  PROVE  x \div n = q
<1>1. x \div n \in Int /\ x = n * (x \div n) + (x % n)
  BY Division
<1>2. x % n = r
  BY OneRemainder
<1>3. n * (x \div n) \in Int /\ n * q \in Int /\ r \in Int
  BY <1>1
<1>4. n * (x \div n) = n * q
  BY <1>1, <1>2, <1>3
<1> QED
  BY <1>1, <1>4, Cancel

LEMMA MinIs ==
  ASSUME NEW m \in Nat, NEW n \in Nat
  PROVE  Min({m, n}) = IF m <= n THEN m ELSE n
BY DEF Min

\* The word that has the bits of x differs from it by multiples of its size.
LEMMA UnsignedIs ==
  ASSUME NEW x \in Int
  PROVE  /\ Unsigned(x) \in 0..(2 * (IntMax + 1) - 1)
         /\ \E t \in Int : Unsigned(x) = x - (2 * (IntMax + 1)) * t
<1> DEFINE n == 2 * (IntMax + 1)
<1>1. n \in Nat \ {0}
  BY Word
<1>2. Unsigned(x) = x % n
  BY DEF Unsigned
<1> HIDE DEF n
<1>3. x \div n \in Int /\ x % n \in 0..(n - 1) /\ x = n * (x \div n) + (x % n)
  BY <1>1, Division
<1>4. n * (x \div n) \in Int /\ x % n \in Int
  BY <1>1, <1>3
<1>5. x % n = x - n * (x \div n)
  BY <1>3, <1>4
<1> QED
  BY <1>2, <1>3, <1>5 DEF n

LEMMA SignedIs ==
  ASSUME NEW x \in Int
  PROVE  /\ Signed(x) \in Ints
         /\ \E t \in Int : Signed(x) = x - (2 * (IntMax + 1)) * t
<1> DEFINE n == 2 * (IntMax + 1)
<1>1. Unsigned(x) \in 0..(n - 1) /\ n \in Nat
  BY UnsignedIs, Word
<1>2. PICK t \in Int : Unsigned(x) = x - n * t
  BY UnsignedIs
<1>3. CASE Unsigned(x) > IntMax
  <2>1. Signed(x) = Unsigned(x) - n
    BY <1>3 DEF Signed
  <2>2. n * (t + 1) = n * t + n /\ n * t \in Int
    BY <1>1, <1>2
  <2>3. Signed(x) = x - n * (t + 1)
    <3> HIDE DEF n
    <3> QED
      BY <1>1, <1>2, <2>1, <2>2
  <2> QED
    BY <1>1, <1>3, <2>1, <2>3, Word DEF Ints
<1>4. CASE ~(Unsigned(x) > IntMax)
  BY <1>1, <1>2, <1>4, Word DEF Signed, Ints
<1> QED
  BY <1>3, <1>4

\* Two integers of the word that differ by a multiple of its size are equal.
LEMMA SameWord ==
  ASSUME NEW x \in Ints, NEW y \in Ints, NEW t \in Int, x = y - (2 * (IntMax + 1)) * t
  PROVE  x = y
<1> DEFINE n == 2 * (IntMax + 1)
<1>1. n \in Nat \ {0} /\ x \in Int /\ y \in Int /\ x - y < n /\ y - x < n
  BY Word DEF Ints
<1>2. x = y - n * t
  OBVIOUS
<1> HIDE DEF n
<1>3. t >= 1 => n * t >= n
  BY <1>1
<1>4. t <= -1 => n * t <= -n
  <2> SUFFICES ASSUME t <= -1 PROVE n * t <= -n
    OBVIOUS
  <2>1. n * (-t) >= n /\ n * (-t) = -(n * t) /\ n * t \in Int
    BY <1>1
  <2> QED
    BY <1>1, <2>1
<1>5. n * t \in Int
  BY <1>1
<1>6. t = 0
  BY <1>1, <1>2, <1>3, <1>4, <1>5
<1> QED
  BY <1>1, <1>2, <1>6

\* << yields a * 2^n, or an overflow just when that is out of range: shifting
\* back what was cut to the word finds every bit that was lost.
THEOREM LShiftExact ==
  ASSUME NEW a \in Ints, NEW n \in Nat
  PROVE  LShift(a, n) = Exactly(a * Power(2, Min({n, Bits})))
<1>1. a \in Int /\ Bits \in Nat /\ 0 \in Ints
  BY WordSize, Word DEF Ints
<1>2. CASE n >= Bits
  <2>1. Power(2, Min({n, Bits})) = 2 * (IntMax + 1)
    BY <1>1, <1>2, MinIs, WordSize
  <2>2. a # 0 => a * (2 * (IntMax + 1)) \notin Ints
    <3> DEFINE m == 2 * (IntMax + 1)
    <3>1. m \in Nat \ {0} /\ m > IntMax /\ -m < IntMin
      BY Word
    <3> HIDE DEF m
    <3>2. a >= 1 => a * m >= m
      BY <1>1, <3>1
    <3>3. a <= -1 => (-a) * m >= m /\ (-a) * m = -(a * m)
      BY <1>1, <3>1
    <3>4. a * m \in Int
      BY <1>1, <3>1
    <3>5. a # 0 => a * m \notin Ints
      BY <1>1, <3>1, <3>2, <3>3, <3>4, Word DEF Ints
    <3> QED
      BY <3>5 DEF m
  <2>3. a = 0 => a * (2 * (IntMax + 1)) = 0
    BY Word
  <2>4. LShift(a, n) = IF a # 0 THEN Failed("OVERFLOW") ELSE Done(0)
    BY <1>2 DEF LShift
  <2> QED
    BY <1>1, <2>1, <2>2, <2>3, <2>4 DEF Exactly
<1>3. CASE n < Bits
  <2> DEFINE p == Power(2, n)
             q == Power(2, Bits - n)
             w == 2 * (IntMax + 1)
             shifted == Signed(Unsigned(a) * p)
  <2>1. p \in Nat \ {0} /\ q \in Nat \ {0} /\ w \in Nat \ {0}
    BY <1>1, <1>3, PowerPositive, Word
  <2>2. w = p * q
    <3>1. Bits - n \in Nat /\ n + (Bits - n) = Bits
      BY <1>1, <1>3
    <3>2. Power(2, n + (Bits - n)) = p * q
      BY <3>1, PowerSum
    <3> QED
      BY <3>1, <3>2, WordSize
  <2>3. Min({n, Bits}) = n
    BY <1>1, <1>3, MinIs
  <2>4. LShift(a, n) = Checked(shifted \div p # a, shifted)
    BY <1>1, <1>3 DEF LShift
  <2>5. PICK t \in Int : shifted = a * p - w * t
    <3>1. PICK u \in Int : Unsigned(a) = a - w * u
      BY <1>1, UnsignedIs
    <3>2. Unsigned(a) \in Int
      BY <1>1, UnsignedIs, Word
    <3>3. Unsigned(a) * p \in Int
      BY <2>1, <3>2
    <3>4. PICK v \in Int : shifted = Unsigned(a) * p - w * v
      BY <3>3, SignedIs
    <3> DEFINE x == Unsigned(a)
    <3> HIDE DEF x, w, p, shifted
    <3>5. x * p = a * p - w * (u * p)
      BY <1>1, <2>1, <3>1 DEF x
    <3>6. w * (u * p + v) = w * (u * p) + w * v
      BY <2>1
    <3>7. shifted = a * p - w * (u * p + v)
      <4>1. a * p \in Int /\ w * (u * p) \in Int /\ w * v \in Int
        BY <1>1, <2>1
      <4> QED
        BY <3>4, <3>5, <3>6, <4>1 DEF x
    <3>8. u * p + v \in Int
      BY <2>1
    <3> QED
      BY <3>7, <3>8
  <2>6. shifted \in Ints /\ shifted \in Int
    <3>1. Unsigned(a) * p \in Int
      BY <1>1, <2>1, UnsignedIs, Word
    <3> QED
      BY <3>1, SignedIs, Word DEF Ints
  <2>7. a * p \in Int
    BY <1>1, <2>1
  <2>8. CASE a * p \in Ints
    <3>1. shifted = a * p
      BY <2>5, <2>6, <2>8, SameWord
    <3>2. shifted = p * a + 0 /\ 0 \in 0..(p - 1)
      <4> HIDE DEF p, shifted
      <4> QED
        BY <1>1, <2>1, <3>1
    <3>3. shifted \div p = a
      <4> HIDE DEF p, shifted
      <4> QED
        BY <1>1, <2>1, <2>6, <3>2, OneQuotient
    <3> QED
      BY <2>3, <2>4, <2>8, <3>1, <3>3 DEF Checked, Exactly
  <2>9. CASE a * p \notin Ints
    <3>1. ASSUME shifted \div p = a PROVE FALSE
      <4> HIDE DEF p, q, w, shifted
      <4> DEFINE r == shifted % p
      <4>1. r \in 0..(p - 1) /\ shifted = p * a + r
        BY <2>1, <2>6, <3>1, Division
      <4>2. a * p = p * a /\ p * a \in Int /\ w * t \in Int
        BY <1>1, <2>1
      <4> HIDE DEF r
      <4>3. r = -(w * t)
        BY <2>1, <2>5, <4>1, <4>2
      <4>4. w * t = p * (q * t) /\ q * t \in Int
        BY <2>1, <2>2
      <4>5. r = p * (-(q * t)) + 0 /\ r \in Int /\ -(q * t) \in Int
        BY <2>1, <4>1, <4>3, <4>4
      <4>6. r % p = 0 /\ r = p * 0 + r
        BY <2>1, <4>1, <4>5, OneRemainder
      <4>7. r % p = r
        BY <2>1, <4>1, <4>5, <4>6, OneRemainder
      <4>8. shifted = a * p
        BY <4>1, <4>2, <4>6, <4>7
      <4> QED
        BY <2>6, <2>9, <4>8 DEF p, shifted
    <3> QED
      BY <2>3, <2>4, <2>9, <3>1 DEF Checked, Exactly
  <2> QED
    BY <2>8, <2>9
<1> QED
  BY <1>1, <1>2, <1>3

\* >> is the quotient by 2^n rounded down, beyond the bits of the word too.
THEOREM RShiftExact ==
  ASSUME NEW a \in Ints, NEW n \in Nat
  PROVE  RShift(a, n) = Done(a \div Power(2, Min({n, Bits})))
<1>1. a \in Int /\ Bits \in Nat
  BY WordSize, Word DEF Ints
<1>2. CASE n >= Bits
  <2> DEFINE m == 2 * (IntMax + 1)
  <2>1. Power(2, Min({n, Bits})) = m
    BY <1>1, <1>2, MinIs, WordSize
  <2>2. m \in Nat \ {0} /\ a < m /\ a >= -m
    BY <1>1, Word DEF Ints
  <2> HIDE DEF m
  <2>3. a \div m = IF a < 0 THEN -1 ELSE 0
    <3>1. CASE a < 0
      <4>1. a = m * (-1) + (a + m) /\ a + m \in 0..(m - 1)
        BY <1>1, <2>2, <3>1
      <4> QED
        BY <1>1, <2>2, <3>1, <4>1, OneQuotient
    <3>2. CASE a >= 0
      <4>1. a = m * 0 + a /\ a \in 0..(m - 1)
        BY <1>1, <2>2, <3>2
      <4> QED
        BY <1>1, <2>2, <3>2, <4>1, OneQuotient
    <3> QED
      BY <1>1, <3>1, <3>2
  <2> QED
    BY <1>2, <2>1, <2>3 DEF RShift
<1>3. CASE n < Bits
  BY <1>1, <1>3, MinIs DEF RShift
<1> QED
  BY <1>1, <1>2, <1>3

-----------------------------------------------------------------------------
(* round_int. *)

LEMMA MultipleOf ==
  ASSUME NEW n \in Nat \ {0}, NEW q \in Int
  PROVE  (q * n) % n = 0 /\ (q * n) \div n = q
<1>1. PICK x \in Int, r \in 0..(n - 1) : x = q * n /\ r = 0
  OBVIOUS
<1>2. x = n * q + r
  BY <1>1
<1>3. x % n = r /\ x \div n = q
  BY <1>2, OneRemainder, OneQuotient
<1> QED
  BY <1>1, <1>3

\* Of the multiples next to a, that is a rounded one which is at the distance.
LEMMA IsRoundedIf ==
  ASSUME NEW a \in Int, NEW n \in Nat \ {0}, NEW q \in Int, NEW r \in Int, a - q * n = r
  PROVE  IsRounded(a, n, q * n)
           <=> 2 * Magnitude(r) <= n /\ (2 * Magnitude(r) = n => q % 2 = 0)
<1>1. (q * n) % n = 0 /\ (q * n) \div n = q
  BY MultipleOf
<1> QED
  BY <1>1, Zenon DEF IsRounded

LEMMA RoundedToIs ==
  ASSUME NEW a \in Int, NEW h \in Nat \ {0}, NEW f \in Int, NEW r \in 0..(2 * h - 1),
         a = (2 * h) * f + r
  PROVE  RoundedTo(a, 2 * h) = (IF r > h \/ (r = h /\ f % 2 = 1) THEN f + 1 ELSE f) * (2 * h)
<1> DEFINE n    == 2 * h
           up   == r > h \/ (r = h /\ f % 2 = 1)
           low  == f * n
           high == (f + 1) * n
<1>1. n \in Nat \ {0} /\ r \in Int /\ 0 <= r /\ r < n /\ a = n * f + r /\ n = 2 * h
  OBVIOUS
<1>2. a \div n = f
  BY <1>1, OneQuotient
<1>3. f * n = n * f /\ (f + 1) * n = n * f + n /\ n * f \in Int
  BY <1>1
<1> HIDE DEF n
<1>4. a - low = r /\ a - high = r - n
  BY <1>1, <1>3
<1>5. Magnitude(r) = r /\ Magnitude(r - n) = n - r
  BY <1>1 DEF Magnitude
<1>6. IsRounded(a, n, low) <=> 2 * r <= n /\ (2 * r = n => f % 2 = 0)
  BY <1>1, <1>4, <1>5, IsRoundedIf
<1>7. IsRounded(a, n, high) <=> 2 * (n - r) <= n /\ (2 * (n - r) = n => (f + 1) % 2 = 0)
  <2>1. f + 1 \in Int /\ r - n \in Int
    BY <1>1
  <2> QED
    BY <1>1, <1>4, <1>5, <2>1, IsRoundedIf
<1>8. f % 2 \in 0..1 /\ ((f + 1) % 2 = 0 <=> f % 2 = 1)
  OBVIOUS
<1>9. (IsRounded(a, n, low) <=> ~up) /\ (IsRounded(a, n, high) <=> up)
  BY <1>1, <1>6, <1>7, <1>8
<1>10. RoundedTo(a, n) = CHOOSE x \in {low, high} : IsRounded(a, n, x)
  BY <1>2 DEF RoundedTo
<1> HIDE DEF up, low, high
<1>11. RoundedTo(a, n) = IF up THEN high ELSE low
  BY <1>9, <1>10
<1> QED
  BY <1>11 DEF up, low, high, n

LEMMA RoundedToOne ==
  ASSUME NEW a \in Int
  PROVE  RoundedTo(a, 1) = a
<1>1. PICK n \in Nat \ {0}, none \in Int, less \in Int, next \in Int :
             n = 1 /\ none = 0 /\ less + 1 = 0 /\ next = a + 1
  OBVIOUS
<1>2. a * n = a /\ next * n = next /\ a \div n = a
  BY <1>1
<1>3. a - a * n = none /\ a - next * n = less
  BY <1>1, <1>2
<1>4. Magnitude(none) = 0 /\ Magnitude(less) = 1
  BY <1>1 DEF Magnitude
<1>5. IsRounded(a, n, a * n) <=> 2 * Magnitude(none) <= n /\ (2 * Magnitude(none) = n => a % 2 = 0)
  BY <1>3, IsRoundedIf
<1>6. IsRounded(a, n, next * n)
        <=> 2 * Magnitude(less) <= n /\ (2 * Magnitude(less) = n => next % 2 = 0)
  BY <1>3, IsRoundedIf
<1>7. IsRounded(a, n, a) /\ ~IsRounded(a, n, next)
  BY <1>1, <1>2, <1>4, <1>5, <1>6
<1>8. RoundedTo(a, n) = CHOOSE x \in {a, next} : IsRounded(a, n, x)
  <2>1. (a \div n) * n = a /\ (a \div n + 1) * n = next
    BY <1>1, <1>2
  <2> QED
    BY <2>1, Zenon DEF RoundedTo
<1> QED
  BY <1>1, <1>7, <1>8

\* The unit of a rounding that is not refused: even, and in range.
LEMMA UnitOf ==
  ASSUME NEW d \in 1..(Digits - 1)
  PROVE  \E h \in Nat \ {0} : Power(10, d) = 2 * h /\ h >= 5 /\ 2 * h <= IntMax
<1>1. PICK k \in Nat, n \in Nat : k = d - 1 /\ n = Digits - 1
  BY DigitsAssumption
<1>2. Power(10, k + 1) = 10 * Power(10, k) /\ Power(10, k) \in Nat \ {0}
  <2>1. 10 \in Int /\ 10 \in Nat \ {0}
    OBVIOUS
  <2>2. Power(10, k + 1) = 10 * Power(10, k)
    BY <2>1, PowerDef
  <2>3. Power(10, k) \in Nat \ {0}
    BY <2>1, PowerPositive
  <2> QED
    BY <2>2, <2>3
<1>3. Power(10, k + 1) <= Power(10, n)
  BY <1>1, PowerMonotone
<1>4. d = k + 1 /\ Power(10, n) <= IntMax
  BY <1>1, DigitsAssumption
<1>5. Power(10, n) \in Int /\ Power(10, d) = 2 * (5 * Power(10, k))
  BY <1>2, <1>4, PowerDef
<1> QED
  BY <1>2, <1>3, <1>4, <1>5, Word

\* The multiple round_int takes, of the quotient towards zero, is the one next to a
\* that is nearer, or the even one.
LEMMA NearestQuotient ==
  ASSUME NEW a \in Ints, NEW h \in Nat \ {0}, h >= 5, 2 * h <= IntMax
  PROVE  LET q  == Quotient(a, 2 * h)
             r  == Magnitude(Remainder(a, 2 * h))
             up == r > h \/ (r = h /\ q % 2 # 0)
             to == IF ~up THEN q ELSE IF a < 0 THEN q - 1 ELSE q + 1
         IN to \in Ints /\ to * (2 * h) = RoundedTo(a, 2 * h)
<1> DEFINE n  == 2 * h
           q  == Quotient(a, n)
           r  == Magnitude(Remainder(a, n))
           up == r > h \/ (r = h /\ q % 2 # 0)
           to == IF ~up THEN q ELSE IF a < 0 THEN q - 1 ELSE q + 1
<1>1. a \in Int /\ n \in Nat /\ n >= 10 /\ n <= IntMax /\ n = 2 * h /\ IntMin <= a /\ a <= IntMax
  BY Word DEF Ints
<1>2. Magnitude(n) = n /\ n \in Int /\ n # 0
  BY <1>1 DEF Magnitude
<1> HIDE DEF n
<1>3. \E p, t \in Nat :
                         /\ Magnitude(a) = Magnitude(n) * p + t
                         /\ t < Magnitude(n)
                         /\ Quotient(a, n) = IF (a < 0) = (n < 0) THEN p ELSE -p
                         /\ Remainder(a, n) = IF a < 0 THEN -t ELSE t
  <2>1. a \in Int
    BY <1>1
  <2>2. n \in Int
    BY <1>2
  <2>3. n # 0
    BY <1>2
  <2> QED
    BY <2>1, <2>2, <2>3, TruncatedDivision, Zenon
<1>4. PICK p, t \in Nat : /\ Magnitude(a) = n * p + t
                          /\ t < n
                          /\ q = IF (a < 0) = (n < 0) THEN p ELSE -p
                          /\ r = Magnitude(IF a < 0 THEN -t ELSE t)
  BY <1>2, <1>3, Zenon
<1>5. r = t /\ q = IF a < 0 THEN -p ELSE p
  <2>1. q = IF a < 0 THEN -p ELSE p
    <3> HIDE DEF q
    <3> QED
      BY <1>1, <1>4
  <2>2. r = t
    <3> HIDE DEF r
    <3> QED
      BY <1>4 DEF Magnitude
  <2> QED
    BY <2>1, <2>2
<1>6. Magnitude(a) \in Nat /\ Magnitude(a) <= IntMax + 1 /\ Magnitude(a) = IF a < 0 THEN -a ELSE a
  BY <1>1, Word DEF Magnitude
<1>7. n * p >= 2 * p /\ n * p \in Nat
  BY <1>1
<1>8. p + 1 <= IntMax
  BY <1>1, <1>4, <1>6, <1>7, Word
<1> HIDE DEF q, r
<1>9. to \in Ints
  BY <1>5, <1>8, Word DEF Ints
<1>10. CASE a >= 0
  <2>1. a = n * p + t /\ t \in 0..(n - 1) /\ q = p /\ p % 2 \in 0..1
    BY <1>1, <1>4, <1>5, <1>6, <1>10
  <2>2. RoundedTo(a, n) = (IF t > h \/ (t = h /\ p % 2 = 1) THEN p + 1 ELSE p) * n
    BY <1>1, <2>1, RoundedToIs DEF n
  <2>3. to = IF t > h \/ (t = h /\ p % 2 = 1) THEN p + 1 ELSE p
    BY <1>1, <1>5, <1>10, <2>1
  <2> QED
    BY <1>9, <2>2, <2>3 DEF n, q, r
<1>11. CASE a < 0 /\ t = 0
  <2>1. PICK f \in Int, z \in 0..(n - 1) : f = -p /\ z = 0
    BY <1>1
  <2>2. n * f = -(n * p)
    BY <1>1, <2>1
  <2>3. a = n * f + z
    BY <1>1, <1>4, <1>6, <1>7, <1>11, <2>1, <2>2
  <2>4. RoundedTo(a, n) = (IF z > h \/ (z = h /\ f % 2 = 1) THEN f + 1 ELSE f) * n
    BY <2>3, RoundedToIs DEF n
  <2>5. to = f /\ ~(z > h \/ (z = h /\ f % 2 = 1))
    BY <1>1, <1>5, <1>11, <2>1
  <2> QED
    BY <1>9, <2>4, <2>5 DEF n, q, r
<1>12. CASE a < 0 /\ t > 0
  <2>1. PICK f \in Int, z \in 0..(n - 1) : f = -p - 1 /\ z = n - t
    BY <1>1, <1>4, <1>12
  <2>2. n * f = -(n * p) - n
    BY <1>1, <2>1
  <2>3. a = n * f + z
    BY <1>1, <1>4, <1>6, <1>7, <1>12, <2>1, <2>2
  <2>4. RoundedTo(a, n) = (IF z > h \/ (z = h /\ f % 2 = 1) THEN f + 1 ELSE f) * n
    BY <2>3, RoundedToIs DEF n
  <2>5. q = f + 1 /\ (q % 2 # 0 <=> ~(f % 2 = 1))
    BY <1>5, <1>12, <2>1
  <2>6. z > h <=> t < h
    BY <1>1, <1>4, <2>1
  <2>7. z = h <=> t = h
    BY <1>1, <1>4, <2>1
  <2>8. up <=> ~(z > h \/ (z = h /\ f % 2 = 1))
    BY <1>1, <1>4, <1>5, <2>5, <2>6, <2>7
  <2>9. to = IF z > h \/ (z = h /\ f % 2 = 1) THEN f + 1 ELSE f
    <3> HIDE DEF up
    <3> QED
      BY <1>12, <2>5, <2>8
  <2> QED
    BY <1>9, <2>4, <2>9 DEF n, q, r
<1> QED
  BY <1>4, <1>10, <1>11, <1>12, <1>1

\* round_int yields the nearest multiple of the unit, the even one of two that are as
\* near, or fails when that is out of range: towards zero and up or down from there,
\* by the remainder, and its test of the product is exact.
THEOREM RoundIntExact ==
  ASSUME NEW a \in Ints, NEW d \in 0..(Digits - 1)
  PROVE  RoundInt(a, -d) = Exactly(RoundedTo(a, Power(10, d)))
<1>1. a \in Int /\ d \in Int
  BY Word DEF Ints
<1>2. CASE d = 0
  <2>1. PICK z \in Int : z = -d
    BY <1>1
  <2>2. z >= 0
    BY <1>1, <1>2, <2>1
  <2>3. RoundInt(a, z) = Done(a)
    BY <2>2 DEF RoundInt
  <2>4. Power(10, d) = 1
    BY <1>2, PowerDef
  <2> QED
    BY <1>1, <2>1, <2>3, <2>4, RoundedToOne DEF Exactly
<1>3. CASE d # 0
  <2>1. d \in 1..(Digits - 1)
    BY <1>3
  <2>2. PICK h \in Nat \ {0} : Power(10, d) = 2 * h /\ h >= 5 /\ 2 * h <= IntMax
    BY <2>1, UnitOf
  <2> DEFINE n  == 2 * h
             q  == Quotient(a, n)
             r  == Magnitude(Remainder(a, n))
             up == r > h \/ (r = h /\ q % 2 # 0)
             to == IF ~up THEN q ELSE IF a < 0 THEN q - 1 ELSE q + 1
  <2>3. to \in Ints /\ to * n = RoundedTo(a, n)
    BY <2>2, NearestQuotient
  <2>4. n \in Ints /\ n \div 2 = h
    BY <2>2, Word DEF Ints
  <2>5. PICK z \in Int : z = -d /\ -z = d /\ ~(z >= 0) /\ ~(-z >= Digits)
    BY <2>1, DigitsAssumption
  <2> HIDE DEF n
  <2>6. RoundInt(a, z) = IF MulOverflows(to, n) THEN Failed("OVERFLOW") ELSE Done(to * n)
    BY <2>2, <2>4, <2>5, Zenon DEF RoundInt, n
  <2>7. MulOverflows(to, n) <=> to * n \notin Ints
    BY <2>3, <2>4, MulOverflowsExact
  <2> HIDE DEF to
  <2>8. RoundInt(a, z) = Exactly(RoundedTo(a, n))
    BY <2>3, <2>6, <2>7 DEF Exactly
  <2> QED
    BY <2>2, <2>5, <2>8 DEF n
<1> QED
  BY <1>2, <1>3

-----------------------------------------------------------------------------
(* What MCOperators checks of a small word. *)

\* Every arithmetic operator and function on two integers of the word, whatever its
\* size, yields what the mathematics says or fails with an overflow when that is out
\* of range: ops_numeric.c and builtins_math.c, with their loops and their tests.
THEOREM ArithmeticTheorem == CaseType => ArithmeticExact
<1> SUFFICES ASSUME case.kind = "ints", case.a \in Ints, case.b \in Ints PROVE ArithmeticExact
  BY Zenon DEF CaseType, ArithmeticExact
<1> DEFINE a == case.a
           b == case.b
<1>1. a \in Ints /\ b \in Ints
  OBVIOUS
<1> HIDE DEF a, b
<1>2. a \in Int /\ b \in Int
  BY <1>1, Word DEF Ints
<1>3. Add(a, b) = Exactly(a + b) /\ Sub(a, b) = Exactly(a - b) /\ Mul(a, b) = Exactly(a * b)
  BY <1>1, AddExact, SubExact, MulExact
<1>4. Neg(a) = Exactly(-a) /\ AbsOf(a) = Exactly(Magnitude(a))
  BY <1>1, NegAndAbsExact
<1>5. IF b = 0 THEN FloorDiv(a, b) = Failed("DIV_ZERO") /\ Mod(a, b) = Failed("DIV_ZERO")
      ELSE IF a = IntMin /\ b = -1
      THEN FloorDiv(a, b) = Failed("OVERFLOW") /\ Mod(a, b) = Failed("OVERFLOW")
      ELSE IsDivMod(a, b, FloorDiv(a, b).value, Mod(a, b).value)
  <2>1. CASE b = 0
    BY <2>1 DEF FloorDiv, Mod
  <2>2. CASE b # 0 /\ a = IntMin /\ b = -1
    BY <2>2 DEF FloorDiv, Mod
  <2>3. CASE b # 0 /\ ~(a = IntMin /\ b = -1)
    <3>1. PICK q, r \in Ints : /\ FloorDiv(a, b) = Done(q)
                               /\ Mod(a, b) = Done(r)
                               /\ IsDivMod(a, b, q, r)
      BY <1>1, <2>3, FloorDivModExact
    <3>2. FloorDiv(a, b).value = q /\ Mod(a, b).value = r
      BY <3>1 DEF Done
    <3> QED
      BY <2>3, <3>1, <3>2, Zenon
  <2> QED
    BY <2>1, <2>2, <2>3, Zenon
<1>6. b >= 0 => Pow(a, b) = Exactly(PowerOf(a, b))
  <2>1. ASSUME b >= 0 PROVE Pow(a, b) = Exactly(PowerOf(a, b))
    <3>1. b \in Nat
      BY <1>2, <2>1
    <3>2. Pow(a, b) = Exactly(Power(a, b))
      BY <1>1, <2>1, PowExact
    <3> QED
      BY <1>1, <3>1, <3>2, PowerOfIs
  <2> QED
    BY <2>1
<1>7. IF b < 0 THEN LShift(a, b) = Failed("VALUE") /\ RShift(a, b) = Failed("VALUE")
      ELSE /\ LShift(a, b) = Exactly(a * Power(2, Min({b, Bits})))
           /\ RShift(a, b) = Done(a \div Power(2, Min({b, Bits})))
  <2>1. CASE b < 0
    <3>1. LShift(a, b) = Failed("VALUE") /\ RShift(a, b) = Failed("VALUE")
      <4>1. ~(b >= Bits)
        BY <1>2, <2>1, WordSize
      <4> QED
        BY <2>1, <4>1, Zenon DEF LShift, RShift
    <3> QED
      BY <2>1, <3>1, Zenon
  <2>2. CASE ~(b < 0)
    <3>1. b \in Nat
      BY <1>2, <2>2
    <3>2. /\ LShift(a, b) = Exactly(a * Power(2, Min({b, Bits})))
          /\ RShift(a, b) = Done(a \div Power(2, Min({b, Bits})))
      BY <1>1, <3>1, LShiftExact, RShiftExact, Zenon
    <3> QED
      BY <2>2, <3>2, Zenon
  <2> QED
    BY <2>1, <2>2, Zenon
<1>8. \A d \in 0..(Digits - 1) : RoundInt(a, -d) = Exactly(RoundedTo(a, Power(10, d)))
  BY <1>1, RoundIntExact, Zenon
<1> QED
  BY <1>3, <1>4, <1>5, <1>6, <1>7, <1>8, Zenon DEF ArithmeticExact, a, b

-----------------------------------------------------------------------------
(* Ranges. *)

\* A number of a range is one of its steps from the start, before the stop.
LEMMA RangeMember ==
  ASSUME NEW start \in Int, NEW stop \in Int, NEW step \in Int, step # 0, NEW x \in Int
  PROVE  x \in RangeSet(start, stop, step)
           <=> Within(x, stop, step) /\ \E k \in Nat : x = start + k * step
<1>1. ASSUME NEW n \in Nat \ {0}, NEW y \in Int
      PROVE  y >= 0 /\ y % n = 0 <=> \E k \in Nat : y = k * n
  <2>1. ASSUME y >= 0, y % n = 0 PROVE \E k \in Nat : y = k * n
    <3>1. y \in Nat
      BY <2>1
    <3>2. y \div n \in Nat
      BY <3>1, NaturalDivision
    <3>3. y = n * (y \div n) + (y % n)
      BY Division
    <3> DEFINE k == y \div n
    <3> HIDE DEF k
    <3>4. y = k * n
      BY <2>1, <3>2, <3>3 DEF k
    <3> QED
      BY <3>2, <3>4 DEF k
  <2>2. ASSUME NEW k \in Nat, y = k * n PROVE y >= 0 /\ y % n = 0
    <3>1. k \in Int /\ k * n >= 0
      OBVIOUS
    <3> QED
      BY <2>2, <3>1, MultipleOf
  <2> QED
    BY <2>1, <2>2
<1>2. CASE step > 0
  <2>1. PICK y \in Int, n \in Nat \ {0} : y = x - start /\ n = step
    BY <1>2
  <2>2. x \in RangeSet(start, stop, step) <=> x < stop /\ y >= 0 /\ y % n = 0
    BY <1>2, <2>1 DEF RangeSet
  <2>3. y >= 0 /\ y % n = 0 <=> \E k \in Nat : y = k * n
    BY <1>1, Zenon
  <2>4. \A k \in Nat : y = k * n <=> x = start + k * step
    BY <2>1
  <2>5. Within(x, stop, step) <=> x < stop
    BY <1>2 DEF Within
  <2> QED
    BY <2>2, <2>3, <2>4, <2>5, Zenon
<1>3. CASE step < 0
  <2>1. PICK y \in Int, n \in Nat \ {0} : y = start - x /\ n = -step
    BY <1>3
  <2>2. x \in RangeSet(start, stop, step) <=> x > stop /\ y >= 0 /\ y % n = 0
    BY <1>3, <2>1 DEF RangeSet
  <2>3. y >= 0 /\ y % n = 0 <=> \E k \in Nat : y = k * n
    BY <1>1, Zenon
  <2>4. ASSUME NEW k \in Nat PROVE y = k * n <=> x = start + k * step
    <3>1. k * n = -(k * step)
      BY <2>1
    <3> QED
      BY <2>1, <3>1
  <2>5. Within(x, stop, step) <=> x > stop
    BY <1>3 DEF Within
  <2> QED
    BY <2>2, <2>3, <2>4, <2>5, Zenon
<1> QED
  BY <1>2, <1>3

\* len is how many numbers a range has.
LEMMA RangeCardinality ==
  ASSUME NEW start \in Ints, NEW stop \in Ints, NEW step \in Ints, step # 0,
         stop - start \in (-IntMax)..IntMax
  PROVE  RangeLen(start, stop, step) = Cardinality(RangeSet(start, stop, step))
<1> DEFINE n == RangeLen(start, stop, step)
           S == RangeSet(start, stop, step)
           f == [i \in 1..n |-> start + (i - 1) * step]
<1>1. start \in Int /\ stop \in Int /\ step \in Int
  BY Word DEF Ints
<1>2. n \in Nat /\ \A k \in Nat : k < n <=> Within(start + k * step, stop, step)
  BY RangeLenExact
<1>3. \A x \in Int : x \in S <=> Within(x, stop, step) /\ \E k \in Nat : x = start + k * step
  BY <1>1, RangeMember
<1>4. S \subseteq Int
  BY <1>1 DEF RangeSet
<1> HIDE DEF n, S
<1>5. ASSUME NEW i \in 1..n PROVE f[i] \in S
  <2>1. PICK k \in Nat : k = i - 1
    BY <1>2
  <2>2. k < n /\ k * step \in Int /\ f[i] = start + k * step
    BY <1>1, <1>2, <2>1
  <2> HIDE DEF f
  <2>3. f[i] \in Int
    BY <1>1, <2>2
  <2> QED
    BY <1>2, <1>3, <2>2, <2>3
<1>6. ASSUME NEW i \in 1..n, NEW j \in 1..n, f[i] = f[j] PROVE i = j
  <2>1. i \in Int /\ j \in Int
    BY <1>2
  <2>2. (i - 1) * step = (j - 1) * step
    <3>1. (i - 1) * step \in Int /\ (j - 1) * step \in Int
      BY <1>1, <2>1
    <3> QED
      BY <1>1, <1>6, <3>1
  <2>3. CASE step > 0
    <3>1. step * (i - 1) = step * (j - 1)
      BY <1>1, <2>1, <2>2
    <3> QED
      BY <1>1, <2>1, <2>3, <3>1, Cancel
  <2>4. CASE step < 0
    <3>1. (-step) * (i - 1) = (-step) * (j - 1) /\ -step \in Nat \ {0}
      BY <1>1, <2>1, <2>2, <2>4
    <3> QED
      BY <2>1, <3>1, Cancel
  <2> QED
    BY <1>1, <2>3, <2>4
<1>7. ASSUME NEW x \in S PROVE \E i \in 1..n : f[i] = x
  <2>1. PICK k \in Nat : x = start + k * step
    BY <1>3, <1>4
  <2>2. k < n
    BY <1>2, <1>3, <1>4, <2>1
  <2>3. k + 1 \in 1..n /\ (k + 1) - 1 = k
    BY <1>2, <2>2
  <2>4. f[k + 1] = x
    BY <2>1, <2>3
  <2> QED
    BY <2>3, <2>4
<1> HIDE DEF f
<1>8. f \in Bijection(1..n, S)
  <2>1. f \in [1..n -> S]
    BY <1>5 DEF f
  <2>2. IsInjective(f)
    BY <2>1, <1>6 DEF IsInjective
  <2> QED
    BY <2>1, <2>2, <1>7, Zenon DEF Bijection, Injection, Surjection
<1>9. ExistsBijection(1..n, S)
  BY <1>8, Zenon DEF ExistsBijection
<1>10. Cardinality(S) = n
  BY <1>2, <1>9, FS_CountingElements
<1> QED
  BY <1>10 DEF n, S

\* len of a range is how many numbers it has, and in finds exactly those, for every
\* step and for bounds no further apart than INT64_MAX, whatever the word:
\* value_range_len and op_contains, whose differences do not wrap then.
THEOREM RangesTheorem == CaseType => RangesExact
<1> SUFFICES ASSUME case.kind = "ints", case.a \in Ints, case.b \in Ints,
                    Magnitude(case.a - case.b) <= IntMax
             PROVE  RangesExact
  BY Zenon DEF CaseType, RangesExact
<1> DEFINE a == case.a
           b == case.b
<1>1. a \in Ints /\ b \in Ints /\ Magnitude(a - b) <= IntMax
  OBVIOUS
<1> HIDE DEF a, b
<1>2. b - a \in (-IntMax)..IntMax /\ a \in Int /\ b \in Int
  BY <1>1, Word DEF Ints, Magnitude
<1>3. ASSUME NEW step \in Steps
      PROVE  LET range == RangeSet(a, b, step)
             IN /\ RangeLen(a, b, step) = Cardinality(range)
                /\ \A x \in {IntMin, a - 1, a, a + 1, a + step, b, b - 1, 0, IntMax} \cap Ints :
                     RangeContains(x, a, b, step) <=> x \in range
  <2>1. step \in Ints /\ step # 0
    BY StepsAssumption
  <2>2. step \in Int
    BY <2>1, Word DEF Ints
  <2>3. RangeLen(a, b, step) = Cardinality(RangeSet(a, b, step))
    BY <1>1, <1>2, <2>1, RangeCardinality
  <2>4. ASSUME NEW x \in Ints PROVE RangeContains(x, a, b, step) <=> x \in RangeSet(a, b, step)
    <3>1. x \in Int
      BY Word DEF Ints
    <3>2. ASSUME NEW y \in Ints, NEW z \in Ints, NEW n \in Ints, n # 0,
                 z - y \in (-IntMax)..IntMax
          PROVE  RangeContains(x, y, z, n)
                   <=> Within(x, z, n) /\ \E k \in Nat : x = y + k * n
      BY <3>2, RangeContainsExact
    <3>3. RangeContains(x, a, b, step)
            <=> Within(x, b, step) /\ \E k \in Nat : x = a + k * step
      BY <1>1, <1>2, <2>1, <3>2
    <3> QED
      BY <1>2, <2>1, <2>2, <3>1, <3>3, RangeMember, Zenon
  <2> QED
    BY <2>3, <2>4, Zenon
<1> QED
  BY <1>3, Zenon DEF RangesExact, a, b

-----------------------------------------------------------------------------
(* Slices. *)

LEMMA CountIsRangeLen ==
  ASSUME NEW start \in Ints, NEW stop \in Ints, NEW step \in Ints, step # 0,
         stop - start \in (-IntMax)..IntMax
  PROVE  Count(start, stop, step) = RangeLen(start, stop, step)
<1>1. start \in Int /\ stop \in Int /\ step \in Int /\ stop - start \in Ints /\ start - stop \in Ints
  BY Word DEF Ints
<1>2. Signed(stop - start) = stop - start /\ Signed(start - stop) = start - stop
  BY <1>1, SignedOfInts
<1>3. CASE step > 0 /\ start < stop
  <2>1. Quotient(stop - start - 1, step) = (stop - start - 1) \div step
    <3>1. PICK d \in Int : d = stop - start - 1 /\ d >= 0
      BY <1>1, <1>3
    <3>2. Quotient(d, step) = d \div step
      BY <1>1, <1>3, <3>1, QuotientOf
    <3> QED
      BY <3>1, <3>2
  <2> QED
    BY <1>1, <1>2, <1>3, <2>1 DEF Count, RangeLen
<1>4. CASE step < 0 /\ stop < start
  <2>1. Quotient(start - stop - 1, -step) = (start - stop - 1) \div (-step)
    <3>1. PICK d \in Int, b \in Int : d = start - stop - 1 /\ d >= 0 /\ b = -step /\ b > 0
      BY <1>1, <1>4
    <3>2. Quotient(d, b) = d \div b
      BY <3>1, QuotientOf
    <3> QED
      BY <3>1, <3>2
  <2> QED
    BY <1>1, <1>2, <1>4, <2>1 DEF Count, RangeLen
<1>5. CASE (step > 0 /\ ~(start < stop)) \/ (step < 0 /\ ~(stop < start))
  BY <1>1, <1>5 DEF Count, RangeLen
<1> QED
  BY <1>1, <1>3, <1>4, <1>5

LEMMA MinMaxIs ==
  ASSUME NEW m \in Int, NEW n \in Int
  PROVE  /\ Min({m, n}) = IF m <= n THEN m ELSE n
         /\ Max({m, n}) = IF m >= n THEN m ELSE n
BY DEF Min, Max

\* A bound as Clamp has it, in terms of the one counted from the start.
LEMMA ClampIs ==
  ASSUME NEW bound \in Int, NEW step \in Int \ {0}, NEW len \in Nat
  PROVE  LET from == From(bound, len)
         IN /\ from \in Int
            /\ step > 0 => Clamp(bound, step, len) = IF from < 0 THEN 0 ELSE IF from > len THEN len ELSE from
            /\ step < 0 => Clamp(bound, step, len)
                             = IF from < -1 THEN -1 ELSE IF from > len - 1 THEN len - 1 ELSE from
BY DEF Clamp, From

\* The indexes Python names are the range between the two clamped bounds.
LEMMA NamedIs ==
  ASSUME NEW start_val \in OptInts, NEW stop_val \in OptInts, NEW step \in Int \ {0},
         NEW len \in Nat, len <= IntMax
  PROVE  LET first == IF start_val # Absent THEN start_val ELSE IF step < 0 THEN IntMax ELSE 0
             last  == IF stop_val # Absent THEN stop_val ELSE IF step < 0 THEN IntMin ELSE IntMax
         IN Named(start_val, stop_val, step, len)
              = RangeSet(Clamp(first, step, len), Clamp(last, step, len), step)
<1> DEFINE first == IF start_val # Absent THEN start_val ELSE IF step < 0 THEN IntMax ELSE 0
           last  == IF stop_val # Absent THEN stop_val ELSE IF step < 0 THEN IntMin ELSE IntMax
           start == Clamp(first, step, len)
           stop  == Clamp(last, step, len)
           low   == IF start_val = Absent THEN 0 ELSE Max({0, From(start_val, len)})
           high  == IF stop_val = Absent THEN len ELSE Min({len, From(stop_val, len)})
           top   == IF start_val = Absent THEN len - 1 ELSE Min({len - 1, From(start_val, len)})
           end   == IF stop_val = Absent THEN -1 ELSE Max({-1, From(stop_val, len)})
<1>1. /\ start_val # Absent => start_val \in Int
      /\ stop_val # Absent => stop_val \in Int
  BY IntMaxPositive DEF OptInts, Ints
<1>2. CASE step > 0
  <2>1. low \in Int /\ low >= 0 /\ start = IF low > len THEN len ELSE low
    <3>1. CASE start_val = Absent
      BY <1>2, <3>1 DEF Clamp
    <3>2. CASE start_val # Absent
      <4> DEFINE from == From(start_val, len)
      <4>1. from \in Int /\ start = IF from < 0 THEN 0 ELSE IF from > len THEN len ELSE from
        BY <1>1, <1>2, <3>2, ClampIs
      <4> HIDE DEF from, start
      <4>2. Max({0, from}) = IF 0 >= from THEN 0 ELSE from
        BY <4>1, MinMaxIs
      <4>3. low = IF 0 >= from THEN 0 ELSE from
        BY <3>2, <4>2 DEF from
      <4> QED
        BY <4>1, <4>3
    <3> QED
      BY <3>1, <3>2
  <2>2. high \in Int /\ high <= len /\ stop = IF high < 0 THEN 0 ELSE high
    <3>1. CASE stop_val = Absent
      BY <1>2, <3>1, IntMaxPositive DEF Clamp
    <3>2. CASE stop_val # Absent
      <4> DEFINE from == From(stop_val, len)
      <4>1. from \in Int /\ stop = IF from < 0 THEN 0 ELSE IF from > len THEN len ELSE from
        BY <1>1, <1>2, <3>2, ClampIs
      <4> HIDE DEF from, stop
      <4>2. Min({len, from}) = IF len <= from THEN len ELSE from
        BY <4>1, MinMaxIs
      <4>3. high = IF len <= from THEN len ELSE from
        BY <3>2, <4>2 DEF from
      <4> QED
        BY <4>1, <4>3
    <3> QED
      BY <3>1, <3>2
  <2>3. Named(start_val, stop_val, step, len) = {i \in low..(high - 1) : (i - low) % step = 0}
    BY <1>2, Zenon DEF Named
  <2>4. RangeSet(start, stop, step) = {i \in start..(stop - 1) : (i - start) % step = 0}
    BY <1>2, Zenon DEF RangeSet
  <2> HIDE DEF low, high, start, stop
  <2>5. CASE low <= len /\ high >= 0
    BY <2>1, <2>2, <2>3, <2>4, <2>5 DEF start, stop
  <2>6. CASE ~(low <= len /\ high >= 0)
    <3>1. low..(high - 1) = {} /\ start..(stop - 1) = {}
      BY <2>1, <2>2, <2>6
    <3>2. Named(start_val, stop_val, step, len) = {} /\ RangeSet(start, stop, step) = {}
      BY <2>3, <2>4, <3>1
    <3> QED
      BY <3>2 DEF start, stop
  <2> QED
    BY <2>5, <2>6
<1>3. CASE step < 0
  <2>0. ~(step > 0)
    BY <1>3
  <2>1. top \in Int /\ top <= len - 1 /\ start = IF top < -1 THEN -1 ELSE top
    <3>1. CASE start_val = Absent
      BY <1>3, <3>1, IntMaxPositive DEF Clamp
    <3>2. CASE start_val # Absent
      <4> DEFINE from == From(start_val, len)
      <4>1. from \in Int /\ start = IF from < -1 THEN -1 ELSE IF from > len - 1 THEN len - 1 ELSE from
        BY <1>1, <1>3, <3>2, ClampIs
      <4> HIDE DEF from, start
      <4>2. Min({len - 1, from}) = IF len - 1 <= from THEN len - 1 ELSE from
        BY <4>1, MinMaxIs
      <4>3. top = IF len - 1 <= from THEN len - 1 ELSE from
        BY <3>2, <4>2 DEF from
      <4> QED
        BY <4>1, <4>3
    <3> QED
      BY <3>1, <3>2
  <2>2. end \in Int /\ end >= -1 /\ stop = IF end > len - 1 THEN len - 1 ELSE end
    <3>1. CASE stop_val = Absent
      BY <1>3, <3>1, IntMaxPositive DEF Clamp, IntMin
    <3>2. CASE stop_val # Absent
      <4> DEFINE from == From(stop_val, len)
      <4>1. from \in Int /\ stop = IF from < -1 THEN -1 ELSE IF from > len - 1 THEN len - 1 ELSE from
        BY <1>1, <1>3, <3>2, ClampIs
      <4> HIDE DEF from, stop
      <4>2. Max({-1, from}) = IF -1 >= from THEN -1 ELSE from
        <5>1. PICK less \in Int : less = -1
          OBVIOUS
        <5> QED
          BY <4>1, <5>1, MinMaxIs
      <4>3. end = IF -1 >= from THEN -1 ELSE from
        BY <3>2, <4>2 DEF from
      <4> QED
        BY <4>1, <4>3
    <3> QED
      BY <3>1, <3>2
  <2>3. Named(start_val, stop_val, step, len) = {i \in (end + 1)..top : (top - i) % (-step) = 0}
    BY <2>0, Zenon DEF Named
  <2>4. RangeSet(start, stop, step) = {i \in (stop + 1)..start : (start - i) % (-step) = 0}
    BY <2>0, Zenon DEF RangeSet
  <2> HIDE DEF top, end, start, stop
  <2>5. CASE top >= -1 /\ end <= len - 1
    BY <2>1, <2>2, <2>3, <2>4, <2>5 DEF start, stop
  <2>6. CASE ~(top >= -1 /\ end <= len - 1)
    <3>1. (end + 1)..top = {} /\ (stop + 1)..start = {}
      BY <2>1, <2>2, <2>6
    <3>2. Named(start_val, stop_val, step, len) = {} /\ RangeSet(start, stop, step) = {}
      BY <2>3, <2>4, <3>1
    <3> QED
      BY <3>2 DEF start, stop
  <2> QED
    BY <2>5, <2>6
<1> QED
  BY <1>2, <1>3

\* A step of INT64_MIN, which the loops take for -INT64_MAX, names the same index.
LEMMA NamedOfMin ==
  ASSUME NEW start_val \in OptInts, NEW stop_val \in OptInts, NEW len \in Nat, len <= IntMax
  PROVE  Named(start_val, stop_val, IntMin, len) = Named(start_val, stop_val, -IntMax, len)
<1> DEFINE top == IF start_val = Absent THEN len - 1 ELSE Min({len - 1, From(start_val, len)})
           end == IF stop_val = Absent THEN -1 ELSE Max({-1, From(stop_val, len)})
<1>1. top \in Int /\ top <= len - 1
  <2>1. CASE start_val = Absent
    BY <2>1
  <2>2. CASE start_val # Absent
    <3>1. From(start_val, len) \in Int /\ len - 1 \in Int
      BY <2>2, IntMaxPositive DEF From, OptInts, Ints
    <3> QED
      BY <2>2, <3>1, MinMaxIs
  <2> QED
    BY <2>1, <2>2
<1>2. end \in Int /\ end >= -1
  <2>1. CASE stop_val = Absent
    BY <2>1
  <2>2. CASE stop_val # Absent
    <3>1. From(stop_val, len) \in Int
      BY <2>2, IntMaxPositive DEF From, OptInts, Ints
    <3>2. PICK less \in Int : less = -1
      OBVIOUS
    <3> DEFINE from == From(stop_val, len)
    <3> HIDE DEF from
    <3>3. Max({less, from}) = IF less >= from THEN less ELSE from
      BY <3>1, MinMaxIs DEF from
    <3>4. end = IF less >= from THEN less ELSE from
      BY <2>2, <3>2, <3>3 DEF from
    <3> QED
      BY <3>1, <3>2, <3>4 DEF from
  <2> QED
    BY <2>1, <2>2
<1>3. PICK m \in Nat \ {0}, n \in Nat \ {0}, down \in Int, more \in Int :
             m = IntMax /\ n = IntMax + 1 /\ down = -IntMax /\ more = IntMin
  BY Word
<1>4. -down = m /\ -more = n /\ ~(down > 0) /\ ~(more > 0)
  BY <1>3, Word
<1>5. Named(start_val, stop_val, more, len) = {i \in (end + 1)..top : (top - i) % n = 0}
  BY <1>4, Zenon DEF Named
<1>6. Named(start_val, stop_val, down, len) = {i \in (end + 1)..top : (top - i) % m = 0}
  BY <1>4, Zenon DEF Named
<1> HIDE DEF top, end
<1>7. ASSUME NEW i \in (end + 1)..top PROVE (top - i) % n = (top - i) % m
  <2>1. PICK x \in Nat : x = top - i /\ x < m /\ x < n
    BY <1>1, <1>2, <1>3
  <2>2. PICK z \in Int : z = 0
    OBVIOUS
  <2>3. x \in 0..(n - 1) /\ x \in 0..(m - 1) /\ x = n * z + x /\ x = m * z + x
    BY <1>3, <2>1, <2>2
  <2>4. x % n = x /\ x % m = x
    BY <2>3, OneRemainder
  <2> QED
    BY <2>1, <2>4
<1> QED
  BY <1>3, <1>5, <1>6, <1>7

\* The indexes the loops of op_get_slice, op_store_slice and op_delete_slice go
\* through are the ones start:stop:step names in a list of that length, each once,
\* upwards or downwards as the step goes: adjust_slice, for every bound and step to
\* the ends of the range, absent, past the list or negative, and for a list no
\* longer than INT64_MAX.
THEOREM SliceIsNamed ==
  ASSUME NEW start_val \in OptInts, NEW stop_val \in OptInts, NEW step_val \in OptInts,
         NEW len \in Nat, len <= IntMax, StepOf(step_val) # 0
  PROVE  LET step  == StepOf(step_val)
             s     == AdjustSlice(start_val, stop_val, step, len)
             index == [k \in 0..(s.count - 1) |-> s.start + k * step]
         IN /\ {index[k] : k \in DOMAIN index}
                 = Named(start_val, stop_val, IF step_val = Absent THEN 1 ELSE step_val, len)
            /\ \A j, k \in DOMAIN index :
                 j < k => IF step > 0 THEN index[j] < index[k] ELSE index[j] > index[k]
<1> DEFINE step  == StepOf(step_val)
           s     == AdjustSlice(start_val, stop_val, step, len)
           n     == s.count
           index == [k \in 0..(n - 1) |-> s.start + k * step]
           first == IF start_val # Absent THEN start_val ELSE IF step < 0 THEN IntMax ELSE 0
           last  == IF stop_val # Absent THEN stop_val ELSE IF step < 0 THEN IntMin ELSE IntMax
           start == Clamp(first, step, len)
           stop  == Clamp(last, step, len)
           named == Named(start_val, stop_val, IF step_val = Absent THEN 1 ELSE step_val, len)
<1>1. step \in Ints /\ step # 0 /\ step \in Int
  BY Word DEF StepOf, OptInts, Ints
<1>2. named = Named(start_val, stop_val, step, len)
  <2>1. CASE step_val = IntMin
    <3>1. step_val # Absent /\ step = -IntMax
      BY <2>1, Word, AbsentAssumption DEF StepOf
    <3> QED
      BY <2>1, <3>1, NamedOfMin
  <2>2. CASE step_val # IntMin
    BY <2>2 DEF StepOf
  <2> QED
    BY <2>1, <2>2
<1> HIDE DEF named
<1>3. first \in Int /\ last \in Int
  BY Word DEF OptInts, Ints
<1>4. s.start = start /\ n = Count(start, stop, step)
  BY DEF AdjustSlice
<1> HIDE DEF step
<1>5. start \in -1..len /\ stop \in -1..len /\ stop - start \in -len..len
  <2>1. /\ step >= 0 => start \in 0..len /\ stop \in 0..len
        /\ step < 0 => start \in -1..(len - 1) /\ stop \in -1..(len - 1)
    <3> HIDE DEF first, last
    <3> QED
      BY <1>1, <1>3, ClampInList
  <2> HIDE DEF start, stop
  <2> QED
    BY <1>1, <2>1
<1>6. start \in Ints /\ stop \in Ints /\ stop - start \in (-IntMax)..IntMax /\ start \in Int /\ stop \in Int
  <2> HIDE DEF start, stop
  <2> QED
    BY <1>5, Word DEF Ints
<1>7. named = RangeSet(start, stop, step)
  BY <1>1, <1>2, NamedIs
<1> HIDE DEF start, stop, s
<1>8. n = RangeLen(start, stop, step)
  BY <1>1, <1>4, <1>6, CountIsRangeLen
<1>9. n \in Nat /\ \A k \in Nat : k < n <=> Within(start + k * step, stop, step)
  BY <1>1, <1>6, <1>8, RangeLenExact
<1>10. \A x \in Int : x \in named <=> Within(x, stop, step) /\ \E k \in Nat : x = start + k * step
  BY <1>1, <1>6, <1>7, RangeMember
<1>11. named \subseteq Int
  BY <1>6, <1>7 DEF RangeSet
<1>12. DOMAIN index = 0..(n - 1) /\ \A k \in 0..(n - 1) : index[k] = start + k * step
  BY <1>4
<1> HIDE DEF index, n
<1>13. ASSUME NEW k \in 0..(n - 1) PROVE index[k] \in named
  <2>1. k \in Nat /\ k < n /\ start + k * step \in Int
    BY <1>1, <1>6, <1>9
  <2> QED
    BY <1>9, <1>10, <1>12, <2>1
<1>14. ASSUME NEW x \in named PROVE \E k \in 0..(n - 1) : x = index[k]
  <2>1. PICK k \in Nat : x = start + k * step /\ Within(x, stop, step)
    BY <1>10, <1>11
  <2>2. k < n
    BY <1>9, <2>1
  <2> QED
    BY <1>9, <1>12, <2>1, <2>2
<1>15. {index[k] : k \in DOMAIN index} = named
  BY <1>12, <1>13, <1>14
<1>16. ASSUME NEW j \in 0..(n - 1), NEW k \in 0..(n - 1), j < k
       PROVE  IF step > 0 THEN index[j] < index[k] ELSE index[j] > index[k]
  <2>1. j \in Nat /\ k \in Nat /\ k - j \in Nat \ {0}
    BY <1>9, <1>16
  <2>2. k * step = j * step + (k - j) * step /\ (k - j) * step \in Int /\ j * step \in Int
    BY <1>1, <2>1
  <2>3. step > 0 => (k - j) * step > 0
    BY <1>1, <2>1
  <2>4. step < 0 => (k - j) * step < 0
    <3>1. ASSUME step < 0 PROVE (k - j) * step < 0
      <4>1. (k - j) * (-step) >= 1
        BY <1>1, <2>1, <3>1, ProductSigns
      <4>2. (k - j) * step = -((k - j) * (-step))
        BY <1>1, <2>1
      <4> QED
        BY <1>1, <2>1, <4>1, <4>2
    <3> QED
      BY <3>1
  <2> QED
    BY <1>1, <1>6, <1>12, <2>2, <2>3, <2>4
<1>17. \A j, k \in DOMAIN index :
         j < k => IF step > 0 THEN index[j] < index[k] ELSE index[j] > index[k]
  BY <1>12, <1>16
<1> QED
  BY <1>15, <1>17 DEF index, n, s, step, named

-----------------------------------------------------------------------------
(* Congruence. *)

Congruent(x, y, m) == \E t \in Int : x - y = m * t

LEMMA CongruentSelf ==
  ASSUME NEW m \in Nat \ {0}, NEW x \in Int
  PROVE  Congruent(x, x, m)
<1>1. PICK t \in Int : t = 0
  OBVIOUS
<1>2. x - x = m * t
  BY <1>1
<1> QED
  BY <1>2 DEF Congruent

LEMMA CongruentSym ==
  ASSUME NEW m \in Nat \ {0}, NEW x \in Int, NEW y \in Int, Congruent(x, y, m)
  PROVE  Congruent(y, x, m)
<1>1. PICK t \in Int : x - y = m * t
  BY DEF Congruent
<1>2. PICK u \in Int : u = -t
  OBVIOUS
<1>3. m * u = -(m * t) /\ m * t \in Int
  BY <1>2
<1>4. y - x = m * u
  BY <1>1, <1>3
<1> QED
  BY <1>4 DEF Congruent

LEMMA CongruentSum ==
  ASSUME NEW m \in Nat \ {0}, NEW x \in Int, NEW y \in Int, NEW u \in Int, NEW v \in Int,
         Congruent(x, y, m), Congruent(u, v, m)
  PROVE  Congruent(x + u, y + v, m) /\ Congruent(x - u, y - v, m)
<1>1. PICK t \in Int : x - y = m * t
  BY DEF Congruent
<1>2. PICK w \in Int : u - v = m * w
  BY DEF Congruent
<1>3. PICK p \in Int, q \in Int : p = t + w /\ q = t - w
  OBVIOUS
<1>4. m * p = m * t + m * w /\ m * q = m * t - m * w /\ m * t \in Int /\ m * w \in Int
  BY <1>3
<1>5. (x + u) - (y + v) = m * p /\ (x - u) - (y - v) = m * q
  BY <1>1, <1>2, <1>4
<1> QED
  BY <1>5 DEF Congruent

LEMMA CongruentTrans ==
  ASSUME NEW m \in Nat \ {0}, NEW x \in Int, NEW y \in Int, NEW z \in Int,
         Congruent(x, y, m), Congruent(y, z, m)
  PROVE  Congruent(x, z, m)
<1>1. PICK t \in Int : x - y = m * t
  BY DEF Congruent
<1>2. PICK w \in Int : y - z = m * w
  BY DEF Congruent
<1>3. PICK p \in Int : p = t + w
  OBVIOUS
<1>4. m * p = m * t + m * w /\ m * t \in Int /\ m * w \in Int
  BY <1>3
<1>5. x - z = m * p
  BY <1>1, <1>2, <1>4
<1> QED
  BY <1>5 DEF Congruent

LEMMA CongruentProduct ==
  ASSUME NEW m \in Nat \ {0}, NEW x \in Int, NEW y \in Int, NEW u \in Int, NEW v \in Int,
         Congruent(x, y, m), Congruent(u, v, m)
  PROVE  Congruent(x * u, y * v, m)
<1>1. PICK t \in Int : x - y = m * t
  BY DEF Congruent
<1>2. PICK w \in Int : u - v = m * w
  BY DEF Congruent
<1>3. PICK p \in Int : p = t * u + y * w
  OBVIOUS
<1>4. x * u - y * v = (x - y) * u + y * (u - v)
  OBVIOUS
<1>5. (m * t) * u = m * (t * u) /\ y * (m * w) = m * (y * w)
  OBVIOUS
<1>6. m * p = m * (t * u) + m * (y * w)
  BY <1>3
<1>7. x * u - y * v = m * p
  BY <1>1, <1>2, <1>4, <1>5, <1>6
<1>8. x * u \in Int /\ y * v \in Int
  OBVIOUS
<1> QED
  BY <1>7 DEF Congruent

\* A remainder is congruent, and the only one of 0..(m - 1) that is.
LEMMA CongruentMod ==
  ASSUME NEW m \in Nat \ {0}, NEW x \in Int
  PROVE  x % m \in 0..(m - 1) /\ Congruent(x % m, x, m)
<1>1. x \div m \in Int /\ x % m \in 0..(m - 1) /\ x = m * (x \div m) + (x % m)
  BY Division
<1>2. PICK t \in Int : t = -(x \div m)
  BY <1>1
<1>3. m * t = -(m * (x \div m)) /\ m * (x \div m) \in Int /\ x % m \in Int
  BY <1>1, <1>2
<1>4. (x % m) - x = m * t
  BY <1>1, <1>3
<1> QED
  BY <1>1, <1>4 DEF Congruent

LEMMA ModOfCongruent ==
  ASSUME NEW m \in Nat \ {0}, NEW r \in 0..(m - 1), NEW x \in Int, Congruent(r, x, m)
  PROVE  x % m = r
<1>1. PICK t \in Int : r - x = m * t
  BY DEF Congruent
<1>2. PICK q \in Int : q = -t
  OBVIOUS
<1>3. m * q = -(m * t) /\ m * t \in Int /\ r \in Int
  BY <1>2
<1>4. x = m * q + r
  BY <1>1, <1>3
<1> QED
  BY <1>4, OneRemainder

LEMMA SameMod ==
  ASSUME NEW m \in Nat \ {0}, NEW x \in Int, NEW y \in Int, Congruent(x, y, m)
  PROVE  x % m = y % m
<1>1. x % m \in 0..(m - 1) /\ Congruent(x % m, x, m) /\ x % m \in Int
  BY CongruentMod
<1>2. Congruent(x % m, y, m)
  BY <1>1, CongruentTrans
<1> QED
  BY <1>1, <1>2, ModOfCongruent

LEMMA CongruentPower ==
  ASSUME NEW m \in Nat \ {0}, NEW x \in Int, NEW y \in Int, Congruent(x, y, m), NEW n \in Nat
  PROVE  Congruent(Power(x, n), Power(y, n), m)
<1> DEFINE S == {k \in Nat : Congruent(Power(x, k), Power(y, k), m)}
<1>1. 0 \in S
  <2>1. Power(x, 0) = 1 /\ Power(y, 0) = 1 /\ 1 \in Int
    BY PowerDef
  <2> QED
    BY <2>1, CongruentSelf
<1>2. ASSUME NEW k \in Nat, k \in S PROVE k + 1 \in S
  <2>1. Power(x, k) \in Int /\ Power(x, k + 1) = x * Power(x, k)
    BY PowerDef
  <2>2. Power(y, k) \in Int /\ Power(y, k + 1) = y * Power(y, k)
    BY PowerDef
  <2>3. Congruent(x * Power(x, k), y * Power(y, k), m)
    BY <1>2, <2>1, <2>2, CongruentProduct
  <2> QED
    BY <2>1, <2>2, <2>3
<1>3. \A k \in Nat : k \in S
  <2> HIDE DEF S
  <2> QED
    BY <1>1, <1>2, Induction
<1> QED
  BY <1>3

-----------------------------------------------------------------------------
(* mulmod. *)

\* The moduli of unsigned arithmetic: Magnitude of any integer but 0.
Moduli == 1..(IntMax + 1)

LEMMA UnsignedOfWord ==
  ASSUME NEW x \in Nat, x < 2 * (IntMax + 1)
  PROVE  Unsigned(x) = x
<1> DEFINE n == 2 * (IntMax + 1)
<1>1. n \in Nat \ {0} /\ x \in 0..(n - 1)
  BY Word
<1>2. Unsigned(x) = x % n
  BY DEF Unsigned
<1> HIDE DEF n
<1>3. PICK z \in Int : z = 0
  OBVIOUS
<1>4. x = n * z + x
  BY <1>1, <1>3
<1> QED
  BY <1>1, <1>2, <1>4, OneRemainder

\* A sum of two residues, reduced: it does not wrap, so the test for that is not met.
LEMMA SumReduced ==
  ASSUME NEW m \in Moduli, NEW x \in 0..(m - 1), NEW y \in 0..(m - 1)
  PROVE  LET z == Unsigned(x + y)
             r == IF z >= m \/ z < y THEN Unsigned(z - m) ELSE z
         IN r \in 0..(m - 1) /\ Congruent(r, x + y, m)
<1> DEFINE z == Unsigned(x + y)
           r == IF z >= m \/ z < y THEN Unsigned(z - m) ELSE z
<1>1. m \in Nat \ {0} /\ x \in Nat /\ y \in Nat /\ x < m /\ y < m /\ m <= IntMax + 1
  BY Word DEF Moduli
<1>2. z = x + y
  <2>1. x + y \in Nat /\ x + y < 2 * (IntMax + 1)
    BY <1>1, Word
  <2> QED
    BY <2>1, UnsignedOfWord
<1> HIDE DEF z
<1>3. CASE z >= m
  <2>1. z - m \in Nat /\ z - m < 2 * (IntMax + 1) /\ z - m < m
    BY <1>1, <1>2, <1>3, Word
  <2>2. r = z - m
    BY <1>3, <2>1, UnsignedOfWord
  <2>3. PICK t \in Int : t = -1
    OBVIOUS
  <2>4. r - (x + y) = m * t
    BY <1>1, <1>2, <2>2, <2>3
  <2>5. r \in 0..(m - 1)
    BY <1>1, <2>1, <2>2
  <2> QED
    BY <2>4, <2>5 DEF Congruent, z
<1>4. CASE ~(z >= m)
  <2>1. r = z /\ z \in 0..(m - 1)
    BY <1>1, <1>2, <1>4
  <2>2. Congruent(z, x + y, m)
    BY <1>1, <1>2, CongruentSelf
  <2> QED
    BY <2>1, <2>2 DEF z
<1> QED
  BY <1>3, <1>4

MulStates(m) == [a : 0..(m - 1), b : Nat, m : {m}, result : 0..(m - 1)]

MulNext(s, r, b, a) == [s EXCEPT !.result = r, !.b = b, !.a = a]

LEMMA MulFields ==
  ASSUME NEW m, NEW s \in MulStates(m), NEW r \in 0..(m - 1), NEW b \in Nat, NEW a \in 0..(m - 1)
  PROVE  LET t == MulNext(s, r, b, a)
         IN t \in MulStates(m) /\ t.result = r /\ t.b = b /\ t.a = a
BY DEF MulStates, MulNext

\* What a turn of the loop keeps: result + a * b, modulo m, while it halves b.
LEMMA MulTurn ==
  ASSUME NEW m \in Moduli, NEW s \in MulStates(m)
  PROVE  LET t == MulModStep(s)
         IN /\ t \in MulStates(m)
            /\ t.b = s.b \div 2
            /\ Congruent(t.result + t.a * t.b, s.result + s.a * s.b, m)
<1> DEFINE sum     == Unsigned(s.result + s.a)
           doubled == Unsigned(2 * s.a)
           added   == IF sum >= m \/ sum < s.a THEN Unsigned(sum - m) ELSE sum
           twice   == IF doubled >= m \/ doubled < s.a THEN Unsigned(doubled - m) ELSE doubled
           rest    == s.b \div 2
           result  == IF s.b % 2 = 1 THEN added ELSE s.result
           a       == IF rest > 0 THEN twice ELSE s.a
           t       == MulModStep(s)
<1>1. s.a \in 0..(m - 1) /\ s.b \in Nat /\ s.m = m /\ s.result \in 0..(m - 1)
  BY DEF MulStates
<1>2. m \in Nat \ {0} /\ s.a \in Int /\ s.result \in Int
  BY <1>1, Word DEF Moduli
<1>3. rest \in Nat /\ s.b % 2 \in 0..1 /\ s.b = 2 * rest + (s.b % 2)
  BY <1>1, Halving
<1>4. added \in 0..(m - 1) /\ Congruent(added, s.result + s.a, m)
  BY <1>1, SumReduced
<1>5. twice \in 0..(m - 1) /\ Congruent(twice, 2 * s.a, m)
  <2>1. 2 * s.a = s.a + s.a
    BY <1>2
  <2> QED
    BY <1>1, <2>1, SumReduced
<1>6. t = IF s.b = 0 THEN s ELSE MulNext(s, result, rest, a)
  BY <1>1 DEF MulModStep, MulNext
<1> HIDE DEF t, sum, doubled, added, twice
<1>7. result \in 0..(m - 1) /\ a \in 0..(m - 1)
  BY <1>1, <1>4, <1>5
<1>8. CASE s.b = 0
  <2>1. t = s /\ rest = 0
    BY <1>6, <1>8
  <2>2. s.result + s.a * s.b \in Int
    BY <1>1, <1>2
  <2> QED
    BY <1>2, <1>8, <2>1, <2>2, CongruentSelf DEF t
<1>9. CASE s.b # 0
  <2>1. t \in MulStates(m) /\ t.result = result /\ t.b = rest /\ t.a = a
    <3> HIDE DEF result, rest, a
    <3>1. t = MulNext(s, result, rest, a)
      BY <1>6, <1>9
    <3>2. rest \in Nat
      BY <1>3
    <3>3. LET u == MulNext(s, result, rest, a)
          IN u \in MulStates(m) /\ u.result = result /\ u.b = rest /\ u.a = a
      BY <1>7, <3>2, MulFields
    <3> QED
      BY <3>1, <3>3
  <2>2. added \in Int /\ twice \in Int
    BY <1>2, <1>4, <1>5
  <2>3. PICK odd \in 0..1 : odd = s.b % 2
    BY <1>3
  <2>4. odd \in Int /\ (odd = 0 \/ odd = 1) /\ rest \in Int
    BY <1>3
  <2> HIDE DEF rest
  <2>5. Congruent(result, s.result + s.a * odd, m)
    <3>1. CASE odd = 1
      <4>1. result = added /\ s.a * odd = s.a
        BY <1>2, <2>3, <3>1
      <4> QED
        BY <1>4, <4>1
    <3>2. CASE odd = 0
      <4>1. result = s.result /\ s.result + s.a * odd = s.result
        BY <1>2, <2>3, <3>2
      <4> QED
        BY <1>2, <4>1, CongruentSelf
    <3> QED
      BY <2>4, <3>1, <3>2
  <2>6. Congruent(a * rest, (2 * s.a) * rest, m)
    <3>1. CASE rest > 0
      <4>1. a = twice /\ 2 * s.a \in Int
        BY <1>2, <3>1
      <4>2. Congruent(rest, rest, m)
        BY <1>2, <2>4, CongruentSelf
      <4> QED
        BY <1>2, <1>5, <2>2, <2>4, <4>1, <4>2, CongruentProduct
    <3>2. CASE rest = 0
      <4>1. a * rest = 0 /\ (2 * s.a) * rest = 0
        <5>1. a \in Int
          BY <1>2, <2>2
        <5> QED
          BY <1>2, <5>1, <3>2
      <4>2. Congruent(a * rest, a * rest, m)
        BY <1>2, <4>1, CongruentSelf
      <4> QED
        BY <4>1, <4>2
    <3> QED
      BY <1>3, <3>1, <3>2 DEF rest
  <2>7. result \in Int /\ a \in Int
    BY <1>2, <2>2
  <2>8. s.a * odd \in Int /\ a * rest \in Int /\ (2 * s.a) * rest \in Int
    BY <1>2, <2>4, <2>7
  <2> HIDE DEF result, a
  <2>9. Congruent(result + a * rest, (s.result + s.a * odd) + (2 * s.a) * rest, m)
    <3>1. s.result + s.a * odd \in Int
      BY <1>2, <2>8
    <3> QED
      BY <1>2, <2>5, <2>6, <2>7, <2>8, <3>1, CongruentSum
  <2>10. s.b = 2 * rest + odd
    BY <1>3, <2>3
  <2>11. (s.result + s.a * odd) + (2 * s.a) * rest = s.result + s.a * s.b
    <3>1. s.a * (2 * rest + odd) = (2 * s.a) * rest + s.a * odd
      BY <1>2, <2>4
    <3> QED
      BY <1>2, <2>8, <2>10, <3>1
  <2> QED
    BY <2>1, <2>9, <2>11 DEF t, rest
<1> QED
  BY <1>8, <1>9

\* The loop as a sequence of states.
LEMMA MulLoop ==
  ASSUME NEW m \in Moduli, NEW s \in MulStates(m), NEW n \in Nat
  PROVE  \E f : /\ f \in [Nat -> MulStates(m)] /\ f[0] = s
                /\ \A i \in Nat : f[i + 1] = MulModStep(f[i])
                /\ Loop(MulModStep, s, n) = f[n]
<1> DEFINE G == [x \in MulStates(m) |-> MulModStep(x)]
           Is(p) == p = [i \in 0..n |-> IF i = 0 THEN s ELSE MulModStep(p[i - 1])]
           after == CHOOSE p : Is(p)
<1>1. PICK f : IsIteration(f, MulStates(m), G, s)
  <2>1. G \in [MulStates(m) -> MulStates(m)]
    BY MulTurn
  <2> HIDE DEF G
  <2> QED
    BY <2>1, Recursion
<1>2. f \in [Nat -> MulStates(m)] /\ f[0] = s /\ \A i \in Nat : f[i + 1] = MulModStep(f[i])
  BY <1>1 DEF IsIteration
<1>3. Is([i \in 0..n |-> f[i]])
  <2> DEFINE p == [i \in 0..n |-> f[i]]
  <2>1. ASSUME NEW i \in 0..n PROVE f[i] = IF i = 0 THEN s ELSE MulModStep(p[i - 1])
    <3>1. CASE i = 0
      BY <1>2, <3>1
    <3>2. CASE i # 0
      <4>1. i - 1 \in Nat /\ i - 1 \in 0..n /\ (i - 1) + 1 = i
        BY <3>2
      <4>2. f[(i - 1) + 1] = MulModStep(f[i - 1])
        BY <1>2, <4>1
      <4> QED
        BY <3>2, <4>1, <4>2
    <3> QED
      BY <3>1, <3>2
  <2> QED
    BY <2>1
<1>4. Is(after)
  <2> HIDE DEF Is
  <2> QED
    BY <1>3
<1>5. Loop(MulModStep, s, n) = after[n]
  BY Zenon DEF Loop
<1> HIDE DEF after
<1> DEFINE S == {i \in Nat : i <= n => after[i] = f[i]}
<1>6. \A i \in Nat : i \in S
  <2>1. 0 \in S
    BY <1>2, <1>4
  <2>2. ASSUME NEW i \in Nat, i \in S PROVE i + 1 \in S
    <3> SUFFICES ASSUME i + 1 <= n PROVE after[i + 1] = f[i + 1]
      OBVIOUS
    <3>1. i + 1 \in 0..n /\ i + 1 # 0 /\ (i + 1) - 1 = i
      OBVIOUS
    <3>2. after[i + 1] = MulModStep(after[i])
      BY <1>4, <3>1
    <3> QED
      BY <1>2, <2>2, <3>2
  <2> HIDE DEF S
  <2> QED
    BY <2>1, <2>2, Induction
<1> QED
  BY <1>2, <1>5, <1>6

MulInv(s, k, x, b, m) ==
  /\ s \in MulStates(m)
  /\ Congruent(s.result + s.a * s.b, x, m)
  /\ s.b * Power(2, k) <= b

\* A number that has been halved k times.
LEMMA Halved ==
  ASSUME NEW e \in Nat, NEW k \in Nat, NEW b \in Int, e * Power(2, k) <= b
  PROVE  (e \div 2) * Power(2, k + 1) <= b
<1>1. Power(2, k) \in Nat \ {0} /\ Power(2, k + 1) = 2 * Power(2, k)
  <2>1. 2 \in Int /\ 2 \in Nat \ {0}
    OBVIOUS
  <2>2. Power(2, k) \in Nat \ {0}
    BY <2>1, PowerPositive
  <2>3. Power(2, k + 1) = 2 * Power(2, k)
    BY <2>1, PowerDef
  <2> QED
    BY <2>2, <2>3
<1> DEFINE p == Power(2, k)
           h == e \div 2
<1>2. h \in Nat /\ 2 * h <= e
  BY Halving
<1>3. p \in Nat /\ e * p <= b
  BY <1>1
<1> HIDE DEF p, h
<1>4. p * (2 * h) <= p * e
  BY <1>2, <1>3, Monotone
<1>5. h * (2 * p) = p * (2 * h) /\ p * e = e * p /\ p * e \in Int /\ p * (2 * h) \in Int
  BY <1>2, <1>3
<1>6. h * (2 * p) <= b
  BY <1>3, <1>4, <1>5
<1> QED
  BY <1>1, <1>6 DEF p, h

\* After as many halvings as a word has bits nothing is left of a number of the word.
LEMMA HalvedToNothing ==
  ASSUME NEW e \in Nat, NEW b \in Nat, b < 2 * (IntMax + 1), e * Power(2, Bits) <= b
  PROVE  e = 0
<1> DEFINE p == 2 * (IntMax + 1)
<1>1. p \in Nat /\ p > b /\ e * p <= b
  BY WordSize
<1> HIDE DEF p
<1>2. e >= 1 => e * p >= p
  BY <1>1
<1> QED
  BY <1>1, <1>2

\* mulmod, builtins_math.c, yields the product modulo m, for any unsigned m up to 2^(Bits - 1): its
\* sums do not wrap.
THEOREM MulModExact ==
  ASSUME NEW a \in Int, NEW b \in Nat, b < 2 * (IntMax + 1), NEW m \in Moduli
  PROVE  MulMod(a, b, m) = (a * b) % m
<1> DEFINE s == [a |-> a % m, b |-> b, m |-> m, result |-> 0]
<1>1. m \in Nat \ {0} /\ Bits \in Nat /\ 0 \in 0..(m - 1)
  BY Word, WordSize DEF Moduli
<1>2. a % m \in 0..(m - 1) /\ Congruent(a % m, a, m)
  BY <1>1, CongruentMod
<1>3. s \in MulStates(m)
  BY <1>1, <1>2 DEF MulStates
<1>4. PICK f : /\ f \in [Nat -> MulStates(m)] /\ f[0] = s
               /\ \A i \in Nat : f[i + 1] = MulModStep(f[i])
               /\ Loop(MulModStep, s, Bits) = f[Bits]
  <2> HIDE DEF s
  <2>1. Bits \in Nat
    BY <1>1
  <2> QED
    BY <1>3, <2>1, MulLoop, Zenon
<1>5. MulInv(f[0], 0, a * b, b, m)
  <2>1. Power(2, 0) = 1
    BY PowerDef
  <2>2. (a % m) \in Int /\ s.result + s.a * s.b = (a % m) * b /\ s.b * 1 = b
    BY <1>1, <1>2
  <2>3. Congruent(b, b, m)
    BY <1>1, CongruentSelf
  <2>4. Congruent((a % m) * b, a * b, m)
    BY <1>1, <1>2, <2>2, <2>3, CongruentProduct
  <2> HIDE DEF s
  <2> QED
    BY <1>3, <1>4, <2>1, <2>2, <2>4 DEF MulInv
<1> DEFINE S == {i \in Nat : MulInv(f[i], i, a * b, b, m)}
<1>6. \A i \in Nat : i \in S
  <2>1. 0 \in S
    BY <1>5
  <2>2. ASSUME NEW i \in Nat, i \in S PROVE i + 1 \in S
    <3> DEFINE u == f[i]
               t == f[i + 1]
    <3>1. u \in MulStates(m) /\ t = MulModStep(u) /\ MulInv(u, i, a * b, b, m)
      BY <1>4, <2>2
    <3> HIDE DEF u, t
    <3>2. t \in MulStates(m) /\ t.b = u.b \div 2 /\ Congruent(t.result + t.a * t.b, u.result + u.a * u.b, m)
      BY <3>1, MulTurn
    <3>3. u.b \in Nat /\ u.b * Power(2, i) <= b /\ Congruent(u.result + u.a * u.b, a * b, m)
      BY <3>1 DEF MulInv, MulStates
    <3>4. t.b * Power(2, i + 1) <= b
      BY <3>2, <3>3, Halved
    <3>5. t.result + t.a * t.b \in Int /\ u.result + u.a * u.b \in Int /\ a * b \in Int
      <4>1. t.result \in Int /\ t.a \in Int /\ t.b \in Int /\ u.result \in Int /\ u.a \in Int /\ u.b \in Int
        BY <1>1, <3>1, <3>2 DEF MulStates
      <4> QED
        BY <4>1
    <3>6. Congruent(t.result + t.a * t.b, a * b, m)
      BY <1>1, <3>2, <3>3, <3>5, CongruentTrans
    <3>7. MulInv(t, i + 1, a * b, b, m)
      BY <3>2, <3>4, <3>6 DEF MulInv
    <3> QED
      BY <3>7 DEF t
  <2> HIDE DEF S
  <2> QED
    BY <2>1, <2>2, Induction
<1> DEFINE end == f[Bits]
<1>7. MulInv(end, Bits, a * b, b, m)
  BY <1>1, <1>6
<1>8. MulMod(a, b, m) = end.result
  BY <1>4 DEF MulMod
<1> HIDE DEF end, s, S
<1>9. /\ end.b \in Nat /\ end.b * Power(2, Bits) <= b /\ end.result \in 0..(m - 1) /\ end.a \in 0..(m - 1)
      /\ Congruent(end.result + end.a * end.b, a * b, m)
  BY <1>7 DEF MulInv, MulStates
<1>10. end.b = 0
  BY <1>9, HalvedToNothing
<1>11. end.result + end.a * end.b = end.result
  BY <1>1, <1>9, <1>10
<1>12. (a * b) % m = end.result
  BY <1>1, <1>9, <1>11, ModOfCongruent
<1> QED
  BY <1>8, <1>12

-----------------------------------------------------------------------------
(* modexp. *)

ExpStates(m) == [base : 0..(m - 1), exp : Nat, m : {m}, result : 0..(m - 1)]

ExpNext(s, r, e, b) == [s EXCEPT !.result = r, !.exp = e, !.base = b]

LEMMA ExpFields ==
  ASSUME NEW m, NEW s \in ExpStates(m), NEW r \in 0..(m - 1), NEW e \in Nat, NEW b \in 0..(m - 1)
  PROVE  LET t == ExpNext(s, r, e, b)
         IN t \in ExpStates(m) /\ t.result = r /\ t.exp = e /\ t.base = b
BY DEF ExpStates, ExpNext

\* The product of two residues.
LEMMA ProductReduced ==
  ASSUME NEW m \in Moduli, NEW x \in 0..(m - 1), NEW y \in 0..(m - 1)
  PROVE  MulMod(x, y, m) \in 0..(m - 1) /\ Congruent(MulMod(x, y, m), x * y, m)
<1>1. m \in Nat \ {0} /\ x \in Int /\ y \in Nat /\ y < 2 * (IntMax + 1) /\ x * y \in Int
  BY Word DEF Moduli
<1>2. MulMod(x, y, m) = (x * y) % m
  BY <1>1, MulModExact
<1> QED
  BY <1>1, <1>2, CongruentMod

\* What a turn of the loop keeps: result * base ^ exp, modulo m, while it halves exp.
LEMMA ExpTurn ==
  ASSUME NEW m \in Moduli, NEW s \in ExpStates(m)
  PROVE  LET t == ModExpStep(s)
         IN /\ t \in ExpStates(m)
            /\ t.exp = s.exp \div 2
            /\ Congruent(t.result * Power(t.base, t.exp), s.result * Power(s.base, s.exp), m)
<1> DEFINE times  == MulMod(s.result, s.base, m)
           square == MulMod(s.base, s.base, m)
           rest   == s.exp \div 2
           result == IF s.exp % 2 = 1 THEN times ELSE s.result
           base   == IF rest > 0 THEN square ELSE s.base
           t      == ModExpStep(s)
<1>1. s.base \in 0..(m - 1) /\ s.exp \in Nat /\ s.m = m /\ s.result \in 0..(m - 1)
  BY DEF ExpStates
<1>2. m \in Nat \ {0} /\ s.base \in Int /\ s.result \in Int
  BY <1>1, Word DEF Moduli
<1>3. rest \in Nat
  BY <1>1, Halving
<1>4. times \in 0..(m - 1) /\ Congruent(times, s.result * s.base, m)
  BY <1>1, ProductReduced
<1>5. square \in 0..(m - 1) /\ Congruent(square, s.base * s.base, m)
  BY <1>1, ProductReduced
<1>6. t = IF s.exp = 0 THEN s ELSE ExpNext(s, result, rest, base)
  BY <1>1 DEF ModExpStep, ExpNext
<1> HIDE DEF t, times, square
<1>7. result \in 0..(m - 1) /\ base \in 0..(m - 1)
  BY <1>1, <1>4, <1>5
<1>8. CASE s.exp = 0
  <2>1. t = s /\ rest = 0
    BY <1>6, <1>8
  <2>2. Power(s.base, s.exp) \in Int
    BY <1>1, <1>2, PowerDef
  <2>3. s.result * Power(s.base, s.exp) \in Int
    BY <1>2, <2>2
  <2> QED
    BY <1>2, <1>8, <2>1, <2>3, CongruentSelf DEF t
<1>9. CASE s.exp # 0
  <2>1. t \in ExpStates(m) /\ t.result = result /\ t.exp = rest /\ t.base = base
    <3> HIDE DEF result, rest, base
    <3>1. t = ExpNext(s, result, rest, base)
      BY <1>6, <1>9
    <3>2. LET u == ExpNext(s, result, rest, base)
          IN u \in ExpStates(m) /\ u.result = result /\ u.exp = rest /\ u.base = base
      BY <1>3, <1>7, ExpFields
    <3> QED
      BY <3>1, <3>2
  <2> DEFINE factor == IF s.exp % 2 = 1 THEN s.base ELSE 1
             p      == Power(s.base * s.base, rest)
             q      == Power(base, rest)
  <2>2. p \in Int /\ Power(s.base, s.exp) = factor * p
    BY <1>1, <1>2, PowerHalved
  <2>3. factor \in Int /\ result \in Int /\ base \in Int /\ square \in Int /\ s.base * s.base \in Int
    BY <1>2, <1>5, <1>7
  <2>4. Congruent(result, s.result * factor, m)
    <3>1. CASE s.exp % 2 = 1
      <4>1. result = times /\ factor = s.base
        BY <3>1
      <4> QED
        BY <1>4, <4>1
    <3>2. CASE s.exp % 2 # 1
      <4>1. result = s.result /\ s.result * factor = s.result
        BY <1>2, <3>2
      <4> QED
        BY <1>2, <4>1, CongruentSelf
    <3> QED
      BY <3>1, <3>2
  <2> HIDE DEF factor, result
  <2>5. q \in Int /\ Congruent(q, p, m)
    <3>1. CASE rest > 0
      <4>1. base = square
        BY <3>1
      <4>2. Congruent(Power(square, rest), p, m)
        BY <1>2, <1>3, <1>5, <2>3, CongruentPower
      <4>3. q \in Int
        BY <1>3, <2>3, PowerDef
      <4> QED
        BY <4>1, <4>2, <4>3
    <3>2. CASE rest = 0
      <4>1. p = 1 /\ q = 1 /\ 1 \in Int
        BY <2>3, <3>2, PowerDef
      <4> QED
        BY <1>2, <4>1, CongruentSelf
    <3> QED
      BY <1>3, <3>1, <3>2
  <2> HIDE DEF p, q, rest, base
  <2>6. s.result * factor \in Int /\ (s.result * factor) * p = s.result * (factor * p)
    BY <1>2, <2>2, <2>3
  <2>7. Congruent(result * q, (s.result * factor) * p, m)
    BY <1>2, <2>2, <2>3, <2>4, <2>5, <2>6, CongruentProduct
  <2>8. Congruent(result * q, s.result * Power(s.base, s.exp), m)
    BY <2>2, <2>6, <2>7
  <2> QED
    BY <2>1, <2>8 DEF t, q, rest
<1> QED
  BY <1>8, <1>9

\* The loop as a sequence of states.
LEMMA ExpLoop ==
  ASSUME NEW m \in Moduli, NEW s \in ExpStates(m), NEW n \in Nat
  PROVE  \E f : /\ f \in [Nat -> ExpStates(m)] /\ f[0] = s
                /\ \A i \in Nat : f[i + 1] = ModExpStep(f[i])
                /\ Loop(ModExpStep, s, n) = f[n]
<1> DEFINE G == [x \in ExpStates(m) |-> ModExpStep(x)]
           Is(p) == p = [i \in 0..n |-> IF i = 0 THEN s ELSE ModExpStep(p[i - 1])]
           after == CHOOSE p : Is(p)
<1>1. PICK f : IsIteration(f, ExpStates(m), G, s)
  <2>1. G \in [ExpStates(m) -> ExpStates(m)]
    BY ExpTurn
  <2> HIDE DEF G
  <2> QED
    BY <2>1, Recursion
<1>2. f \in [Nat -> ExpStates(m)] /\ f[0] = s /\ \A i \in Nat : f[i + 1] = ModExpStep(f[i])
  BY <1>1 DEF IsIteration
<1>3. Is([i \in 0..n |-> f[i]])
  <2> DEFINE p == [i \in 0..n |-> f[i]]
  <2>1. ASSUME NEW i \in 0..n PROVE f[i] = IF i = 0 THEN s ELSE ModExpStep(p[i - 1])
    <3>1. CASE i = 0
      BY <1>2, <3>1
    <3>2. CASE i # 0
      <4>1. i - 1 \in Nat /\ i - 1 \in 0..n /\ (i - 1) + 1 = i
        BY <3>2
      <4>2. f[(i - 1) + 1] = ModExpStep(f[i - 1])
        BY <1>2, <4>1
      <4> QED
        BY <3>2, <4>1, <4>2
    <3> QED
      BY <3>1, <3>2
  <2> QED
    BY <2>1
<1>4. Is(after)
  <2> HIDE DEF Is
  <2> QED
    BY <1>3
<1>5. Loop(ModExpStep, s, n) = after[n]
  BY Zenon DEF Loop
<1> HIDE DEF after
<1> DEFINE S == {i \in Nat : i <= n => after[i] = f[i]}
<1>6. \A i \in Nat : i \in S
  <2>1. 0 \in S
    BY <1>2, <1>4
  <2>2. ASSUME NEW i \in Nat, i \in S PROVE i + 1 \in S
    <3> SUFFICES ASSUME i + 1 <= n PROVE after[i + 1] = f[i + 1]
      OBVIOUS
    <3>1. i + 1 \in 0..n /\ i + 1 # 0 /\ (i + 1) - 1 = i
      OBVIOUS
    <3>2. after[i + 1] = ModExpStep(after[i])
      BY <1>4, <3>1
    <3> QED
      BY <1>2, <2>2, <3>2
  <2> HIDE DEF S
  <2> QED
    BY <2>1, <2>2, Induction
<1> QED
  BY <1>2, <1>5, <1>6

ExpInv(s, k, x, b, m) ==
  /\ s \in ExpStates(m)
  /\ Congruent(s.result * Power(s.base, s.exp), x, m)
  /\ s.exp * Power(2, k) <= b

\* modexp, builtins_math.c, yields the power modulo m.
THEOREM ModExpExact ==
  ASSUME NEW a \in Int, NEW b \in Nat, b < 2 * (IntMax + 1), NEW m \in Moduli
  PROVE  ModExp(a, b, m) = Power(a, b) % m
<1> DEFINE s == [base |-> a % m, exp |-> b, m |-> m, result |-> 1 % m]
           x == Power(a, b)
<1>1. m \in Nat \ {0} /\ Bits \in Nat /\ 1 \in Int
  BY Word, WordSize DEF Moduli
<1>2. a % m \in 0..(m - 1) /\ Congruent(a % m, a, m) /\ a % m \in Int
  BY <1>1, CongruentMod
<1>3. 1 % m \in 0..(m - 1) /\ Congruent(1 % m, 1, m) /\ 1 % m \in Int
  BY <1>1, CongruentMod
<1>4. s \in ExpStates(m)
  BY <1>2, <1>3 DEF ExpStates
<1>5. PICK f : /\ f \in [Nat -> ExpStates(m)] /\ f[0] = s
               /\ \A i \in Nat : f[i + 1] = ModExpStep(f[i])
               /\ Loop(ModExpStep, s, Bits) = f[Bits]
  <2> HIDE DEF s
  <2>1. Bits \in Nat
    BY <1>1
  <2> QED
    BY <1>4, <2>1, ExpLoop, Zenon
<1>6. x \in Int
  BY PowerDef
<1>7. ExpInv(f[0], 0, x, b, m)
  <2>1. Power(2, 0) = 1
    BY PowerDef
  <2> DEFINE r == 1 % m
             q == Power(a % m, b)
  <2>2. s.result = r /\ s.base = a % m /\ s.exp = b /\ b * 1 = b
    OBVIOUS
  <2>3. q \in Int
    BY <1>2, PowerDef
  <2>4. Congruent(q, x, m)
    BY <1>1, <1>2, CongruentPower
  <2> HIDE DEF r, q, s, x
  <2>5. Congruent(r * q, 1 * x, m)
    BY <1>1, <1>3, <1>6, <2>3, <2>4, CongruentProduct DEF r
  <2>6. 1 * x = x
    BY <1>6
  <2> QED
    BY <1>4, <1>5, <2>1, <2>2, <2>5, <2>6 DEF ExpInv, q
<1> HIDE DEF x
<1> DEFINE S == {i \in Nat : ExpInv(f[i], i, x, b, m)}
<1>8. \A i \in Nat : i \in S
  <2>1. 0 \in S
    BY <1>7
  <2>2. ASSUME NEW i \in Nat, i \in S PROVE i + 1 \in S
    <3> DEFINE u == f[i]
               t == f[i + 1]
               p == u.result * Power(u.base, u.exp)
               q == t.result * Power(t.base, t.exp)
    <3>1. u \in ExpStates(m) /\ t = ModExpStep(u) /\ ExpInv(u, i, x, b, m)
      BY <1>5, <2>2
    <3> HIDE DEF u, t
    <3>2. t \in ExpStates(m) /\ t.exp = u.exp \div 2 /\ Congruent(q, p, m)
      BY <3>1, ExpTurn
    <3>3. u.exp \in Nat /\ u.exp * Power(2, i) <= b /\ Congruent(p, x, m)
      BY <3>1 DEF ExpInv, ExpStates
    <3>4. t.exp * Power(2, i + 1) <= b
      BY <3>2, <3>3, Halved
    <3>5. p \in Int /\ q \in Int
      <4>1. /\ t.result \in Int /\ t.base \in Int /\ t.exp \in Nat
            /\ u.result \in Int /\ u.base \in Int /\ u.exp \in Nat
        BY <1>1, <3>1, <3>2 DEF ExpStates
      <4>2. Power(t.base, t.exp) \in Int
        BY <4>1, PowerDef
      <4>3. Power(u.base, u.exp) \in Int
        BY <4>1, PowerDef
      <4> QED
        BY <4>1, <4>2, <4>3
    <3> HIDE DEF p, q
    <3>6. Congruent(q, x, m)
      BY <1>1, <1>6, <3>2, <3>3, <3>5, CongruentTrans
    <3>7. ExpInv(t, i + 1, x, b, m)
      BY <3>2, <3>4, <3>6 DEF ExpInv, q
    <3> QED
      BY <3>7 DEF t
  <2> HIDE DEF S
  <2> QED
    BY <2>1, <2>2, Induction
<1> DEFINE end == f[Bits]
<1>9. ExpInv(end, Bits, x, b, m)
  BY <1>1, <1>8
<1>10. ModExp(a, b, m) = end.result
  BY <1>5 DEF ModExp
<1> HIDE DEF end, s, S
<1>11. /\ end.exp \in Nat /\ end.exp * Power(2, Bits) <= b /\ end.result \in 0..(m - 1)
       /\ end.base \in 0..(m - 1)
       /\ Congruent(end.result * Power(end.base, end.exp), x, m)
  BY <1>9 DEF ExpInv, ExpStates
<1>12. end.exp = 0
  BY <1>11, HalvedToNothing
<1>13. end.result * Power(end.base, end.exp) = end.result
  <2>1. end.base \in Int /\ end.result \in Int
    BY <1>1, <1>11
  <2>2. Power(end.base, 0) = 1
    BY <2>1, PowerDef
  <2> QED
    BY <1>12, <2>1, <2>2
<1>14. x % m = end.result
  BY <1>1, <1>6, <1>11, <1>13, ModOfCongruent
<1> QED
  BY <1>10, <1>14 DEF x

\* The power as PyNumbers computes it, reduced at every step.
LEMMA ModularPowerIs ==
  ASSUME NEW base \in Int, NEW n \in Nat, NEW m \in Nat \ {0}
  PROVE  ModularPower(base, n, m) = Power(base, n) % m
<1> DEFINE Is(p) == p = [i \in 0..n |-> IF i = 0 THEN 1 % m ELSE (p[i - 1] * base) % m]
           power == CHOOSE p : Is(p)
           q == [i \in 0..n |-> Power(base, i) % m]
<1>1. ASSUME NEW i \in Nat PROVE ((Power(base, i) % m) * base) % m = Power(base, i + 1) % m
  <2> DEFINE x == Power(base, i)
  <2>1. x \in Int /\ Power(base, i + 1) = base * x
    BY PowerDef
  <2> HIDE DEF x
  <2>2. (x % m) \in Int /\ Congruent(x % m, x, m) /\ Congruent(base, base, m)
    <3>1. x % m \in 0..(m - 1) /\ Congruent(x % m, x, m)
      BY <2>1, CongruentMod
    <3>2. Congruent(base, base, m)
      BY CongruentSelf
    <3> QED
      BY <3>1, <3>2
  <2>3. Congruent((x % m) * base, x * base, m) /\ (x % m) * base \in Int /\ x * base \in Int
    BY <2>1, <2>2, CongruentProduct
  <2>4. ((x % m) * base) % m = (x * base) % m
    BY <2>3, SameMod
  <2>5. x * base = base * x
    BY <2>1
  <2> QED
    BY <2>1, <2>4, <2>5 DEF x
<1>2. Power(base, 0) = 1
  BY PowerDef
<1>3. Is(q)
  <2>1. ASSUME NEW i \in 0..n PROVE q[i] = IF i = 0 THEN 1 % m ELSE (q[i - 1] * base) % m
    <3>1. CASE i = 0
      BY <1>2, <3>1
    <3>2. CASE i # 0
      <4>1. PICK k \in Nat : k = i - 1 /\ i = k + 1 /\ k \in 0..n
        BY <3>2
      <4>2. q[i] = Power(base, k + 1) % m /\ q[i - 1] = Power(base, k) % m
        BY <4>1
      <4> QED
        BY <1>1, <3>2, <4>2
    <3> QED
      BY <3>1, <3>2
  <2> QED
    BY <2>1
<1>4. Is(power)
  <2> HIDE DEF Is, q
  <2> QED
    BY <1>3
<1>5. ModularPower(base, n, m) = power[n]
  BY Zenon DEF ModularPower
<1> HIDE DEF power
<1> DEFINE S == {i \in Nat : i <= n => power[i] = Power(base, i) % m}
<1>6. \A i \in Nat : i \in S
  <2>1. 0 \in S
    BY <1>2, <1>4
  <2>2. ASSUME NEW i \in Nat, i \in S PROVE i + 1 \in S
    <3> SUFFICES ASSUME i + 1 <= n PROVE power[i + 1] = Power(base, i + 1) % m
      OBVIOUS
    <3>1. i + 1 \in 0..n /\ i + 1 # 0 /\ (i + 1) - 1 = i
      OBVIOUS
    <3>2. power[i + 1] = (power[i] * base) % m
      BY <1>4, <3>1
    <3>3. power[i] = Power(base, i) % m
      BY <2>2
    <3> QED
      BY <1>1, <3>2, <3>3
  <2> HIDE DEF S
  <2> QED
    BY <2>1, <2>2, Induction
<1> QED
  BY <1>5, <1>6

-----------------------------------------------------------------------------
(* pow with a modulus. *)

\* C's remainder by a positive modulus, made positive, is the remainder.
LEMMA PositiveRemainder ==
  ASSUME NEW a \in Int, NEW b \in Int, b # 0, NEW m \in Nat \ {0}, m = Magnitude(b)
  PROVE  \E t \in Nat : /\ t < m
                        /\ Remainder(a, b) = IF a < 0 THEN -t ELSE t
                        /\ Congruent(IF a < 0 THEN -t ELSE t, a, m)
<1>1. \E q, t \in Nat : /\ Magnitude(a) = Magnitude(b) * q + t
                        /\ t < Magnitude(b)
                        /\ Quotient(a, b) = IF (a < 0) = (b < 0) THEN q ELSE -q
                        /\ Remainder(a, b) = IF a < 0 THEN -t ELSE t
  BY TruncatedDivision, Zenon
<1>2. PICK q, t \in Nat : /\ Magnitude(a) = m * q + t
                          /\ t < m
                          /\ Remainder(a, b) = IF a < 0 THEN -t ELSE t
  BY <1>1, Zenon
<1>3. Magnitude(a) = IF a < 0 THEN -a ELSE a
  BY DEF Magnitude
<1>4. PICK u \in Int : u = IF a < 0 THEN q ELSE -q
  OBVIOUS
<1>5. m * u = IF a < 0 THEN m * q ELSE -(m * q)
  BY <1>4
<1>6. (IF a < 0 THEN -t ELSE t) - a = m * u
  <2>1. m * q \in Int
    OBVIOUS
  <2> QED
    BY <1>2, <1>3, <1>5, <2>1
<1>7. Congruent(IF a < 0 THEN -t ELSE t, a, m)
  BY <1>4, <1>6 DEF Congruent
<1> QED
  BY <1>2, <1>7

LEMMA SignedModulus ==
  ASSUME NEW m \in Moduli
  PROVE  /\ m <= IntMax => Signed(m) = m
         /\ m = IntMax + 1 => Signed(m) = IntMin
<1>1. m \in Nat /\ m < 2 * (IntMax + 1)
  BY Word DEF Moduli
<1>2. Unsigned(m) = m
  BY <1>1, UnsignedOfWord
<1> QED
  BY <1>1, <1>2, Word DEF Signed

\* The residue of the base, for a modulus that is read as signed: 2^(Bits - 1) is
\* INT64_MIN then, and the sum wraps to what it should be.
LEMMA ResidueIs ==
  ASSUME NEW a \in Int, NEW m \in Moduli
  PROVE  Residue(a, Signed(m)) \in 0..(m - 1) /\ Congruent(Residue(a, Signed(m)), a, m)
<1> DEFINE b == Signed(m)
<1>1. m \in Nat \ {0} /\ m <= IntMax + 1
  BY Word DEF Moduli
<1>2. (m <= IntMax /\ b = m) \/ (m = IntMax + 1 /\ b = -m)
  BY <1>1, SignedModulus, Word
<1>3. b \in Int /\ b # 0 /\ m = Magnitude(b)
  BY <1>1, <1>2 DEF Magnitude
<1> HIDE DEF b
<1>4. PICK t \in Nat : /\ t < m
                       /\ Remainder(a, b) = IF a < 0 THEN -t ELSE t
                       /\ Congruent(IF a < 0 THEN -t ELSE t, a, m)
  BY <1>1, <1>3, PositiveRemainder
<1> DEFINE r == Remainder(a, b)
<1>5. Residue(a, b) = IF r < 0 THEN Signed(r + b) ELSE r
  BY DEF Residue
<1>6. r \in Int /\ Congruent(r, a, m) /\ r = IF a < 0 THEN -t ELSE t
  BY <1>4
<1> HIDE DEF r
<1>7. CASE ~(r < 0)
  <2>1. r \in 0..(m - 1)
    BY <1>1, <1>4, <1>6, <1>7
  <2> QED
    BY <1>5, <1>6, <1>7, <2>1 DEF b
<1>8. CASE r < 0
  <2>1. r = -t /\ t >= 1
    BY <1>4, <1>6, <1>8
  <2>2. r + m \in Ints /\ r + m \in 0..(m - 1) /\ r + m \in Int
    BY <1>1, <1>4, <2>1, Word DEF Ints
  <2>3. Signed(r + b) = r + m
    <3>1. CASE b = m
      BY <2>2, <3>1, SignedOfInts
    <3>2. CASE b = -m /\ m = IntMax + 1
      <4> DEFINE n == 2 * (IntMax + 1)
                 y == Signed(r + b)
      <4>1. n \in Nat /\ n = m + m /\ r + b \in Int /\ r + b = r + m - n
        BY <1>1, <1>6, <3>2, Word
      <4>2. y \in Ints /\ \E u \in Int : y = (r + b) - n * u
        BY <4>1, SignedIs
      <4> HIDE DEF n, y
      <4>3. PICK u \in Int : y = (r + b) - n * u
        BY <4>2
      <4>4. PICK w \in Int : w = u + 1
        OBVIOUS
      <4>5. n * w = n * u + n /\ n * u \in Int
        BY <4>1, <4>4
      <4>6. y = (r + m) - n * w
        BY <1>1, <1>6, <4>1, <4>3, <4>5
      <4>7. y = r + m
        BY <2>2, <4>2, <4>6, SameWord DEF n
      <4> QED
        BY <4>7 DEF y
    <3> QED
      BY <1>2, <3>1, <3>2
  <2>4. Congruent(r + m, a, m)
    <3>1. PICK u \in Int : r - a = m * u
      BY <1>6 DEF Congruent
    <3>2. PICK w \in Int : w = u + 1
      OBVIOUS
    <3>3. m * w = m * u + m /\ m * u \in Int
      BY <1>1, <3>2
    <3>4. (r + m) - a = m * w
      BY <1>1, <1>6, <3>1, <3>3
    <3> QED
      BY <3>4 DEF Congruent
  <2> QED
    BY <1>5, <1>8, <2>2, <2>3, <2>4 DEF b
<1> QED
  BY <1>7, <1>8

\* The power of the residue of a number is the power of the number.
LEMMA PowerOfResidue ==
  ASSUME NEW a \in Int, NEW r \in Int, NEW m \in Moduli, Congruent(r, a, m),
         NEW n \in Nat, n < 2 * (IntMax + 1)
  PROVE  ModExp(r, n, m) = Power(a, n) % m
<1>1. m \in Nat \ {0}
  BY Word DEF Moduli
<1>2. ModExp(r, n, m) = Power(r, n) % m
  BY ModExpExact
<1>3. Congruent(Power(r, n), Power(a, n), m)
  BY <1>1, CongruentPower
<1>4. Power(r, n) \in Int
  BY PowerDef
<1>5. Power(a, n) \in Int
  BY PowerDef
<1> QED
  BY <1>1, <1>2, <1>3, <1>4, <1>5, SameMod

-----------------------------------------------------------------------------
(* mod_inverse. *)

EuclidStates == [old_r : 0..IntMax, r : 0..IntMax, old_s : Int, s : Int]

EuclidNext(u, old_r, r, old_s, s) ==
  [u EXCEPT !.old_r = old_r, !.r = r, !.old_s = old_s, !.s = s]

LEMMA EuclidFields ==
  ASSUME NEW u \in EuclidStates, NEW old_r \in 0..IntMax, NEW r \in 0..IntMax,
         NEW old_s \in Int, NEW s \in Int
  PROVE  LET t == EuclidNext(u, old_r, r, old_s, s)
         IN t \in EuclidStates /\ t.old_r = old_r /\ t.r = r /\ t.old_s = old_s /\ t.s = s
BY DEF EuclidStates, EuclidNext

LEMMA EuclidTurn ==
  ASSUME NEW u \in EuclidStates
  PROVE  LET t == EuclidStep(u)
         IN /\ t \in EuclidStates
            /\ u.r = 0 => t = u
            /\ u.r # 0 => \E q \in Nat : /\ t.old_r = u.r
                                         /\ t.r = u.old_r - q * u.r
                                         /\ t.r < u.r
                                         /\ t.old_s = u.s
                                         /\ t.s = Signed(u.old_s - q * u.s)
<1> DEFINE q == Quotient(u.old_r, u.r)
           r == Signed(u.old_r - q * u.r)
           s == Signed(u.old_s - q * u.s)
           t == EuclidStep(u)
<1>1. /\ u.old_r \in Nat /\ u.r \in Nat /\ u.old_r <= IntMax /\ u.r <= IntMax
      /\ u.old_s \in Int /\ u.s \in Int /\ u.r \in 0..IntMax
  BY Word DEF EuclidStates
<1>2. t = IF u.r = 0 THEN u ELSE EuclidNext(u, u.r, r, u.s, s)
  BY DEF EuclidStep, EuclidNext
<1>3. CASE u.r = 0
  BY <1>2, <1>3
<1>4. CASE u.r # 0
  <2>1. q = u.old_r \div u.r
    BY <1>1, <1>4, QuotientOf
  <2>2. /\ u.old_r \div u.r \in Nat
        /\ u.r * (u.old_r \div u.r) <= u.old_r
        /\ u.old_r < u.r * (u.old_r \div u.r) + u.r
    <3>1. u.r > 0
      BY <1>1, <1>4
    <3> QED
      BY <1>1, <3>1, NaturalDivision
  <2>3. q \in Nat /\ u.r * q <= u.old_r /\ u.old_r < u.r * q + u.r
    BY <2>1, <2>2
  <2> HIDE DEF q
  <2>4. q * u.r = u.r * q /\ q * u.r \in Int /\ q * u.s \in Int
    BY <1>1, <2>3
  <2>5. PICK d \in Int : d = u.old_r - q * u.r /\ d >= 0 /\ d < u.r
    BY <1>1, <2>3, <2>4
  <2>6. d \in Ints
    BY <1>1, <2>5, Word DEF Ints
  <2>7. r = d
    BY <2>5, <2>6, SignedOfInts
  <2>8. s \in Int
    <3>1. u.old_s - q * u.s \in Int
      BY <1>1, <2>4
    <3> QED
      BY <3>1, SignedIs, Word DEF Ints
  <2> HIDE DEF r, s, t
  <2>9. r \in 0..IntMax
    BY <1>1, <2>5, <2>7, Word
  <2>10. t = EuclidNext(u, u.r, r, u.s, s)
    BY <1>2, <1>4
  <2>11. LET n == EuclidNext(u, u.r, r, u.s, s)
         IN n \in EuclidStates /\ n.old_r = u.r /\ n.r = r /\ n.old_s = u.s /\ n.s = s
    BY <1>1, <2>8, <2>9, EuclidFields
  <2>12. t \in EuclidStates /\ t.old_r = u.r /\ t.r = r /\ t.old_s = u.s /\ t.s = s
    BY <2>10, <2>11
  <2>13. s = Signed(u.old_s - q * u.s)
    BY DEF s
  <2> QED
    BY <1>4, <2>3, <2>5, <2>7, <2>12, <2>13 DEF t
<1> QED
  BY <1>3, <1>4

\* The coefficients have opposite signs, and with the remainders they make up m: so
\* none is past m.
Bounded(old_r, r, old_s, s, m) ==
  \/ old_s >= 0 /\ s <= 0 /\ old_s * r - s * old_r = m
  \/ old_s <= 0 /\ s >= 0 /\ s * old_r - old_s * r = m

LEMMA BoundedKept ==
  ASSUME NEW m \in Nat, NEW old_r \in Nat, NEW r \in Nat, NEW old_s \in Int, NEW s \in Int,
         NEW q \in Nat, NEW d \in Nat, r # 0, d = old_r - q * r,
         Bounded(old_r, r, old_s, s, m)
  PROVE  Bounded(r, d, s, old_s - q * s, m) /\ old_s - q * s \in (-m)..m
<1> DEFINE n == old_s - q * s
<1>1. n \in Int /\ q * s \in Int /\ n * r \in Int /\ s * d \in Int
  OBVIOUS
<1>2. n * r - s * d = old_s * r - s * old_r
  <2>1. n * r = old_s * r - (q * s) * r
    OBVIOUS
  <2>2. s * d = s * old_r - s * (q * r)
    OBVIOUS
  <2>3. s * (q * r) = (q * s) * r /\ old_s * r \in Int /\ s * old_r \in Int /\ (q * s) * r \in Int
    OBVIOUS
  <2> HIDE DEF n
  <2> QED
    BY <2>1, <2>2, <2>3
<1>3. CASE old_s >= 0 /\ s <= 0 /\ old_s * r - s * old_r = m
  <2>1. q * s <= 0
    <3>1. q * (-s) \in Nat
      BY <1>3
    <3>2. q * s = -(q * (-s))
      OBVIOUS
    <3> QED
      BY <3>1, <3>2
  <2>2. n >= 0
    BY <1>1, <1>3, <2>1
  <2> HIDE DEF n
  <2>3. n * r - s * d = m
    BY <1>2, <1>3
  <2>4. s * d <= 0
    <3>1. (-s) * d \in Nat
      BY <1>3
    <3>2. s * d = -((-s) * d)
      OBVIOUS
    <3> QED
      BY <3>1, <3>2
  <2>5. n * r >= n
    BY <1>1, <2>2
  <2>6. n <= m
    BY <1>1, <2>3, <2>4, <2>5
  <2> QED
    BY <1>1, <1>3, <2>2, <2>3, <2>6 DEF Bounded, n
<1>4. CASE old_s <= 0 /\ s >= 0 /\ s * old_r - old_s * r = m
  <2>1. q * s >= 0
    BY <1>4
  <2>2. n <= 0
    BY <1>1, <1>4, <2>1
  <2> HIDE DEF n
  <2>3. s * d - n * r = m
    <3>1. old_s * r \in Int /\ s * old_r \in Int
      OBVIOUS
    <3> QED
      BY <1>1, <1>2, <1>4, <3>1
  <2>4. s * d >= 0
    BY <1>4
  <2>5. PICK z \in Nat : z = -n
    BY <1>1, <2>2
  <2>6. z * r >= z /\ z * r = -(n * r)
    BY <1>1, <2>5
  <2>7. z <= m
    BY <1>1, <2>3, <2>4, <2>6
  <2> QED
    BY <1>1, <1>4, <2>2, <2>3, <2>5, <2>7 DEF Bounded, n
<1> QED
  BY <1>3, <1>4 DEF Bounded

\* x is a sum of multiples of two numbers.
Combined(x, old_r, r) == \E v, w \in Int : x = v * old_r + w * r

LEMMA CombinedKept ==
  ASSUME NEW x \in Int, NEW old_r \in Int, NEW r \in Int, NEW q \in Int, NEW d \in Int,
         d = old_r - q * r, Combined(x, old_r, r)
  PROVE  Combined(x, r, d)
<1>1. PICK v \in Int, w \in Int : x = v * old_r + w * r
  BY DEF Combined
<1>2. PICK p \in Int : p = w + v * q
  OBVIOUS
<1>3. p * r = w * r + v * (q * r) /\ v * d = v * old_r - v * (q * r)
  BY <1>2
<1>4. w * r \in Int /\ v * (q * r) \in Int /\ v * old_r \in Int
  OBVIOUS
<1>5. x = p * r + v * d
  BY <1>1, <1>3, <1>4
<1> QED
  BY <1>5 DEF Combined

LEMMA CoefficientKept ==
  ASSUME NEW m \in Nat \ {0}, NEW a \in Int, NEW old_r \in Int, NEW r \in Int, NEW old_s \in Int,
         NEW s \in Int, NEW q \in Int,
         Congruent(old_s * a, old_r, m), Congruent(s * a, r, m)
  PROVE  Congruent((old_s - q * s) * a, old_r - q * r, m)
<1>1. old_s * a \in Int /\ s * a \in Int /\ q * (s * a) \in Int /\ q * r \in Int
  OBVIOUS
<1>2. Congruent(q, q, m)
  BY CongruentSelf
<1>3. Congruent(q * (s * a), q * r, m)
  BY <1>1, <1>2, CongruentProduct
<1>4. Congruent(old_s * a - q * (s * a), old_r - q * r, m)
  BY <1>1, <1>3, CongruentSum
<1>5. (old_s - q * s) * a = old_s * a - q * (s * a)
  OBVIOUS
<1> QED
  BY <1>4, <1>5

\* A turn halves the product of the remainders at least.
LEMMA ProductHalved ==
  ASSUME NEW old_r \in Nat, NEW r \in Nat, NEW q \in Nat, NEW d \in Nat, r < old_r, d < r,
         d = old_r - q * r
  PROVE  2 * (r * d) <= old_r * r
<1>1. q >= 1
  <2>1. q = 0 => q * r = 0
    OBVIOUS
  <2> QED
    BY <2>1
<1>2. q * r >= r
  BY <1>1
<1>3. 2 * d <= old_r
  BY <1>2
<1>4. r * (2 * d) <= r * old_r
  BY <1>3, Monotone
<1>5. r * (2 * d) = 2 * (r * d) /\ r * old_r = old_r * r
  OBVIOUS
<1> QED
  BY <1>4, <1>5

\* The loop as a sequence of states.
LEMMA EuclidLoop ==
  ASSUME NEW s \in EuclidStates, NEW n \in Nat
  PROVE  \E f : /\ f \in [Nat -> EuclidStates] /\ f[0] = s
                /\ \A i \in Nat : f[i + 1] = EuclidStep(f[i])
                /\ Loop(EuclidStep, s, n) = f[n]
<1> DEFINE G == [x \in EuclidStates |-> EuclidStep(x)]
           Is(p) == p = [i \in 0..n |-> IF i = 0 THEN s ELSE EuclidStep(p[i - 1])]
           after == CHOOSE p : Is(p)
<1>1. PICK f : IsIteration(f, EuclidStates, G, s)
  <2>1. G \in [EuclidStates -> EuclidStates]
    BY EuclidTurn
  <2> HIDE DEF G
  <2> QED
    BY <2>1, Recursion
<1>2. f \in [Nat -> EuclidStates] /\ f[0] = s /\ \A i \in Nat : f[i + 1] = EuclidStep(f[i])
  BY <1>1 DEF IsIteration
<1>3. Is([i \in 0..n |-> f[i]])
  <2> DEFINE p == [i \in 0..n |-> f[i]]
  <2>1. ASSUME NEW i \in 0..n PROVE f[i] = IF i = 0 THEN s ELSE EuclidStep(p[i - 1])
    <3>1. CASE i = 0
      BY <1>2, <3>1
    <3>2. CASE i # 0
      <4>1. i - 1 \in Nat /\ i - 1 \in 0..n /\ (i - 1) + 1 = i
        BY <3>2
      <4>2. f[(i - 1) + 1] = EuclidStep(f[i - 1])
        BY <1>2, <4>1
      <4> QED
        BY <3>2, <4>1, <4>2
    <3> QED
      BY <3>1, <3>2
  <2> QED
    BY <2>1
<1>4. Is(after)
  <2> HIDE DEF Is
  <2> QED
    BY <1>3
<1>5. Loop(EuclidStep, s, n) = after[n]
  BY Zenon DEF Loop
<1> HIDE DEF after
<1> DEFINE S == {i \in Nat : i <= n => after[i] = f[i]}
<1>6. \A i \in Nat : i \in S
  <2>1. 0 \in S
    BY <1>2, <1>4
  <2>2. ASSUME NEW i \in Nat, i \in S PROVE i + 1 \in S
    <3> SUFFICES ASSUME i + 1 <= n PROVE after[i + 1] = f[i + 1]
      OBVIOUS
    <3>1. i + 1 \in 0..n /\ i + 1 # 0 /\ (i + 1) - 1 = i
      OBVIOUS
    <3>2. after[i + 1] = EuclidStep(after[i])
      BY <1>4, <3>1
    <3> QED
      BY <1>2, <2>2, <3>2
  <2> HIDE DEF S
  <2> QED
    BY <2>1, <2>2, Induction
<1> QED
  BY <1>2, <1>5, <1>6

\* After k turns on a and m.
EuclidInv(u, k, a, m) ==
  /\ u \in EuclidStates
  /\ u.old_s \in (-m)..m /\ u.s \in (-m)..m
  /\ Congruent(u.old_s * a, u.old_r, m) /\ Congruent(u.s * a, u.r, m)
  /\ Bounded(u.old_r, u.r, u.old_s, u.s, m)
  /\ Combined(a, u.old_r, u.r) /\ Combined(m, u.old_r, u.r)
  /\ IF k = 0 THEN u.old_r = a /\ u.r = m ELSE u.r < u.old_r
  /\ (u.old_r * u.r) * Power(2, k) <= 2 * (m * m)

LEMMA EuclidKeeps ==
  ASSUME NEW m \in Nat \ {0}, m <= IntMax, NEW a \in 0..(m - 1), NEW k \in Nat, NEW u,
         EuclidInv(u, k, a, m)
  PROVE  EuclidInv(EuclidStep(u), k + 1, a, m)
<1> DEFINE t == EuclidStep(u)
           bound == 2 * (m * m)
<1>1. u \in EuclidStates
  BY DEF EuclidInv
<1>2. /\ u.old_r \in Nat /\ u.r \in Nat /\ u.old_s \in Int /\ u.s \in Int /\ a \in Nat /\ a < m
      /\ u.old_r \in Int /\ u.r \in Int /\ a \in Int /\ m \in Int /\ k + 1 # 0 /\ bound \in Nat
  <2>1. m * m \in Nat
    OBVIOUS
  <2> QED
    BY <1>1, <2>1, Word DEF EuclidStates
<1>3. /\ Power(2, k) \in Nat /\ Power(2, k + 1) \in Nat /\ Power(2, k + 1) = 2 * Power(2, k)
      /\ (k = 0 => Power(2, k) = 1)
  <2>1. 2 \in Int /\ 2 \in Nat \ {0}
    OBVIOUS
  <2>2. Power(2, k) \in Nat \ {0}
    BY <2>1, PowerPositive
  <2>3. Power(2, k + 1) = 2 * Power(2, k) /\ Power(2, 0) = 1
    BY <2>1, PowerDef
  <2> QED
    BY <2>2, <2>3
<1>4. /\ t \in EuclidStates
      /\ u.r = 0 => t = u
      /\ u.r # 0 => \E q \in Nat : /\ t.old_r = u.r
                                   /\ t.r = u.old_r - q * u.r
                                   /\ t.r < u.r
                                   /\ t.old_s = u.s
                                   /\ t.s = Signed(u.old_s - q * u.s)
  BY <1>1, EuclidTurn
<1> HIDE DEF t
<1>5. CASE u.r = 0
  <2>1. t = u
    BY <1>4, <1>5
  <2>2. k # 0
    BY <1>2, <1>5 DEF EuclidInv
  <2>3. (u.old_r * u.r) * Power(2, k + 1) <= bound
    <3>1. u.old_r * u.r = 0
      BY <1>2, <1>5
    <3>2. (u.old_r * u.r) * Power(2, k + 1) = 0
      BY <1>3, <3>1
    <3> QED
      BY <1>2, <3>2
  <2>4. EuclidInv(u, k + 1, a, m)
    BY <1>2, <2>2, <2>3 DEF EuclidInv
  <2> QED
    BY <2>1, <2>4 DEF t
<1>6. CASE u.r # 0
  <2>1. PICK q \in Nat : /\ t.old_r = u.r
                         /\ t.r = u.old_r - q * u.r
                         /\ t.r < u.r
                         /\ t.old_s = u.s
                         /\ t.s = Signed(u.old_s - q * u.s)
    BY <1>4, <1>6
  <2>2. t.r \in Nat /\ t.r \in Int
    BY <1>4, Word DEF EuclidStates
  <2> DEFINE n == u.old_s - q * u.s
  <2>3. n \in Int
    <3>1. q * u.s \in Int
      BY <1>2
    <3> QED
      BY <1>2, <3>1
  <2>4. Bounded(u.r, t.r, u.s, n, m) /\ n \in (-m)..m
    <3>1. Bounded(u.old_r, u.r, u.old_s, u.s, m)
      BY DEF EuclidInv
    <3> QED
      BY <1>2, <1>6, <2>1, <2>2, <3>1, BoundedKept
  <2>5. t.s = n
    <3>1. n \in Ints
      BY <2>3, <2>4, Word DEF Ints
    <3> HIDE DEF n
    <3>2. Signed(n) = n
      BY <3>1, SignedOfInts
    <3> QED
      BY <2>1, <3>2 DEF n
  <2>6. Congruent(t.s * a, t.r, m)
    <3>1. Congruent(u.old_s * a, u.old_r, m) /\ Congruent(u.s * a, u.r, m)
      BY DEF EuclidInv
    <3>2. /\ q \in Int /\ u.old_r \in Int /\ u.r \in Int /\ u.old_s \in Int /\ u.s \in Int /\ a \in Int
          /\ m \in Nat \ {0}
      BY <1>2
    <3>3. Congruent((u.old_s - q * u.s) * a, u.old_r - q * u.r, m)
      BY <3>1, <3>2, CoefficientKept, Zenon
    <3> QED
      BY <2>1, <2>5, <3>3 DEF n
  <2>7. Combined(a, t.old_r, t.r) /\ Combined(m, t.old_r, t.r)
    <3>1. Combined(a, u.old_r, u.r) /\ Combined(m, u.old_r, u.r)
      BY DEF EuclidInv
    <3>2. /\ q \in Int /\ u.old_r \in Int /\ u.r \in Int /\ a \in Int /\ m \in Int
          /\ t.r \in Int /\ t.r = u.old_r - q * u.r
      BY <1>2, <2>1, <2>2
    <3>3. Combined(a, u.r, t.r) /\ Combined(m, u.r, t.r)
      BY <3>1, <3>2, CombinedKept, Zenon
    <3> QED
      BY <2>1, <3>3
  <2> HIDE DEF n
  <2>8. (t.old_r * t.r) * Power(2, k + 1) <= bound
    <3>1. CASE k = 0
      <4>1. u.old_r = a /\ u.r = m
        BY <3>1 DEF EuclidInv
      <4>2. t.r <= a
        <5>1. q * u.r \in Nat
          BY <1>2
        <5> QED
          BY <1>2, <2>1, <2>2, <4>1, <5>1
      <4>3. m * t.r <= m * m
        BY <1>2, <2>2, <4>2, Monotone
      <4>4. t.old_r * t.r = m * t.r /\ m * t.r \in Int /\ m * m \in Int
        BY <1>2, <2>1, <2>2, <4>1
      <4>5. Power(2, k + 1) = 2
        BY <1>3, <3>1
      <4> QED
        BY <4>3, <4>4, <4>5
    <3>2. CASE k # 0
      <4>1. u.r < u.old_r /\ (u.old_r * u.r) * Power(2, k) <= bound
        BY <3>2 DEF EuclidInv
      <4> DEFINE x == u.r * t.r
                 y == u.old_r * u.r
                 p == Power(2, k)
      <4>2. 2 * x <= y
        BY <1>2, <2>1, <2>2, <4>1, ProductHalved
      <4>3. x \in Nat /\ y \in Nat /\ p \in Nat /\ y * p <= bound
        BY <1>2, <1>3, <2>2, <4>1
      <4>4. t.old_r * t.r = x
        BY <2>1
      <4> HIDE DEF x, y, p, bound
      <4>5. p * (2 * x) <= p * y
        BY <4>2, <4>3, Monotone
      <4>6. x * (2 * p) = p * (2 * x) /\ p * y = y * p /\ p * y \in Int /\ p * (2 * x) \in Int
        BY <4>3
      <4>7. x * (2 * p) <= bound
        BY <1>2, <4>3, <4>5, <4>6
      <4> QED
        BY <1>3, <4>4, <4>7 DEF p
    <3> QED
      BY <3>1, <3>2
  <2>9. t.old_s \in (-m)..m /\ t.s \in (-m)..m
    BY <2>1, <2>4, <2>5 DEF EuclidInv
  <2>10. Congruent(t.old_s * a, t.old_r, m)
    BY <2>1 DEF EuclidInv
  <2>11. Bounded(t.old_r, t.r, t.old_s, t.s, m)
    BY <2>1, <2>4, <2>5
  <2>12. t.r < t.old_r
    BY <2>1
  <2>13. EuclidInv(t, k + 1, a, m)
    BY <1>2, <1>4, <2>6, <2>7, <2>8, <2>9, <2>10, <2>11, <2>12 DEF EuclidInv
  <2> QED
    BY <2>13 DEF t
<1> QED
  BY <1>5, <1>6

\* After twice as many turns as a word has bits the remainder is 0.
LEMMA EuclidEnd ==
  ASSUME NEW m \in Nat \ {0}, 2 * m <= IntMax, NEW a \in 0..(m - 1)
  PROVE  LET end == Loop(EuclidStep, [old_r |-> a, r |-> m, old_s |-> 1, s |-> 0], 2 * Bits)
         IN EuclidInv(end, 2 * Bits, a, m) /\ end.r = 0
<1> DEFINE u == [old_r |-> a, r |-> m, old_s |-> 1, s |-> 0]
<1>1. PICK n \in Nat : n = 2 * Bits /\ n # 0
  BY WordSize
<1>2. a \in Int /\ m \in Int /\ m <= IntMax /\ a \in Nat /\ a < m
  BY Word
<1>3. u \in EuclidStates
  BY <1>2, Word DEF EuclidStates
<1>4. PICK f : /\ f \in [Nat -> EuclidStates] /\ f[0] = u
               /\ \A i \in Nat : f[i + 1] = EuclidStep(f[i])
               /\ Loop(EuclidStep, u, n) = f[n]
  <2> HIDE DEF u
  <2> QED
    BY <1>3, EuclidLoop, Zenon
<1>5. EuclidInv(u, 0, a, m)
  <2>1. PICK zero \in Int, one \in Int, less \in Int : zero = 0 /\ one = 1 /\ less = -1
    OBVIOUS
  <2>2. one * a = a /\ zero * a = zero /\ zero * m = zero /\ one * m = m /\ m * less = -m
    BY <1>2, <2>1
  <2>3. Congruent(one * a, a, m)
    BY <1>2, <2>2, CongruentSelf
  <2>4. Congruent(zero * a, m, m)
    <3>1. zero * a - m = m * less
      BY <1>2, <2>1, <2>2
    <3> QED
      BY <3>1 DEF Congruent
  <2>5. Bounded(a, m, one, zero, m)
    BY <1>2, <2>1, <2>2 DEF Bounded
  <2>6. Combined(a, a, m) /\ Combined(m, a, m)
    <3>1. a = one * a + zero * m /\ m = zero * a + one * m
      BY <1>2, <2>1, <2>2
    <3> QED
      BY <3>1 DEF Combined
  <2>7. (a * m) * Power(2, 0) <= 2 * (m * m)
    <3>1. Power(2, 0) = 1
      BY PowerDef
    <3>2. m * a <= m * m
      BY <1>2, Monotone
    <3>3. m * a = a * m /\ a * m \in Nat /\ m * m \in Nat
      BY <1>2
    <3> QED
      BY <3>1, <3>2, <3>3
  <2>8. u.old_r = a /\ u.r = m /\ u.old_s = one /\ u.s = zero
    BY <2>1
  <2>9. one \in (-m)..m /\ zero \in (-m)..m
    BY <1>2, <2>1
  <2> HIDE DEF u
  <2> QED
    BY <1>3, <2>3, <2>4, <2>5, <2>6, <2>7, <2>8, <2>9 DEF EuclidInv
<1> HIDE DEF u
<1> DEFINE S == {i \in Nat : EuclidInv(f[i], i, a, m)}
<1>6. \A i \in Nat : i \in S
  <2>1. 0 \in S
    BY <1>4, <1>5
  <2>2. ASSUME NEW i \in Nat, i \in S PROVE i + 1 \in S
    <3>1. EuclidInv(f[i], i, a, m) /\ f[i + 1] = EuclidStep(f[i])
      BY <1>4, <2>2
    <3>2. EuclidInv(EuclidStep(f[i]), i + 1, a, m)
      BY <1>2, <3>1, EuclidKeeps
    <3> QED
      BY <3>1, <3>2
  <2> HIDE DEF S
  <2> QED
    BY <2>1, <2>2, Induction
<1> DEFINE end == f[n]
<1>7. EuclidInv(end, n, a, m)
  BY <1>6
<1> HIDE DEF end, S
<1>8. end.r = 0
  <2> DEFINE p == Power(2, Bits)
             x == end.old_r * end.r
             y == m * m
  <2>1. Power(2, n) = p * p
    <3>1. Bits \in Nat /\ n = Bits + Bits /\ 2 \in Int
      BY <1>1, WordSize
    <3> QED
      BY <3>1, PowerSum
  <2>2. p \in Nat /\ p >= 4 * m
    BY <1>2, WordSize
  <2>3. end.old_r \in Nat /\ end.r \in Nat /\ end.r < end.old_r /\ x * Power(2, n) <= 2 * y
    BY <1>1, <1>7, Word DEF EuclidInv, EuclidStates
  <2>4. end.r # 0 => x \in Nat \ {0}
    BY <2>3, ProductSigns
  <2>5. x * (p * p) <= 2 * y
    BY <2>1, <2>3
  <2> HIDE DEF p, x, y
  <2>6. p * (4 * m) <= p * p
    <3>1. 4 * m \in Nat
      BY <1>2
    <3> QED
      BY <2>2, <3>1, Monotone
  <2>7. (4 * m) * (4 * m) <= (4 * m) * p
    <3>1. 4 * m \in Nat
      BY <1>2
    <3> QED
      BY <2>2, <3>1, Monotone
  <2>8. (4 * m) * (4 * m) = 16 * y /\ y \in Nat \ {0}
    BY <1>2, ProductSigns DEF y
  <2>9. p * p \in Nat /\ (4 * m) * p = p * (4 * m) /\ p * (4 * m) \in Int
    BY <1>2, <2>2
  <2>10. p * p >= 16 * y
    BY <2>6, <2>7, <2>8, <2>9
  <2>11. x \in Nat \ {0} => x * (p * p) >= p * p
    BY <2>9
  <2> QED
    BY <2>4, <2>5, <2>8, <2>9, <2>10, <2>11
<1> QED
  BY <1>1, <1>4, <1>7, <1>8 DEF end, u

\* mod_inverse, builtins_math.c, yields an inverse of the base, or fails just when there is none: while
\* the modulus is no more than half the range nothing in it wraps.
THEOREM ModInverseExact ==
  ASSUME NEW m \in Nat \ {0}, 2 * m <= IntMax, NEW base \in Int
  PROVE  \/ \E inv \in 0..(m - 1) : ModInverse(base, m) = Done(inv) /\ Congruent(base * inv, 1, m)
         \/ ModInverse(base, m) = Failed("VALUE") /\ \A x \in Int : ~Congruent(base * x, 1, m)
<1> DEFINE rem   == Remainder(base, m)
           first == Remainder(Signed(rem + m), m)
           end   == Loop(EuclidStep, [old_r |-> first, r |-> m, old_s |-> 1, s |-> 0], 2 * Bits)
<1>1. m \in Int /\ m # 0 /\ m <= IntMax /\ m \in Moduli /\ m = Magnitude(m) /\ 1 \in Int
  BY Word DEF Moduli, Magnitude
<1>2. PICK t \in Nat : /\ t < m
                       /\ rem = IF base < 0 THEN -t ELSE t
                       /\ Congruent(IF base < 0 THEN -t ELSE t, base, m)
  BY <1>1, PositiveRemainder
<1>3. rem \in Int /\ rem + m \in Ints /\ rem + m > 0 /\ rem + m \in Int /\ Congruent(rem, base, m)
  BY <1>1, <1>2, Word DEF Ints
<1> HIDE DEF rem
<1>4. first = Remainder(rem + m, m)
  BY <1>3, SignedOfInts
<1>5. first \in 0..(m - 1) /\ Congruent(first, rem + m, m) /\ first \in Int
  <2> DEFINE x == rem + m
  <2>1. x \in Int /\ ~(x < 0)
    BY <1>3
  <2> HIDE DEF x
  <2>2. PICK w \in Nat : /\ w < m
                         /\ Remainder(x, m) = IF x < 0 THEN -w ELSE w
                         /\ Congruent(IF x < 0 THEN -w ELSE w, x, m)
    BY <1>1, <2>1, PositiveRemainder
  <2> QED
    BY <1>1, <1>4, <2>1, <2>2 DEF x
<1> HIDE DEF first
<1>6. Congruent(first, base, m)
  <2>1. PICK w \in Int : rem - base = m * w
    BY <1>3 DEF Congruent
  <2>2. PICK v \in Int : v = w + 1
    OBVIOUS
  <2>3. m * v = m * w + m /\ m * w \in Int
    BY <1>1, <2>2
  <2>4. (rem + m) - base = m * v
    BY <1>1, <1>3, <2>1, <2>3
  <2>5. Congruent(rem + m, base, m)
    BY <2>4 DEF Congruent
  <2> QED
    BY <1>3, <1>5, <2>5, CongruentTrans
<1>7. EuclidInv(end, 2 * Bits, first, m) /\ end.r = 0
  BY <1>5, EuclidEnd
<1>8. ModInverse(base, m) = IF end.old_r # 1 THEN Failed("VALUE") ELSE Done(Unsigned(Residue(end.old_s, m)))
  BY Zenon DEF ModInverse, first, rem
<1> HIDE DEF end
<1>9. /\ end.old_s \in Int /\ end.old_r \in Nat /\ Congruent(end.old_s * first, end.old_r, m)
      /\ Combined(first, end.old_r, end.r) /\ Combined(m, end.old_r, end.r)
  BY <1>7, Word DEF EuclidInv, EuclidStates
<1>10. CASE end.old_r = 1
  <2> DEFINE inv == Residue(end.old_s, m)
  <2>1. Signed(m) = m
    BY <1>1, SignedModulus
  <2>2. inv \in 0..(m - 1) /\ Congruent(inv, end.old_s, m)
    BY <1>1, <1>9, <2>1, ResidueIs
  <2> HIDE DEF inv
  <2>3. Unsigned(inv) = inv /\ inv \in Int
    <3>1. inv \in Nat /\ inv < 2 * (IntMax + 1)
      BY <1>1, <2>2, Word
    <3> QED
      BY <3>1, UnsignedOfWord
  <2>4. Congruent(base, first, m)
    BY <1>5, <1>6, CongruentSym
  <2>5. Congruent(inv * base, end.old_s * first, m)
    BY <1>5, <1>9, <2>2, <2>3, <2>4, CongruentProduct
  <2>6. inv * base = base * inv /\ base * inv \in Int /\ end.old_s * first \in Int
    BY <1>5, <1>9, <2>3
  <2>7. Congruent(base * inv, 1, m)
    BY <1>1, <1>9, <1>10, <2>5, <2>6, CongruentTrans
  <2>8. ModInverse(base, m) = Done(inv)
    BY <1>8, <1>10, <2>3 DEF inv
  <2> QED
    BY <2>2, <2>7, <2>8
<1>11. CASE end.old_r # 1
  <2>1. ASSUME NEW x \in Int, Congruent(base * x, 1, m) PROVE FALSE
    <3>1. Congruent(x, x, m)
      BY CongruentSelf
    <3>2. Congruent(first * x, base * x, m) /\ first * x \in Int /\ base * x \in Int
      BY <1>5, <1>6, <3>1, CongruentProduct
    <3>3. Congruent(first * x, 1, m)
      BY <1>1, <2>1, <3>2, CongruentTrans
    <3>4. PICK u \in Int : first * x - 1 = m * u
      BY <3>3 DEF Congruent
    <3> DEFINE g == end.old_r
    <3>5. PICK v \in Int, w \in Int : first = v * g + w * end.r
      BY <1>9 DEF Combined
    <3>6. PICK y \in Int, z \in Int : m = y * g + z * end.r
      BY <1>9 DEF Combined
    <3>7. g \in Nat /\ g # 1
      BY <1>9, <1>11
    <3> HIDE DEF g
    <3>8. first = v * g /\ m = y * g
      BY <1>7, <3>5, <3>6, <3>7
    <3>9. (v * g) * x = g * (v * x) /\ (y * g) * u = g * (y * u)
      BY <3>7
    <3>10. PICK d \in Int : d = v * x - y * u
      OBVIOUS
    <3>11. g * d = g * (v * x) - g * (y * u)
      BY <3>7, <3>10
    <3>12. g * d = 1
      BY <1>5, <3>2, <3>4, <3>8, <3>9, <3>11
    <3>13. d >= 1 /\ g >= 1
      <4>1. g # 0
        BY <3>12, <3>10
      <4>2. d <= 0 => g * (-d) >= 0 /\ g * d = -(g * (-d))
        BY <3>7
      <4> QED
        BY <3>7, <3>12, <4>1, <4>2
    <3>14. g * 1 <= g * d
      BY <3>7, <3>13, Monotone
    <3> QED
      BY <3>7, <3>12, <3>13, <3>14
  <2> QED
    BY <1>8, <1>11, <2>1
<1> QED
  BY <1>10, <1>11

-----------------------------------------------------------------------------
(* PowModAsInPython. *)

LEMMA CongruentToOne ==
  ASSUME NEW m \in Nat \ {0}, NEW y \in Int
  PROVE  (y - 1) % m = 0 <=> Congruent(y, 1, m)
<1> DEFINE z == y - 1
<1>0. z \in Int
  OBVIOUS
<1> HIDE DEF z
<1>1. z % m \in 0..(m - 1) /\ Congruent(z % m, z, m)
  BY <1>0, CongruentMod
<1>2. PICK t \in Int : (z % m) - z = m * t
  BY <1>1 DEF Congruent
<1>3. ASSUME z % m = 0 PROVE Congruent(y, 1, m)
  <2>1. PICK u \in Int : u = -t
    OBVIOUS
  <2>2. m * u = -(m * t) /\ m * t \in Int
    BY <2>1
  <2>3. y - 1 = m * u
    BY <1>0, <1>1, <1>2, <1>3, <2>2 DEF z
  <2> QED
    BY <2>3 DEF Congruent
<1>4. ASSUME Congruent(y, 1, m) PROVE z % m = 0
  <2>1. PICK u \in Int : y - 1 = m * u
    BY <1>4 DEF Congruent
  <2>2. PICK v \in Int, o \in 0..(m - 1) : v = -u /\ o = 0
    OBVIOUS
  <2>3. m * v = -(m * u) /\ m * u \in Int
    BY <2>2
  <2>4. o - z = m * v
    BY <2>1, <2>2, <2>3 DEF z
  <2>5. Congruent(o, z, m)
    BY <2>4 DEF Congruent
  <2> QED
    BY <1>0, <1>1, <2>2, <2>5, ModOfCongruent
<1> QED
  BY <1>3, <1>4 DEF z

LEMMA PositiveExponent ==
  ASSUME NEW a \in Int, NEW exp \in Ints, exp >= 0, NEW m \in Moduli
  PROVE  PowModBy(a, exp, m) = Done(ModularPower(a, Magnitude(exp), m))
<1> DEFINE r == Residue(a, Signed(m))
<1>1. m \in Nat \ {0} /\ m <= IntMax + 1
  BY Word DEF Moduli
<1>2. r \in 0..(m - 1) /\ Congruent(r, a, m)
  BY ResidueIs
<1>3. /\ exp \in Nat /\ exp < 2 * (IntMax + 1) /\ exp # IntMin
      /\ Magnitude(exp) = exp /\ ~(exp < 0)
  BY Word DEF Ints, Magnitude
<1>4. PowModBy(a, exp, m) = Done(ModExp(Unsigned(r), exp, m))
  <2> HIDE DEF r
  <2>1. Done(Unsigned(r)).error = "OK" /\ Done(Unsigned(r)).value = Unsigned(r)
    BY DEF Done
  <2> QED
    BY <1>3, <2>1 DEF PowModBy, r
<1> HIDE DEF r
<1>5. Unsigned(r) = r /\ r \in Int
  <2>1. r \in Nat /\ r < 2 * (IntMax + 1)
    BY <1>1, <1>2, Word
  <2> QED
    BY <2>1, UnsignedOfWord
<1>6. ModExp(r, exp, m) = Power(a, exp) % m
  BY <1>2, <1>3, <1>5, PowerOfResidue
<1>7. ModularPower(a, exp, m) = Power(a, exp) % m
  BY <1>1, <1>3, ModularPowerIs
<1> QED
  BY <1>3, <1>4, <1>5, <1>6, <1>7

\* Two inverses of a number modulo m are congruent.
LEMMA OneInverse ==
  ASSUME NEW m \in Nat \ {0}, NEW a \in Int, NEW x \in Int, NEW y \in Int,
         Congruent(a * x, 1, m), Congruent(a * y, 1, m)
  PROVE  Congruent(x, y, m)
<1>1. PICK t \in Int : a * x - 1 = m * t
  BY DEF Congruent
<1>2. PICK u \in Int : a * y - 1 = m * u
  BY DEF Congruent
<1>3. PICK v \in Int : v = x * u - y * t
  OBVIOUS
<1>4. m * v = m * (x * u) - m * (y * t)
  BY <1>3
<1>5. m * (x * u) = x * (m * u) /\ m * (y * t) = y * (m * t)
  OBVIOUS
<1>6. PICK b \in Int : b = a * x
  OBVIOUS
<1>7. PICK c \in Int : c = a * y
  OBVIOUS
<1>8. x * c = y * b
  BY <1>6, <1>7
<1>9. m * t = b - 1 /\ m * u = c - 1
  BY <1>1, <1>2, <1>6, <1>7
<1>10. x * (m * u) = x * c - x /\ y * (m * t) = y * b - y
  BY <1>6, <1>7, <1>9
<1>11. x * c \in Int /\ y * b \in Int
  BY <1>6, <1>7
<1>12. y - x = m * v
  BY <1>4, <1>5, <1>8, <1>10, <1>11
<1>13. Congruent(y, x, m)
  BY <1>12 DEF Congruent
<1> QED
  BY <1>13, CongruentSym

\* The residues that are an inverse of a.
Inverses(a, m) == {x \in 0..(m - 1) : (a * x - 1) % m = 0}

LEMMA NegativeExponent ==
  ASSUME NEW a \in Int, NEW exp \in Ints, exp < 0, exp # IntMin, NEW m \in Nat \ {0}, 2 * m <= IntMax
  PROVE  \/ Inverses(a, m) = {} /\ PowModBy(a, exp, m) = Failed("VALUE")
         \/ /\ Inverses(a, m) # {}
            /\ PowModBy(a, exp, m)
                 = Done(ModularPower(CHOOSE x \in Inverses(a, m) : TRUE, Magnitude(exp), m))
<1> DEFINE n == Magnitude(exp)
<1>1. n \in Nat /\ n < 2 * (IntMax + 1)
  BY Word DEF Ints, Magnitude
<1>2. m \in Moduli /\ m <= IntMax /\ Signed(m) = m
  <2>1. m \in Moduli /\ m <= IntMax
    BY Word DEF Moduli
  <2> QED
    BY <2>1, SignedModulus
<1>3. PowModBy(a, exp, m) = IF ModInverse(a, m).error # "OK" THEN ModInverse(a, m)
                            ELSE Done(ModExp(ModInverse(a, m).value, n, m))
  BY <1>2 DEF PowModBy
<1> HIDE DEF n
<1>4. \A x \in 0..(m - 1) : x \in Inverses(a, m) <=> Congruent(a * x, 1, m)
  <2> TAKE x \in 0..(m - 1)
  <2>1. a * x \in Int
    OBVIOUS
  <2>2. (a * x - 1) % m = 0 <=> Congruent(a * x, 1, m)
    BY <2>1, CongruentToOne
  <2> QED
    BY <2>2, Zenon DEF Inverses
<1>5. ASSUME NEW inv \in 0..(m - 1), ModInverse(a, m) = Done(inv), Congruent(a * inv, 1, m)
      PROVE  /\ Inverses(a, m) # {}
             /\ PowModBy(a, exp, m) = Done(ModularPower(CHOOSE x \in Inverses(a, m) : TRUE, n, m))
  <2>1. inv \in Inverses(a, m)
    BY <1>4, <1>5, Zenon
  <2> DEFINE x == CHOOSE y \in Inverses(a, m) : TRUE
  <2>2. x \in Inverses(a, m)
    BY <2>1, Zenon
  <2> HIDE DEF x
  <2>3. x \in 0..(m - 1)
    BY <2>2, Zenon DEF Inverses
  <2>4. Congruent(a * x, 1, m)
    BY <1>4, <2>2, <2>3, Zenon
  <2>5. x \in Int /\ inv \in Int
    BY <2>3
  <2>6. Congruent(inv, x, m)
    BY <1>5, <2>4, <2>5, OneInverse
  <2>7. ModExp(inv, n, m) = Power(x, n) % m
    BY <1>1, <1>2, <2>5, <2>6, PowerOfResidue
  <2>8. ModularPower(x, n, m) = Power(x, n) % m
    BY <1>1, <2>5, ModularPowerIs
  <2>9. PowModBy(a, exp, m) = Done(ModExp(inv, n, m))
    BY <1>3, <1>5 DEF Done
  <2> QED
    BY <2>1, <2>7, <2>8, <2>9 DEF x
<1>6. ASSUME ModInverse(a, m) = Failed("VALUE"), \A x \in Int : ~Congruent(a * x, 1, m)
      PROVE  Inverses(a, m) = {} /\ PowModBy(a, exp, m) = Failed("VALUE")
  <2>1. PowModBy(a, exp, m) = Failed("VALUE")
    BY <1>3, <1>6 DEF Failed
  <2>2. \A x \in 0..(m - 1) : x \in Int
    OBVIOUS
  <2>3. \A x \in Inverses(a, m) : x \in 0..(m - 1)
    BY Zenon DEF Inverses
  <2>4. Inverses(a, m) = {}
    BY <1>4, <1>6, <2>2, <2>3, Zenon
  <2> QED
    BY <2>1, <2>4
<1>7. \/ \E inv \in 0..(m - 1) : ModInverse(a, m) = Done(inv) /\ Congruent(a * inv, 1, m)
      \/ ModInverse(a, m) = Failed("VALUE") /\ \A x \in Int : ~Congruent(a * x, 1, m)
  BY ModInverseExact
<1> QED
  BY <1>5, <1>6, <1>7, Zenon DEF n

LEMMA ModularPowerOfOne ==
  ASSUME NEW x \in Int, NEW n \in Nat
  PROVE  ModularPower(x, n, 1) = 0
<1> DEFINE p == Power(x, n)
<1>1. PICK m \in Nat \ {0} : m = 1
  OBVIOUS
<1>2. ModularPower(x, n, m) = p % m
  BY ModularPowerIs
<1>3. p \in Int
  BY PowerDef
<1> HIDE DEF p
<1>4. p % m = 0
  BY <1>1, <1>3
<1> QED
  BY <1>1, <1>2, <1>4

\* Modulo 1 every number is an inverse, and its power is 0.
LEMMA InversesOfOne ==
  ASSUME NEW a \in Int, NEW n \in Nat
  PROVE  /\ Inverses(a, 1) # {}
         /\ ModularPower(CHOOSE x \in Inverses(a, 1) : TRUE, n, 1) = 0
<1> DEFINE y == CHOOSE x \in Inverses(a, 1) : TRUE
<1>1. PICK z \in 0..0 : z = 0
  OBVIOUS
<1>2. (a * z - 1) % 1 = 0
  <2>1. a * z - 1 \in Int
    BY <1>1
  <2> DEFINE w == a * z - 1
  <2> HIDE DEF w
  <2>2. w % 1 = 0
    BY <2>1 DEF w
  <2> QED
    BY <2>2 DEF w
<1>3. z \in Inverses(a, 1)
  BY <1>1, <1>2 DEF Inverses
<1>4. y \in Inverses(a, 1)
  BY <1>3, Zenon
<1> HIDE DEF y
<1>5. y \in Int
  BY <1>4 DEF Inverses
<1> QED
  BY <1>3, <1>5, ModularPowerOfOne DEF y

\* For every word size pow with a modulus, of any base, exponent and modulus of the
\* word, is what Python says, its two exceptions aside: pow_mod with mulmod, modexp
\* and mod_inverse, builtins_math.c.
THEOREM PowModExact ==
  ASSUME NEW a \in Ints, NEW exp \in Ints, NEW b \in Ints
  PROVE  PowModIsPython(a, exp, b)
<1> DEFINE m     == Magnitude(b)
           n     == Magnitude(exp)
           bases == IF exp >= 0 THEN {a} ELSE Inverses(a, m)
           base  == CHOOSE x \in bases : TRUE
           p     == ModularPower(base, n, m)
           by    == PowModBy(a, exp, m)
           result == PowMod(a, exp, b)
           known == exp = IntMin \/ (exp < 0 /\ 2 * m > IntMax)
<1>1. exp \in Int /\ a \in Int /\ b \in Int
  BY Word DEF Ints
<1>2. n \in Nat
  BY <1>1, Word DEF Magnitude
<1>3. m \in Nat /\ m <= IntMax + 1 /\ (m = 0 <=> b = 0)
  BY <1>1, Word DEF Magnitude, Ints
<1>4. result = CASE b = 0 -> Failed("VALUE")
                 [] m = 1 -> Done(0)
                 [] m > 1 -> IF by.error # "OK" THEN by
                             ELSE Done(IF b < 0 /\ by.value # 0 THEN by.value - m ELSE by.value)
  BY Zenon DEF PowMod
<1> SUFFICES IF m = 0 THEN result = Failed("VALUE")
             ELSE ~known =>
               IF bases = {} THEN result = Failed("VALUE")
               ELSE result = Done(IF b < 0 /\ p # 0 THEN p - m ELSE p)
  BY Zenon DEF PowModIsPython, Inverses
<1> HIDE DEF m, n, by, result
<1>5. CASE m = 0
  BY <1>3, <1>4, <1>5
<1>6. CASE m = 1
  <2>1. bases # {} /\ p = 0
    <3>1. CASE exp >= 0
      <4>1. bases = {a} /\ base = a
        BY <3>1
      <4> QED
        BY <1>1, <1>2, <1>6, <4>1, ModularPowerOfOne
    <3>2. CASE ~(exp >= 0)
      <4>1. bases = Inverses(a, 1)
        BY <1>6, <3>2
      <4> QED
        BY <1>1, <1>2, <1>6, <4>1, InversesOfOne
    <3> QED
      BY <3>1, <3>2
  <2>2. result = Done(0)
    BY <1>3, <1>4, <1>6
  <2> HIDE DEF bases, base, p
  <2> QED
    BY <1>6, <2>1, <2>2
<1>7. ASSUME m > 1, ~known
      PROVE  IF bases = {} THEN result = Failed("VALUE")
             ELSE result = Done(IF b < 0 /\ p # 0 THEN p - m ELSE p)
  <2>1. m \in Moduli /\ m \in Nat \ {0} /\ b # 0 /\ m # 1
    BY <1>3, <1>7, Word DEF Moduli
  <2>2. result = IF by.error # "OK" THEN by
                 ELSE Done(IF b < 0 /\ by.value # 0 THEN by.value - m ELSE by.value)
    BY <1>4, <1>7, <2>1
  <2>3. (bases = {} /\ by = Failed("VALUE")) \/ (bases # {} /\ by = Done(p))
    <3>1. CASE exp >= 0
      <4>1. bases = {a} /\ base = a
        BY <3>1
      <4>2. by = Done(ModularPower(a, n, m))
        BY <1>1, <2>1, <3>1, PositiveExponent DEF n, by
      <4> QED
        BY <4>1, <4>2
    <3>2. CASE ~(exp >= 0)
      <4>1. exp < 0 /\ exp # IntMin /\ 2 * m <= IntMax
        BY <1>1, <1>3, <1>7, <3>2, Word
      <4>2. bases = Inverses(a, m)
        BY <3>2
      <4>3. \/ Inverses(a, m) = {} /\ by = Failed("VALUE")
            \/ /\ Inverses(a, m) # {}
               /\ by = Done(ModularPower(CHOOSE x \in Inverses(a, m) : TRUE, n, m))
        BY <1>1, <2>1, <4>1, NegativeExponent DEF n, by
      <4> QED
        BY <4>2, <4>3
    <3> QED
      BY <3>1, <3>2
  <2> HIDE DEF bases, base, p
  <2>4. CASE bases = {} /\ by = Failed("VALUE")
    BY <2>2, <2>4 DEF Failed
  <2>5. CASE bases # {} /\ by = Done(p)
    BY <2>2, <2>5 DEF Done
  <2> QED
    BY <2>3, <2>4, <2>5
<1> QED
  <2> HIDE DEF bases, base, p, known
  <2> QED
    BY <1>3, <1>5, <1>6, <1>7

\* pow with a modulus is what Python says, in every case of two integers: pow_mod.
THEOREM PowModTheorem == CaseType => PowModAsInPython
<1> SUFFICES ASSUME CaseType, case.kind = "ints", NEW exp \in Exponents
             PROVE  PowModIsPython(case.a, exp, case.b)
  BY Zenon DEF PowModAsInPython
<1>1. exp \in Ints /\ case.a \in Ints /\ case.b \in Ints
  BY DEF CaseType, Exponents
<1> QED
  BY <1>1, PowModExact

-----------------------------------------------------------------------------
(* SlicesAsInPython. *)

\* e goes through the members of R, upwards or downwards as the step goes.
Enumerates(e, R, step) ==
  /\ e \in Seq(Int)
  /\ R = {e[k] : k \in 1..Len(e)}
  /\ \A j, k \in 1..Len(e) : j < k => IF step > 0 THEN e[j] < e[k] ELSE e[j] > e[k]

\* A set has as many members as it takes to go through it without repetition.
LEMMA CountOf ==
  ASSUME NEW n \in Nat, NEW e, NEW R, R = {e[k] : k \in 1..n},
         \A j, k \in 1..n : j < k => e[j] # e[k]
  PROVE  Cardinality(R) = n
<1> DEFINE f == [k \in 1..n |-> e[k]]
<1>1. f \in [1..n -> R]
  OBVIOUS
<1>2. ASSUME NEW j \in 1..n, NEW k \in 1..n, f[j] = f[k] PROVE j = k
  <2>1. e[j] = e[k] /\ j \in Int /\ k \in Int
    BY <1>2
  <2>2. ~(j < k) /\ ~(k < j)
    BY <2>1, Zenon
  <2> QED
    BY <2>1, <2>2
<1>3. \A x \in R : \E k \in 1..n : f[k] = x
  OBVIOUS
<1> HIDE DEF f
<1>4. IsInjective(f)
  BY <1>1, <1>2 DEF IsInjective
<1>5. f \in Bijection(1..n, R)
  BY <1>1, <1>3, <1>4, Zenon DEF Bijection, Injection, Surjection
<1>6. ExistsBijection(1..n, R)
  BY <1>5, Zenon DEF ExistsBijection
<1> QED
  BY <1>6, FS_CountingElements

\* There is one order to go through a set.
LEMMA InOrderIs ==
  ASSUME NEW e, NEW R, NEW step \in Int, Enumerates(e, R, step)
  PROVE  /\ Cardinality(R) = Len(e)
         /\ InOrder(R, step) = e
<1> DEFINE n == Len(e)
           Before(i) == {j \in R : IF step > 0 THEN j < i ELSE j > i}
<1>1. /\ n \in Nat /\ DOMAIN e = 1..n /\ e = [k \in 1..n |-> e[k]]
      /\ \A k \in 1..n : e[k] \in Int
      /\ R = {e[k] : k \in 1..n}
      /\ \A j, k \in 1..n : j < k => IF step > 0 THEN e[j] < e[k] ELSE e[j] > e[k]
  BY DEF Enumerates
<1> HIDE DEF n
<1>2. \A j, k \in 1..n : j < k => e[j] # e[k]
  BY <1>1
<1>3. Cardinality(R) = n
  BY <1>1, <1>2, CountOf
<1>4. ASSUME NEW k \in 1..n PROVE Cardinality(Before(e[k])) = k - 1
  <2>1. PICK m \in Nat : m = k - 1
    BY <1>1
  <2>2. 1..m \subseteq 1..n /\ \A j \in 1..n : j < k <=> j \in 1..m
    BY <1>1, <2>1
  <2>3. ASSUME NEW j \in 1..n
        PROVE  j < k <=> IF step > 0 THEN e[j] < e[k] ELSE e[j] > e[k]
    <3>1. j \in Int /\ k \in Int /\ e[j] \in Int /\ e[k] \in Int
      BY <1>1
    <3>2. CASE j < k
      BY <1>1, <3>2
    <3>3. CASE j = k
      BY <3>1, <3>3
    <3>4. CASE k < j
      <4>1. IF step > 0 THEN e[k] < e[j] ELSE e[k] > e[j]
        BY <1>1, <3>4
      <4> QED
        BY <3>1, <3>4, <4>1
    <3> QED
      BY <3>1, <3>2, <3>3, <3>4
  <2>4. Before(e[k]) = {e[j] : j \in 1..m}
    BY <1>1, <2>2, <2>3
  <2>5. \A i, j \in 1..m : i < j => e[i] # e[j]
    BY <1>2, <2>2
  <2> HIDE DEF Before
  <2>6. Cardinality(Before(e[k])) = m
    BY <2>4, <2>5, CountOf
  <2> QED
    BY <2>1, <2>6
<1> DEFINE v(k) == CHOOSE i \in R : Cardinality(Before(i)) = k - 1
<1>5. ASSUME NEW k \in 1..n PROVE v(k) = e[k]
  <2>1. \E i \in R : Cardinality(Before(i)) = k - 1
    <3>1. e[k] \in R
      BY <1>1
    <3> QED
      BY <1>4, <3>1, Zenon
  <2>2. v(k) \in R /\ Cardinality(Before(v(k))) = k - 1
    <3> HIDE DEF Before
    <3> QED
      BY <2>1
  <2> HIDE DEF v, Before
  <2>3. PICK j \in 1..n : v(k) = e[j]
    BY <1>1, <2>2
  <2>4. j - 1 = k - 1
    BY <1>4, <2>2, <2>3
  <2> QED
    BY <1>1, <2>3, <2>4
<1>6. InOrder(R, step) = [k \in 1..n |-> v(k)]
  BY <1>3, Zenon DEF InOrder
<1> HIDE DEF v
<1> QED
  BY <1>1, <1>3, <1>5, <1>6 DEF n

\* The step as the code has it and as Python has it.
LEMMA StepFacts ==
  ASSUME NEW step_val \in OptInts
  PROVE  LET step == StepOf(step_val)
             py   == IF step_val = Absent THEN 1 ELSE step_val
         IN /\ step \in Int /\ py \in Int /\ step \in Ints
            /\ step = 0 <=> py = 0
            /\ step > 0 <=> py > 0
            /\ step = 1 <=> py = 1
BY Word, AbsentAssumption DEF StepOf, OptInts, Ints

\* What SliceIsNamed says, for sequences.
LEMMA SliceVisits ==
  ASSUME NEW start_val \in OptInts, NEW stop_val \in OptInts, NEW step_val \in OptInts,
         NEW len \in Nat, len <= IntMax, StepOf(step_val) # 0
  PROVE  LET step  == StepOf(step_val)
             py    == IF step_val = Absent THEN 1 ELSE step_val
             s     == AdjustSlice(start_val, stop_val, step, len)
             e     == [k \in 1..s.count |-> s.start + (k - 1) * step]
             named == Named(start_val, stop_val, py, len)
         IN /\ s.count \in Nat /\ s.start \in -1..len
            /\ e \in Seq(Int) /\ Len(e) = s.count
            /\ Enumerates(e, named, py)
            /\ InOrder(named, py) = e
            /\ named \subseteq 0..(len - 1)
<1> DEFINE step  == StepOf(step_val)
           py    == IF step_val = Absent THEN 1 ELSE step_val
           s     == AdjustSlice(start_val, stop_val, step, len)
           e     == [k \in 1..s.count |-> s.start + (k - 1) * step]
           named == Named(start_val, stop_val, py, len)
           index == [k \in 0..(s.count - 1) |-> s.start + k * step]
           first == IF start_val # Absent THEN start_val ELSE IF step < 0 THEN IntMax ELSE 0
<1>1. step \in Int \ {0} /\ py \in Int /\ (step > 0 <=> py > 0)
  BY StepFacts
<1>2. /\ {index[k] : k \in DOMAIN index} = named
      /\ \A j, k \in DOMAIN index :
           j < k => IF step > 0 THEN index[j] < index[k] ELSE index[j] > index[k]
  BY SliceIsNamed
<1> HIDE DEF step, py, named
<1>3. /\ s.count \in Nat
      /\ \A k \in 0..(s.count - 1) : s.start + k * step \in 0..(len - 1)
  BY <1>1, SliceInList
<1>4. s.start \in -1..len
  <2>1. first \in Int
    BY Word DEF OptInts, Ints
  <2>2. s.start = Clamp(first, step, len)
    BY DEF AdjustSlice
  <2> HIDE DEF first
  <2>3. /\ step >= 0 => Clamp(first, step, len) \in 0..len
        /\ step < 0  => Clamp(first, step, len) \in -1..(len - 1)
    BY <1>1, <2>1, ClampInList
  <2> QED
    BY <1>1, <2>2, <2>3
<1> DEFINE n == s.count
           start == s.start
<1>5. /\ e = [k \in 1..n |-> start + (k - 1) * step]
      /\ index = [k \in 0..(n - 1) |-> start + k * step]
  OBVIOUS
<1>6. n \in Nat /\ start \in Int
  BY <1>3, <1>4
<1> HIDE DEF n, start, s, e, index
<1>7. \A k \in 1..n : k - 1 \in 0..(n - 1) /\ e[k] = index[k - 1] /\ e[k] \in Int
  <2>1. \A k \in 1..n : k - 1 \in 0..(n - 1) /\ e[k] = index[k - 1] /\ e[k] = start + (k - 1) * step
    BY <1>5, <1>6
  <2>2. ASSUME NEW k \in 1..n PROVE e[k] \in Int
    <3>1. (k - 1) * step \in Int /\ e[k] = start + (k - 1) * step
      BY <1>1, <1>6, <2>1
    <3> QED
      BY <1>6, <3>1
  <2> QED
    BY <2>1, <2>2
<1>8. e \in Seq(Int) /\ Len(e) = n /\ e \in [1..n -> Int]
  <2>1. e \in [1..n -> Int]
    BY <1>5, <1>7
  <2> QED
    BY <1>6, <2>1
<1>9. named = {e[k] : k \in 1..n}
  <2>1. DOMAIN index = 0..(n - 1)
    BY <1>5
  <2>2. ASSUME NEW x \in named PROVE \E k \in 1..n : x = e[k]
    <3>1. PICK j \in 0..(n - 1) : x = index[j]
      BY <1>2, <2>1
    <3>2. j + 1 \in 1..n /\ (j + 1) - 1 = j
      BY <1>6
    <3>3. e[j + 1] = index[j]
      BY <1>7, <3>2
    <3> QED
      BY <3>1, <3>2, <3>3
  <2>3. ASSUME NEW k \in 1..n PROVE e[k] \in named
    BY <1>2, <1>7, <2>1
  <2> QED
    BY <2>2, <2>3
<1>10. \A j, k \in 1..n : j < k => IF py > 0 THEN e[j] < e[k] ELSE e[j] > e[k]
  <2> TAKE j, k \in 1..n
  <2> HAVE j < k
  <2>1. j - 1 \in DOMAIN index /\ k - 1 \in DOMAIN index /\ j - 1 < k - 1
    BY <1>5, <1>6
  <2>2. IF step > 0 THEN index[j - 1] < index[k - 1] ELSE index[j - 1] > index[k - 1]
    BY <1>2, <2>1
  <2> QED
    BY <1>1, <1>7, <2>2
<1>11. Enumerates(e, named, py)
  BY <1>8, <1>9, <1>10 DEF Enumerates
<1>12. InOrder(named, py) = e
  BY <1>1, <1>11, InOrderIs
<1>13. named \subseteq 0..(len - 1)
  BY <1>3, <1>5, <1>7, <1>9 DEF n, start
<1> QED
  BY <1>3, <1>4, <1>8, <1>11, <1>12, <1>13 DEF e, s, n, step, py, named

LEMMA NoStep ==
  ASSUME NEW T, NEW list \in Seq(T), NEW items, NEW start \in OptInts, NEW stop \in OptInts,
         NEW step_val \in OptInts, StepOf(step_val) = 0
  PROVE  /\ GetSlice(list, start, stop, step_val).error # "OK"
         /\ DeleteSlice(list, start, stop, step_val).error # "OK"
         /\ StoreSlice(list, start, stop, step_val, items).error # "OK"
BY DEF GetSlice, DeleteSlice, StoreSlice, Failed

\* Where a store without a step begins.
LEMMA BeginIs ==
  ASSUME NEW start_val \in OptInts, NEW stop_val \in OptInts, NEW len \in Nat
  PROVE  LET s     == AdjustSlice(start_val, stop_val, 1, len)
             begin == IF start_val = Absent THEN 0 ELSE Min({len, Max({0, From(start_val, len)})})
         IN begin = s.start /\ begin \in 0..len /\ s.count \in Nat /\ begin + s.count <= len
<1> DEFINE s     == AdjustSlice(start_val, stop_val, 1, len)
           first == IF start_val # Absent THEN start_val ELSE 0
           begin == IF start_val = Absent THEN 0 ELSE Min({len, Max({0, From(start_val, len)})})
<1>1. PICK one \in Int \ {0} : one = 1
  OBVIOUS
<1>2. s.start = Clamp(first, one, len)
  BY <1>1 DEF AdjustSlice
<1>3. /\ s.count \in Nat
      /\ \A k \in 0..(s.count - 1) : s.start + k * one \in 0..(len - 1)
  BY <1>1, SliceInList
<1> HIDE DEF s
<1>4. begin = s.start /\ begin \in 0..len
  <2>1. CASE start_val = Absent
    BY <1>1, <1>2, <2>1 DEF Clamp
  <2>2. CASE start_val # Absent
    <3> DEFINE from == From(start_val, len)
               high == Max({0, from})
    <3>1. start_val \in Int /\ first = start_val
      BY <2>2, Word DEF OptInts, Ints
    <3>2. from \in Int /\ Clamp(start_val, one, len) = IF from < 0 THEN 0 ELSE IF from > len THEN len ELSE from
      BY <1>1, <3>1, ClampIs
    <3>3. begin = Min({len, high})
      BY <2>2
    <3> HIDE DEF from, begin
    <3>4. high = IF 0 >= from THEN 0 ELSE from
      BY <3>2, MinMaxIs
    <3>5. high \in Int
      BY <3>2, <3>4
    <3> HIDE DEF high
    <3>6. Min({len, high}) = IF len <= high THEN len ELSE high
      BY <3>5, MinMaxIs
    <3> QED
      BY <1>2, <3>1, <3>2, <3>3, <3>4, <3>6
  <2> QED
    BY <2>1, <2>2
<1> HIDE DEF begin
<1>5. begin + s.count <= len
  <2>1. CASE s.count = 0
    BY <1>4, <2>1
  <2>2. CASE s.count # 0
    <3>1. PICK k \in Nat : k = s.count - 1 /\ k \in 0..(s.count - 1)
      BY <1>3, <2>2
    <3>2. s.start + k * one \in 0..(len - 1) /\ k * one = k
      BY <1>1, <1>3, <3>1
    <3> QED
      BY <1>3, <1>4, <3>1, <3>2
  <2> QED
    BY <2>1, <2>2
<1> QED
  BY <1>3, <1>4, <1>5 DEF begin, s

LEMMA GetSliceIs ==
  ASSUME NEW T, NEW list \in Seq(T), Len(list) <= IntMax, NEW start \in OptInts,
         NEW stop \in OptInts, NEW step_val \in OptInts, StepOf(step_val) # 0
  PROVE  LET py    == IF step_val = Absent THEN 1 ELSE step_val
             visit == InOrder(Named(start, stop, py, Len(list)), py)
         IN GetSlice(list, start, stop, step_val) = Done([k \in 1..Len(visit) |-> list[visit[k] + 1]])
<1> DEFINE py    == IF step_val = Absent THEN 1 ELSE step_val
           visit == InOrder(Named(start, stop, py, Len(list)), py)
           step  == StepOf(step_val)
           s     == AdjustSlice(start, stop, step, Len(list))
           e     == [k \in 1..s.count |-> s.start + (k - 1) * step]
<1>1. Len(list) \in Nat
  OBVIOUS
<1>2. visit = e /\ Len(e) = s.count
  BY <1>1, SliceVisits
<1>3. GetSlice(list, start, stop, step_val) = Done([k \in 1..s.count |-> list[s.start + (k - 1) * step + 1]])
  BY DEF GetSlice
<1>4. \A k \in 1..s.count : e[k] = s.start + (k - 1) * step
  OBVIOUS
<1> HIDE DEF e, visit
<1>5. [k \in 1..s.count |-> list[s.start + (k - 1) * step + 1]] = [k \in 1..Len(visit) |-> list[visit[k] + 1]]
  <2> HIDE DEF s, step
  <2> QED
    BY <1>2, <1>4
<1> QED
  BY <1>3, <1>5 DEF visit

\* A slice is stored as in Python, to any list and of any items: op_store_slice with
\* list_replace_range, ops_sequence.c.
THEOREM StoreSliceExact ==
  ASSUME NEW T, NEW list \in Seq(T), Len(list) <= IntMax, NEW items \in Seq(T),
         NEW start \in OptInts, NEW stop \in OptInts, NEW step_val \in OptInts
  PROVE  StoreIsPython(list, start, stop, step_val, items)
<1> DEFINE len   == Len(list)
           py    == IF step_val = Absent THEN 1 ELSE step_val
           named == Named(start, stop, py, len)
           visit == InOrder(named, py)
           begin == IF start = Absent THEN 0 ELSE Min({len, Max({0, From(start, len)})})
           store == StoreSlice(list, start, stop, step_val, items)
           step  == StepOf(step_val)
           s     == AdjustSlice(start, stop, step, len)
           e     == [k \in 1..s.count |-> s.start + (k - 1) * step]
           n     == s.count
           sources(i) == {k \in 0..(n - 1) : i = s.start + k * step}
           stored == [i \in 1..len |-> IF sources(i - 1) = {} THEN list[i]
                                       ELSE items[(CHOOSE k \in sources(i - 1) : TRUE) + 1]]
           wanted == [i \in 1..len |-> IF i - 1 \in named
                                       THEN items[CHOOSE k \in 1..Len(visit) : visit[k] = i - 1]
                                       ELSE list[i]]
<1> SUFFICES IF py = 0 THEN store.error # "OK"
             ELSE IF py = 1
             THEN store = Done(SubSeq(list, 1, begin) \o items \o SubSeq(list, begin + Len(visit) + 1, len))
             ELSE IF Len(items) # Len(visit) THEN store = Failed("VALUE")
             ELSE store = Done(wanted)
  BY Zenon DEF StoreIsPython
<1>1. len \in Nat /\ (step = 0 <=> py = 0) /\ (step = 1 <=> py = 1) /\ step \in Int
  <2>1. (step = 0 <=> py = 0) /\ (step = 1 <=> py = 1) /\ step \in Int
    BY StepFacts
  <2> QED
    BY <2>1
<1>2. store = IF step = 0 THEN Failed("VALUE")
              ELSE IF step = 1 THEN Done(ReplaceRange(list, s.start, n, items))
              ELSE IF Len(items) # n THEN Failed("VALUE")
              ELSE Done(stored)
  BY Zenon DEF StoreSlice
<1>3. ASSUME step # 0
      PROVE  /\ n \in Nat /\ s.start \in -1..len /\ visit = e /\ Len(visit) = n
             /\ Enumerates(e, named, py) /\ named \subseteq 0..(len - 1)
  <2>1. /\ s.count \in Nat /\ s.start \in -1..len /\ Len(e) = s.count
        /\ Enumerates(e, named, py) /\ InOrder(named, py) = e /\ named \subseteq 0..(len - 1)
    <3>1. len \in Nat /\ len <= IntMax /\ StepOf(step_val) # 0
      BY <1>1, <1>3
    <3> QED
      BY <3>1, SliceVisits
  <2> HIDE DEF e, named, py, s
  <2> QED
    BY <2>1
<1>4. CASE step = 0
  BY <1>1, <1>2, <1>4 DEF Failed
<1>5. CASE step = 1
  <2>1. begin = s.start
    <3>1. s = AdjustSlice(start, stop, 1, len)
      BY <1>5
    <3> HIDE DEF s
    <3>2. begin = AdjustSlice(start, stop, 1, len).start
      BY <1>1, BeginIs
    <3> QED
      BY <3>1, <3>2
  <2>2. store = Done(ReplaceRange(list, s.start, n, items))
    BY <1>2, <1>5
  <2>3. ReplaceRange(list, s.start, n, items)
          = SubSeq(list, 1, s.start) \o items \o SubSeq(list, s.start + n + 1, len)
    BY Zenon DEF ReplaceRange
  <2>4. Len(visit) = n
    BY <1>3, <1>5
  <2> HIDE DEF s, n, visit, begin, store, step
  <2> QED
    BY <1>1, <1>5, <2>1, <2>2, <2>3, <2>4
<1>6. CASE step # 0 /\ step # 1
  <2>1. n \in Nat /\ s.start \in Int /\ visit = e /\ Len(visit) = n /\ named = {e[k] : k \in 1..n}
    <3> HIDE DEF e, named, s, visit, py, step
    <3> QED
      BY <1>3, <1>6 DEF Enumerates
  <2>2. \A j, k \in 1..n : j < k => IF py > 0 THEN e[j] < e[k] ELSE e[j] > e[k]
    <3> HIDE DEF e, named, s, visit, py, step
    <3> QED
      BY <1>3, <1>6 DEF Enumerates
  <2>3. \A k \in 1..n : e[k] = s.start + (k - 1) * step /\ e[k] \in Int
    <3>1. \A k \in 1..n : e[k] = s.start + (k - 1) * step
      OBVIOUS
    <3>2. \A k \in 1..n : e[k] \in Int
      <4> HIDE DEF e, named, s, visit, py, step
      <4> QED
        BY <1>3, <1>6, <2>1 DEF Enumerates
    <3> QED
      BY <3>1, <3>2
  <2> HIDE DEF e, n, s, visit, named, step, py, store
  <2>4. ASSUME NEW i \in 1..len, i - 1 \in named
        PROVE  \E k \in 1..n : /\ sources(i - 1) = {k - 1}
                               /\ \A j \in 1..n : visit[j] = i - 1 <=> j = k
    <3>1. PICK k \in 1..n : e[k] = i - 1
      BY <2>1, <2>4
    <3>2. ASSUME NEW j \in 1..n, e[j] = i - 1 PROVE j = k
      <4>1. ~(j < k) /\ ~(k < j) /\ j \in Int /\ k \in Int
        <5>1. e[j] = e[k] /\ e[k] \in Int /\ j \in Int /\ k \in Int
          BY <2>1, <2>3, <3>1, <3>2
        <5>2. j < k => (e[j] < e[k] \/ e[j] > e[k])
          BY <2>2
        <5>3. k < j => (e[k] < e[j] \/ e[k] > e[j])
          BY <2>2
        <5> QED
          BY <5>1, <5>2, <5>3
      <4> QED
        BY <4>1
    <3>3. k - 1 \in sources(i - 1)
      BY <2>1, <2>3, <3>1
    <3>4. ASSUME NEW q \in sources(i - 1) PROVE q = k - 1
      <4>1. PICK j \in 1..n : j = q + 1
        BY <2>1
      <4>2. e[j] = i - 1
        BY <2>1, <2>3, <4>1
      <4>3. j = k
        BY <3>2, <4>2
      <4> QED
        BY <4>1, <4>3
    <3> HIDE DEF sources
    <3> QED
      BY <2>1, <3>1, <3>2, <3>3, <3>4
  <2>5. ASSUME NEW i \in 1..len, i - 1 \notin named PROVE sources(i - 1) = {}
    <3>1. SUFFICES ASSUME NEW q \in sources(i - 1) PROVE FALSE
      OBVIOUS
    <3>2. PICK j \in 1..n : j = q + 1
      BY <2>1
    <3>3. e[j] = i - 1
      BY <2>1, <2>3, <3>2
    <3> QED
      BY <2>1, <2>5, <3>3
  <2>6. ASSUME NEW i \in 1..len PROVE stored[i] = wanted[i]
    <3>1. CASE i - 1 \in named
      <4>1. PICK k \in 1..n : /\ sources(i - 1) = {k - 1}
                              /\ \A j \in 1..n : visit[j] = i - 1 <=> j = k
        BY <2>4, <3>1
      <4>2. (CHOOSE q \in sources(i - 1) : TRUE) = k - 1
        <5> HIDE DEF sources
        <5> QED
          BY <4>1
      <4>3. (CHOOSE j \in 1..Len(visit) : visit[j] = i - 1) = k
        BY <2>1, <4>1
      <4>4. sources(i - 1) # {}
        <5> HIDE DEF sources
        <5> QED
          BY <4>1
      <4>5. (k - 1) + 1 = k
        BY <2>1
      <4> HIDE DEF sources
      <4> QED
        BY <3>1, <4>2, <4>3, <4>4, <4>5
    <3>2. CASE i - 1 \notin named
      <4>1. sources(i - 1) = {}
        BY <2>5, <3>2
      <4> HIDE DEF sources
      <4> QED
        BY <3>2, <4>1
    <3> QED
      BY <3>1, <3>2
  <2>7. stored = wanted
    <3> HIDE DEF sources
    <3> QED
      BY <2>6
  <2> HIDE DEF stored, wanted, begin
  <2> QED
    BY <1>1, <1>2, <1>6, <2>1, <2>7
<1> QED
  BY <1>4, <1>5, <1>6

LEMMA WithoutIs ==
  ASSUME NEW list, NEW indexes, NEW e,
         Enumerates(e, (0..(Len(list) - 1)) \ indexes, 1)
  PROVE  Without(list, indexes) = [k \in 1..Len(e) |-> list[e[k] + 1]]
<1> DEFINE R == (0..(Len(list) - 1)) \ indexes
<1>1. PICK one \in Int : one = 1
  OBVIOUS
<1> HIDE DEF R
<1>2. InOrder(R, one) = e
  BY <1>1, InOrderIs DEF R
<1> QED
  BY <1>1, <1>2, Zenon DEF Without, R

\* Cutting a range out of a list.
LEMMA CutOut ==
  ASSUME NEW T, NEW list \in Seq(T), NEW start \in Nat, NEW count \in Nat, start + count <= Len(list)
  PROVE  SubSeq(list, 1, start) \o SubSeq(list, start + count + 1, Len(list))
           = Without(list, start..(start + count - 1))
<1> DEFINE len == Len(list)
           n   == len - count
           e   == [k \in 1..n |-> IF k <= start THEN k - 1 ELSE k - 1 + count]
           R   == (0..(len - 1)) \ (start..(start + count - 1))
           before == SubSeq(list, 1, start)
           after  == SubSeq(list, start + count + 1, len)
<1>1. len \in Nat /\ n \in Nat /\ start + count <= len
  OBVIOUS
<1>2. e \in Seq(Int) /\ Len(e) = n /\ \A k \in 1..n : e[k] = IF k <= start THEN k - 1 ELSE k - 1 + count
  <2> HIDE DEF len, n
  <2> QED
    BY <1>1
<1>3. ASSUME NEW x \in R PROVE \E k \in 1..n : e[k] = x
  <2>1. CASE x < start
    <3>1. PICK k \in 1..n : k = x + 1 /\ k <= start
      BY <1>1, <2>1
    <3> HIDE DEF e
    <3> QED
      BY <1>1, <1>2, <2>1, <3>1
  <2>2. CASE ~(x < start)
    <3>1. PICK k \in 1..n : k = x + 1 - count /\ ~(k <= start)
      BY <1>1, <2>2
    <3>2. x \in Int /\ k \in Int
      BY <1>1
    <3> HIDE DEF e, R
    <3>3. e[k] = k - 1 + count
      BY <1>2, <3>1
    <3> QED
      BY <3>1, <3>2, <3>3
  <2> QED
    BY <2>1, <2>2
<1>4. ASSUME NEW k \in 1..n PROVE e[k] \in R
  BY <1>1, <1>2
<1>5. \A j, k \in 1..n : j < k => e[j] < e[k]
  BY <1>1, <1>2
<1> HIDE DEF e, n, len
<1>6. R = {e[k] : k \in 1..n}
  <2> HIDE DEF R
  <2> QED
    BY <1>3, <1>4
<1>7. Enumerates(e, R, 1)
  <2> HIDE DEF R
  <2> QED
    BY <1>2, <1>5, <1>6 DEF Enumerates
<1>8. Without(list, start..(start + count - 1)) = [k \in 1..n |-> list[e[k] + 1]]
  <2> HIDE DEF R
  <2>1. Enumerates(e, (0..(Len(list) - 1)) \ (start..(start + count - 1)), 1)
    BY <1>7 DEF R, len
  <2>2. Without(list, start..(start + count - 1)) = [k \in 1..Len(e) |-> list[e[k] + 1]]
    BY <2>1, WithoutIs, Zenon
  <2> QED
    BY <1>2, <2>2
<1>9. before \in Seq(T) /\ Len(before) = start /\ \A k \in 1..start : before[k] = list[k]
  BY <1>1 DEF len
<1>10. /\ after \in Seq(T) /\ Len(after) = n - start
       /\ \A k \in 1..(n - start) : after[k] = list[start + count + k]
  BY <1>1 DEF len, n
<1> HIDE DEF before, after
<1> DEFINE all == before \o after
<1>11. all \in Seq(T) /\ Len(all) = n
  BY <1>1, <1>9, <1>10 DEF n
<1>12. ASSUME NEW k \in 1..n PROVE all[k] = list[e[k] + 1]
  <2>1. CASE k <= start
    <3>1. all[k] = before[k] /\ k \in 1..start
      BY <1>1, <1>9, <1>10, <2>1
    <3>2. e[k] + 1 = k
      BY <1>1, <1>2, <2>1
    <3> QED
      BY <1>9, <3>1, <3>2
  <2>2. CASE ~(k <= start)
    <3>1. PICK j \in 1..(n - start) : j = k - start
      BY <1>1, <2>2
    <3>2. all[k] = after[j]
      BY <1>1, <1>9, <1>10, <2>2, <3>1
    <3>3. e[k] + 1 = start + count + j
      BY <1>1, <1>2, <2>2, <3>1
    <3> QED
      BY <1>10, <3>1, <3>2, <3>3
  <2> QED
    BY <2>1, <2>2
<1>13. all = [k \in 1..n |-> list[e[k] + 1]]
  <2> HIDE DEF all
  <2>1. all = [k \in 1..n |-> all[k]]
    BY <1>1, <1>11
  <2> QED
    BY <1>12, <2>1
<1> QED
  BY <1>8, <1>13 DEF before, after, len

\* One index reads, stores and deletes the item Python names, or is out of bounds
\* where Python says so: op_get_index, op_store_index, op_delete_index with
\* normalize_index, ops_sequence.c.
THEOREM IndexExact ==
  ASSUME NEW T, NEW list \in Seq(T), NEW idx \in Int, NEW value
  PROVE  IndexIsPython(list, idx, value)
<1> DEFINE len == Len(list)
           i   == From(idx, len)
<1>1. len \in Nat
  OBVIOUS
<1>2. i = NormalizeIndex(idx, len) /\ i \in Int
  BY <1>1 DEF From, NormalizeIndex
<1>3. idx \in (-len)..(len - 1) <=> ValidIndex(idx, len)
  BY <1>1 DEF ValidIndex, NormalizeIndex
<1>4. CASE ~ValidIndex(idx, len)
  BY <1>3, <1>4 DEF IndexIsPython, GetIndex, SetIndex, DeleteIndex
<1>5. CASE ValidIndex(idx, len)
  <2>1. i \in Nat /\ i + 1 <= len
    BY <1>1, <1>2, <1>5 DEF ValidIndex
  <2>2. GetIndex(list, idx) = Done(list[i + 1])
    BY <1>2, <1>5 DEF GetIndex
  <2>3. SetIndex(list, idx, value) = Done([list EXCEPT ![i + 1] = value])
    BY <1>2, <1>5 DEF SetIndex
  <2>4. DeleteIndex(list, idx) = Done(SubSeq(list, 1, i) \o SubSeq(list, i + 2, len))
    BY <1>2, <1>5 DEF DeleteIndex
  <2>5. SubSeq(list, 1, i) \o SubSeq(list, i + 2, len) = Without(list, {i})
    <3> HIDE DEF i
    <3>1. PICK one \in Nat : one = 1
      OBVIOUS
    <3>2. SubSeq(list, 1, i) \o SubSeq(list, i + one + 1, Len(list)) = Without(list, i..(i + one - 1))
      BY <2>1, <3>1, CutOut
    <3>3. i + one + 1 = i + 2 /\ i..(i + one - 1) = {i}
      BY <2>1, <3>1
    <3> QED
      BY <3>2, <3>3
  <2> HIDE DEF i
  <2>6. IndexIsPython(list, idx, value)
          = (<<GetIndex(list, idx), SetIndex(list, idx, value), DeleteIndex(list, idx)>>
              = <<Done(list[i + 1]), Done([list EXCEPT ![i + 1] = value]), Done(Without(list, {i}))>>)
    BY <1>3, <1>5, Zenon DEF IndexIsPython, i
  <2> QED
    BY <2>2, <2>3, <2>4, <2>5, <2>6, Zenon
<1> QED
  BY <1>4, <1>5

IsNumbered(f, S, G, s) ==
  f \in [Nat -> S] /\ f[0] = s /\ \A i \in Nat : f[i + 1] = G[<<i, f[i]>>]

\* Recursion where a turn knows its number.
LEMMA IndexedRecursion ==
  ASSUME NEW S, NEW G \in [Nat \X S -> S], NEW s \in S
  PROVE  \E f : IsNumbered(f, S, G, s)
<1> DEFINE P == Nat \X S
           H == [p \in P |-> <<p[1] + 1, G[p]>>]
<1>1. H \in [P -> P] /\ <<0, s>> \in P
  OBVIOUS
<1>2. PICK g : IsIteration(g, P, H, <<0, s>>)
  <2> HIDE DEF H, P
  <2> QED
    BY <1>1, Recursion
<1>3. /\ \A i \in Nat : g[i] \in P /\ g[i + 1] = H[g[i]]
      /\ g[0] = <<0, s>>
  <2> HIDE DEF H, P
  <2> QED
    BY <1>2 DEF IsIteration
<1>4. \A i \in Nat : g[i + 1] = <<g[i][1] + 1, G[g[i]]>> /\ g[i] = <<g[i][1], g[i][2]>> /\ g[i][2] \in S
  <2> TAKE i \in Nat
  <2>1. g[i] \in P /\ g[i + 1] = H[g[i]]
    BY <1>3, Zenon
  <2>2. H[g[i]] = <<g[i][1] + 1, G[g[i]]>>
    <3> HIDE DEF P
    <3> QED
      BY <2>1
  <2>3. PICK j \in Nat, x \in S : g[i] = <<j, x>>
    BY <2>1
  <2> QED
    BY <2>1, <2>2, <2>3
<1> DEFINE N == {i \in Nat : g[i][1] = i}
<1>5. \A i \in Nat : i \in N
  <2>1. 0 \in N
    BY <1>3
  <2>2. ASSUME NEW i \in Nat, i \in N PROVE i + 1 \in N
    BY <1>4, <2>2
  <2> HIDE DEF N
  <2> QED
    BY <2>1, <2>2, Induction
<1> DEFINE f == [i \in Nat |-> g[i][2]]
<1>6. f \in [Nat -> S] /\ f[0] = s
  BY <1>3, <1>4
<1>7. ASSUME NEW i \in Nat PROVE f[i + 1] = G[<<i, f[i]>>]
  <2>1. g[i] = <<i, f[i]>>
    BY <1>4, <1>5
  <2>2. f[i + 1] = g[i + 1][2] /\ g[i + 1] = <<g[i][1] + 1, G[g[i]]>>
    BY <1>4
  <2> QED
    BY <2>1, <2>2
<1> HIDE DEF f
<1> QED
  BY <1>6, <1>7 DEF IsNumbered

LEMMA EnumerationGrows ==
  ASSUME NEW e, NEW i \in Nat, NEW R, R \subseteq 0..(i - 1), Enumerates(e, R, 1)
  PROVE  Enumerates(Append(e, i), R \cup {i}, 1)
<1> DEFINE n == Len(e)
           f == Append(e, i)
<1>1. /\ e \in Seq(Int) /\ n \in Nat
      /\ R = {e[k] : k \in 1..n}
      /\ \A j, k \in 1..n : j < k => e[j] < e[k]
  BY DEF Enumerates
<1>2. /\ f \in Seq(Int) /\ Len(f) = n + 1
      /\ \A k \in 1..n : f[k] = e[k]
      /\ f[n + 1] = i
  BY <1>1
<1> HIDE DEF f, n
<1>3. \A k \in 1..(n + 1) : k \in 1..n \/ k = n + 1
  BY <1>1
<1>4. \A k \in 1..n : f[k] < i /\ f[k] \in Int
  <2> TAKE k \in 1..n
  <2>1. e[k] \in R
    BY <1>1
  <2>2. e[k] \in 0..(i - 1)
    BY <2>1, Zenon
  <2> QED
    BY <1>2, <2>2
<1>5. R \cup {i} = {f[k] : k \in 1..(n + 1)}
  <2>1. \A k \in 1..n : k \in 1..(n + 1)
    BY <1>1
  <2>2. n + 1 \in 1..(n + 1)
    BY <1>1
  <2> QED
    BY <1>1, <1>2, <1>3, <2>1, <2>2
<1>6. ASSUME NEW j \in 1..(n + 1), NEW k \in 1..(n + 1), j < k PROVE f[j] < f[k]
  <2>1. j \in 1..n
    BY <1>1, <1>6
  <2>2. CASE k \in 1..n
    BY <1>1, <1>2, <1>6, <2>1, <2>2
  <2>3. CASE k = n + 1
    BY <1>2, <1>4, <2>1, <2>3
  <2> QED
    BY <1>3, <2>2, <2>3
<1> QED
  BY <1>2, <1>5, <1>6 DEF Enumerates, f

\* How far the loop of op_delete_slice is: the indexes it is past are those below i.
Passed(next, index, count, step, i) ==
  /\ IF step > 0 THEN next \in 0..count ELSE next \in -1..(count - 1)
  /\ \A q \in 0..(count - 1) : (IF step > 0 THEN q < next ELSE q > next) <=> index[q] < i

\* The indexes of a slice go up or down.
Runs(index, count, step) ==
  /\ index \in [0..(count - 1) -> Int]
  /\ \A j, k \in 0..(count - 1) :
       j < k => IF step > 0 THEN index[j] < index[k] ELSE index[j] > index[k]

\* Item i is at the index the loop waits for.
Meets(next, index, count, i) == next \in 0..(count - 1) /\ i = index[next]

\* The loop meets item i at the index it waits for just when some index is i, and
\* then waits for the next.
LEMMA PassedKept ==
  ASSUME NEW count \in Nat, NEW step \in Int, NEW index, Runs(index, count, step),
         NEW i \in Nat, NEW j, j = i + 1, NEW next, Passed(next, index, count, step, i)
  PROVE  /\ Meets(next, index, count, i) => Passed(IF step > 0 THEN next + 1 ELSE next - 1, index, count, step, j)
         /\ ~Meets(next, index, count, i) => Passed(next, index, count, step, j)
         /\ Meets(next, index, count, i) <=> \E q \in 0..(count - 1) : i = index[q]
<1> USE DEF Runs, Meets
<1> DEFINE hit == next \in 0..(count - 1) /\ i = index[next]
<1>1. /\ next \in Int
      /\ IF step > 0 THEN next \in 0..count ELSE next \in -1..(count - 1)
      /\ \A q \in 0..(count - 1) : (IF step > 0 THEN q < next ELSE q > next) <=> index[q] < i
  BY DEF Passed
<1>2. \A q \in 0..(count - 1) : index[q] \in Int /\ q \in Int
  OBVIOUS
<1>3. ASSUME NEW q \in 0..(count - 1), i = index[q] PROVE q = next
  <2>1. ~(IF step > 0 THEN q < next ELSE q > next)
    BY <1>1, <1>2, <1>3
  <2>2. CASE step > 0
    <3>1. next \in 0..(count - 1)
      BY <1>1, <1>2, <2>1, <2>2
    <3>2. next < q => index[next] < index[q]
      BY <2>2, <3>1
    <3>3. ~(index[next] < i)
      BY <1>1, <2>2, <3>1
    <3> QED
      BY <1>1, <1>2, <1>3, <2>1, <2>2, <3>2, <3>3
  <2>3. CASE ~(step > 0)
    <3>1. next \in 0..(count - 1)
      BY <1>1, <1>2, <2>1, <2>3
    <3>2. q < next => index[q] > index[next]
      BY <2>3, <3>1
    <3>3. ~(index[next] < i)
      BY <1>1, <2>3, <3>1
    <3> QED
      BY <1>1, <1>2, <1>3, <2>1, <2>3, <3>2, <3>3
  <2> QED
    BY <2>2, <2>3
<1>4. hit <=> \E q \in 0..(count - 1) : i = index[q]
  BY <1>3
<1>5. CASE hit
  <2>1. next \in 0..(count - 1) /\ i = index[next]
    BY <1>5
  <2>2. CASE step > 0
    <3>1. next + 1 \in 0..count
      BY <2>1
    <3>2. ASSUME NEW q \in 0..(count - 1) PROVE q < next + 1 <=> index[q] < j
      <4>1. q < next <=> index[q] < i
        BY <1>1, <2>2
      <4>2. i = index[q] => q = next
        BY <1>3
      <4> QED
        BY <1>1, <1>2, <2>1, <4>1, <4>2
    <3> QED
      BY <1>5, <2>2, <3>1, <3>2 DEF Passed
  <2>3. CASE ~(step > 0)
    <3>1. next - 1 \in -1..(count - 1)
      BY <2>1
    <3>2. ASSUME NEW q \in 0..(count - 1) PROVE q > next - 1 <=> index[q] < j
      <4>1. q > next <=> index[q] < i
        BY <1>1, <2>3
      <4>2. i = index[q] => q = next
        BY <1>3
      <4> QED
        BY <1>1, <1>2, <2>1, <4>1, <4>2
    <3> QED
      BY <1>5, <2>3, <3>1, <3>2 DEF Passed
  <2> QED
    BY <2>2, <2>3
<1>6. CASE ~hit
  <2>1. ASSUME NEW q \in 0..(count - 1) PROVE index[q] < i <=> index[q] < j
    <3>1. index[q] # i
      BY <1>4, <1>6
    <3> QED
      BY <1>2, <3>1
  <2>2. Passed(next, index, count, step, j)
    BY <1>1, <2>1 DEF Passed
  <2> HIDE DEF hit
  <2> QED
    BY <1>4, <1>6, <2>2 DEF hit
<1> QED
  BY <1>4, <1>5, <1>6

KeptStates(count, T) == [next : -1..count, kept : Seq(T)]

\* The turn of op_delete_slice's loop for the item before i.
KeptTurn(list, start, count, step, i, w) ==
  IF w.next \in 0..(count - 1) /\ i - 1 = start + w.next * step
  THEN [w EXCEPT !.next = IF step > 0 THEN @ + 1 ELSE @ - 1]
  ELSE [w EXCEPT !.kept = Append(@, list[i])]

\* The walk the loop makes, turn by turn.
LEMMA KeptWalk ==
  ASSUME NEW T, NEW list \in Seq(T), NEW start \in Int, NEW count \in Nat, NEW step \in Int
  PROVE  \E walk : /\ walk[0] = [next |-> IF step > 0 THEN 0 ELSE count - 1, kept |-> << >>]
                   /\ \A i \in Nat : i < Len(list) =>
                        walk[i + 1] = KeptTurn(list, start, count, step, i + 1, walk[i])
                   /\ Kept(list, start, count, step) = walk[Len(list)].kept
<1> DEFINE n == Len(list)
           first == [next |-> IF step > 0 THEN 0 ELSE count - 1, kept |-> << >>]
           S == KeptStates(count, T)
           Turn(i, w) == KeptTurn(list, start, count, step, i, w)
           G == [p \in Nat \X S |-> IF p[1] < n THEN Turn(p[1] + 1, p[2]) ELSE p[2]]
           Is(p) == p = [i \in 0..n |-> IF i = 0 THEN first ELSE Turn(i, p[i - 1])]
           walk == CHOOSE p : Is(p)
<1>1. n \in Nat
  OBVIOUS
<1>2. first \in S
  BY DEF KeptStates
<1>3. ASSUME NEW i \in Nat, i < n, NEW w \in S PROVE Turn(i + 1, w) \in S
  <2>1. list[i + 1] \in T
    BY <1>1, <1>3
  <2>2. w.kept \in Seq(T) /\ w.next \in -1..count
    BY DEF KeptStates
  <2>3. Append(w.kept, list[i + 1]) \in Seq(T)
    BY <2>1, <2>2
  <2>4. w.next \in 0..(count - 1) => (IF step > 0 THEN w.next + 1 ELSE w.next - 1) \in -1..count
    OBVIOUS
  <2>5. ASSUME NEW k \in Seq(T) PROVE [w EXCEPT !.kept = k] \in S
    BY DEF KeptStates
  <2>6. ASSUME NEW m \in -1..count PROVE [w EXCEPT !.next = m] \in S
    BY DEF KeptStates
  <2> HIDE DEF S
  <2> QED
    BY <2>3, <2>4, <2>5, <2>6 DEF KeptTurn
<1> HIDE DEF S, n, Turn, first
<1>4. G \in [Nat \X S -> S]
  <2>1. ASSUME NEW p \in Nat \X S PROVE G[p] \in S
    <3>1. p[1] \in Nat /\ p[2] \in S
      OBVIOUS
    <3> QED
      BY <1>3, <3>1
  <2> QED
    BY <2>1
<1>5. PICK f \in [Nat -> S] : f[0] = first /\ \A i \in Nat : f[i + 1] = G[<<i, f[i]>>]
  <2> HIDE DEF G
  <2>1. PICK f : IsNumbered(f, S, G, first)
    BY <1>2, <1>4, IndexedRecursion
  <2> QED
    BY <2>1, Zenon DEF IsNumbered
<1>6. ASSUME NEW i \in Nat, i < n PROVE f[i + 1] = Turn(i + 1, f[i])
  <2>1. f[i + 1] = G[<<i, f[i]>>] /\ f[i] \in S
    BY <1>5
  <2>2. <<i, f[i]>> \in Nat \X S /\ <<i, f[i]>>[1] = i /\ <<i, f[i]>>[2] = f[i]
    BY <2>1
  <2> QED
    BY <1>6, <2>1, <2>2
<1> HIDE DEF G
<1> DEFINE q == [i \in 0..n |-> f[i]]
<1>7. Is(q)
  <2>1. ASSUME NEW i \in 0..n PROVE q[i] = IF i = 0 THEN first ELSE Turn(i, q[i - 1])
    <3>1. CASE i = 0
      BY <1>5, <3>1
    <3>2. CASE i # 0
      <4>1. PICK k \in Nat : k = i - 1 /\ i = k + 1 /\ k \in 0..n /\ k < n
        BY <1>1, <3>2
      <4>2. f[k + 1] = Turn(k + 1, f[k])
        BY <1>6, <4>1
      <4>3. q[i] = f[k + 1] /\ q[i - 1] = f[k]
        BY <4>1
      <4> HIDE DEF q
      <4> QED
        BY <3>2, <4>1, <4>2, <4>3
    <3> QED
      BY <3>1, <3>2
  <2> QED
    BY <2>1
<1>8. Is(walk)
  <2> HIDE DEF Is, q
  <2> QED
    BY <1>7
<1>9. Kept(list, start, count, step) = walk[n].kept
  BY Zenon DEF Kept, KeptTurn, Turn, first, n
<1> HIDE DEF walk
<1>10. walk[0] = first
  BY <1>1, <1>8
<1>11. ASSUME NEW i \in Nat, i < n PROVE walk[i + 1] = Turn(i + 1, walk[i])
  <2>1. i + 1 \in 0..n /\ i + 1 # 0 /\ (i + 1) - 1 = i
    BY <1>1, <1>11
  <2> QED
    BY <1>8, <2>1
<1> QED
  BY <1>9, <1>10, <1>11 DEF n, Turn, first

\* What is kept of a list are the items at the indexes R.
Remains(kept, list, R) ==
  \E e : Enumerates(e, R, 1) /\ kept = [k \in 1..Len(e) |-> list[e[k] + 1]]

LEMMA RemainsWithout ==
  ASSUME NEW list, NEW indexes, NEW kept, Remains(kept, list, (0..(Len(list) - 1)) \ indexes)
  PROVE  kept = Without(list, indexes)
<1>1. PICK e : /\ Enumerates(e, (0..(Len(list) - 1)) \ indexes, 1)
               /\ kept = [k \in 1..Len(e) |-> list[e[k] + 1]]
  BY Zenon DEF Remains
<1>2. Without(list, indexes) = [k \in 1..Len(e) |-> list[e[k] + 1]]
  BY <1>1, WithoutIs, Zenon
<1> QED
  BY <1>1, <1>2

LEMMA RemainsGrows ==
  ASSUME NEW list, NEW i \in Nat, NEW R, R \subseteq 0..(i - 1), NEW kept, Remains(kept, list, R)
  PROVE  Remains(Append(kept, list[i + 1]), list, R \cup {i})
<1>1. PICK e : Enumerates(e, R, 1) /\ kept = [k \in 1..Len(e) |-> list[e[k] + 1]]
  BY Zenon DEF Remains
<1> DEFINE f == Append(e, i)
           n == Len(e)
<1>2. Enumerates(f, R \cup {i}, 1)
  BY <1>1, EnumerationGrows
<1>4. /\ n \in Nat /\ Len(f) = n + 1 /\ f[n + 1] = i
      /\ \A k \in 1..n : f[k] = e[k]
  BY <1>1 DEF Enumerates
<1> HIDE DEF f
<1>5. Len(kept) = n
  BY <1>1, <1>4
<1>6. Append(kept, list[i + 1]) = [k \in 1..(n + 1) |-> IF k = n + 1 THEN list[i + 1] ELSE kept[k]]
  <2>1. Append(kept, list[i + 1]) = [k \in 1..(Len(kept) + 1) |-> IF k <= Len(kept) THEN kept[k] ELSE list[i + 1]]
    <3> DEFINE V == {kept[k] : k \in 1..n}
               x == list[i + 1]
    <3>1. kept \in Seq(V \cup {x}) /\ x \in V \cup {x}
      BY <1>1, <1>4
    <3> HIDE DEF V, x
    <3> DEFINE a == Append(kept, x)
               m == Len(kept)
    <3>2. /\ a \in Seq(V \cup {x}) /\ Len(a) = m + 1 /\ m \in Nat
          /\ \A k \in 1..m : a[k] = kept[k]
          /\ a[m + 1] = x
      BY <3>1
    <3> HIDE DEF a, m
    <3>3. a = [k \in 1..(m + 1) |-> a[k]]
      BY <3>2
    <3>4. \A k \in 1..(m + 1) : a[k] = IF k <= m THEN kept[k] ELSE x
      <4> TAKE k \in 1..(m + 1)
      <4>1. CASE k <= m
        BY <3>2, <4>1
      <4>2. CASE ~(k <= m)
        <5>1. k = m + 1
          BY <3>2, <4>2
        <5> QED
          BY <3>2, <4>2, <5>1
      <4> QED
        BY <4>1, <4>2
    <3>5. a = [k \in 1..(m + 1) |-> IF k <= m THEN kept[k] ELSE x]
      BY <3>3, <3>4
    <3> QED
      BY <3>5 DEF x, a, m
  <2>2. \A k \in 1..(n + 1) : k <= n <=> k # n + 1
    BY <1>4
  <2> QED
    BY <1>5, <2>1, <2>2
<1>7. ASSUME NEW k \in 1..(n + 1)
      PROVE  (IF k = n + 1 THEN list[i + 1] ELSE kept[k]) = list[f[k] + 1]
  <2>1. CASE k = n + 1
    BY <1>4, <2>1
  <2>2. CASE k # n + 1
    <3>1. k \in 1..n
      BY <1>4, <2>2
    <3> QED
      BY <1>1, <1>4, <2>2, <3>1
  <2> QED
    BY <2>1, <2>2
<1>8. Append(kept, list[i + 1]) = [k \in 1..Len(f) |-> list[f[k] + 1]]
  BY <1>4, <1>6, <1>7
<1> QED
  BY <1>2, <1>8, Zenon DEF Remains

\* The indexes of a slice of a list.
Picks(R, index, list, start, count, step) ==
  /\ Runs(index, count, step)
  /\ \A q \in 0..(count - 1) : index[q] = start + q * step /\ index[q] \in 0..(Len(list) - 1)
  /\ R = {index[q] : q \in 0..(count - 1)}

\* The loop of op_delete_slice keeps the items at no index of the slice.
LEMMA KeptIs ==
  ASSUME NEW T, NEW list \in Seq(T), NEW start \in Int, NEW count \in Nat, NEW step \in Int,
         NEW R, NEW index, Picks(R, index, list, start, count, step)
  PROVE  Kept(list, start, count, step) = Without(list, R)
<1>0. /\ Runs(index, count, step)
      /\ \A q \in 0..(count - 1) : index[q] = start + q * step /\ index[q] \in 0..(Len(list) - 1)
      /\ R = {index[q] : q \in 0..(count - 1)}
  BY Zenon DEF Picks
<1> DEFINE n == Len(list)
           named == {index[q] : q \in 0..(count - 1)}
           first == [next |-> IF step > 0 THEN 0 ELSE count - 1, kept |-> << >>]
<1>1. PICK walk : /\ walk[0] = first
                  /\ \A i \in Nat : i < n => walk[i + 1] = KeptTurn(list, start, count, step, i + 1, walk[i])
                  /\ Kept(list, start, count, step) = walk[n].kept
  BY KeptWalk
<1> DEFINE Inv(i) == /\ walk[i] \in KeptStates(count, T)
                     /\ Passed(walk[i].next, index, count, step, i)
                     /\ Remains(walk[i].kept, list, (0..(i - 1)) \ named)
           S == {i \in Nat : i <= n => Inv(i)}
<1>2. n \in Nat
  OBVIOUS
<1>3. 0 \in S
  <2>1. walk[0].kept = << >> /\ walk[0].next = (IF step > 0 THEN 0 ELSE count - 1)
    BY <1>1
  <2>2. walk[0] \in KeptStates(count, T)
    BY <1>1 DEF KeptStates
  <2>3. Passed(walk[0].next, index, count, step, 0)
    BY <1>0, <2>1 DEF Passed
  <2>4. Remains(<< >>, list, (0..(0 - 1)) \ named)
    <3> DEFINE e == << >>
    <3>1. (0..(0 - 1)) \ named = {}
      OBVIOUS
    <3>2. Enumerates(e, {}, 1)
      BY DEF Enumerates
    <3>3. << >> = [k \in 1..Len(e) |-> list[e[k] + 1]]
      OBVIOUS
    <3> HIDE DEF e, named
    <3> QED
      BY <3>1, <3>2, <3>3 DEF Remains
  <2> HIDE DEF named
  <2> QED
    BY <2>1, <2>2, <2>3, <2>4
<1>4. ASSUME NEW i \in Nat, i \in S, i + 1 <= n PROVE Inv(i + 1)
  <2> DEFINE w == walk[i]
             hit == w.next \in 0..(count - 1) /\ i = index[w.next]
             next == IF step > 0 THEN w.next + 1 ELSE w.next - 1
             v == walk[i + 1]
  <2>1. w \in KeptStates(count, T) /\ Passed(w.next, index, count, step, i) /\ Remains(w.kept, list, (0..(i - 1)) \ named)
    <3> HIDE DEF Inv
    <3>1. Inv(i)
      BY <1>2, <1>4
    <3> QED
      BY <3>1, Zenon DEF Inv
  <2>2. /\ hit <=> i \in named
        /\ Passed(IF hit THEN next ELSE w.next, index, count, step, i + 1)
    <3> DEFINE m == w.next
    <3>1. Passed(m, index, count, step, i)
      BY <2>1
    <3> HIDE DEF m
    <3>2. PICK j \in Int : j = i + 1
      OBVIOUS
    <3>3. /\ Meets(m, index, count, i) => Passed(IF step > 0 THEN m + 1 ELSE m - 1, index, count, step, j)
          /\ ~Meets(m, index, count, i) => Passed(m, index, count, step, j)
      BY <1>0, <3>1, <3>2, PassedKept, Zenon
    <3>5. Meets(m, index, count, i) <=> \E q \in 0..(count - 1) : i = index[q]
      BY <1>0, <3>1, <3>2, PassedKept
    <3>4. i \in named <=> \E q \in 0..(count - 1) : i = index[q]
      OBVIOUS
    <3> HIDE DEF named
    <3> QED
      BY <3>2, <3>3, <3>4, <3>5 DEF m, Meets
  <2>3. v = IF hit THEN [w EXCEPT !.next = next] ELSE [w EXCEPT !.kept = Append(@, list[i + 1])]
    <3>1. v = KeptTurn(list, start, count, step, i + 1, w)
      BY <1>1, <1>2, <1>4
    <3>2. (i + 1) - 1 = i
      OBVIOUS
    <3>3. w.next \in 0..(count - 1) => index[w.next] = start + w.next * step
      BY <1>0
    <3> HIDE DEF w, v
    <3>4. v = IF w.next \in 0..(count - 1) /\ (i + 1) - 1 = start + w.next * step
              THEN [w EXCEPT !.next = next] ELSE [w EXCEPT !.kept = Append(@, list[i + 1])]
      BY <3>1, Zenon DEF KeptTurn
    <3> QED
      BY <3>2, <3>3, <3>4
  <2> HIDE DEF w, v, hit, next, named
  <2>5. CASE hit
    <3>1. v = [w EXCEPT !.next = next] /\ Passed(next, index, count, step, i + 1)
      BY <2>2, <2>3, <2>5
    <3>2. next \in -1..count
      BY <3>1 DEF Passed
    <3>3. v \in KeptStates(count, T) /\ v.next = next /\ v.kept = w.kept
      BY <2>1, <3>1, <3>2 DEF KeptStates
    <3>4. (0..(i - 1)) \ named = (0..(i + 1 - 1)) \ named
      BY <2>2, <2>5
    <3>5. Remains(w.kept, list, (0..(i + 1 - 1)) \ named)
      BY <2>1, <3>4, Zenon
    <3>6. Passed(v.next, index, count, step, i + 1) /\ Remains(v.kept, list, (0..(i + 1 - 1)) \ named)
      BY <3>1, <3>3, <3>5, Zenon
    <3>7. /\ walk[i + 1] \in KeptStates(count, T)
          /\ Passed(walk[i + 1].next, index, count, step, i + 1)
          /\ Remains(walk[i + 1].kept, list, (0..(i + 1 - 1)) \ named)
      BY <3>3, <3>6, Zenon DEF v
    <3> QED
      BY <3>7
  <2>6. CASE ~hit
    <3>1. v = [w EXCEPT !.kept = Append(@, list[i + 1])] /\ Passed(w.next, index, count, step, i + 1)
      BY <2>2, <2>3, <2>6
    <3>2. list[i + 1] \in T
      BY <1>2, <1>4
    <3>3. v \in KeptStates(count, T) /\ v.next = w.next /\ v.kept = Append(w.kept, list[i + 1])
      <4>1. Append(w.kept, list[i + 1]) \in Seq(T)
        BY <2>1, <3>2 DEF KeptStates
      <4> DEFINE k == Append(w.kept, list[i + 1])
      <4>2. v = [w EXCEPT !.kept = k]
        BY <3>1
      <4> HIDE DEF k
      <4>3. v \in KeptStates(count, T) /\ v.next = w.next /\ v.kept = k
        BY <2>1, <4>1, <4>2 DEF KeptStates, k
      <4> QED
        BY <4>3 DEF k
    <3>4. Remains(Append(w.kept, list[i + 1]), list, (0..(i + 1 - 1)) \ named)
      <4> DEFINE Left == (0..(i - 1)) \ named
      <4>1. Left \subseteq 0..(i - 1) /\ Left \cup {i} = (0..(i + 1 - 1)) \ named
        BY <2>2, <2>6
      <4>2. Remains(w.kept, list, Left)
        BY <2>1
      <4> HIDE DEF Left
      <4>3. Remains(Append(w.kept, list[i + 1]), list, Left \cup {i})
        BY <4>1, <4>2, RemainsGrows, Zenon
      <4> QED
        BY <4>1, <4>3, Zenon
    <3>6. Passed(v.next, index, count, step, i + 1) /\ Remains(v.kept, list, (0..(i + 1 - 1)) \ named)
      BY <3>1, <3>3, <3>4, Zenon
    <3>7. /\ walk[i + 1] \in KeptStates(count, T)
          /\ Passed(walk[i + 1].next, index, count, step, i + 1)
          /\ Remains(walk[i + 1].kept, list, (0..(i + 1 - 1)) \ named)
      BY <3>3, <3>6, Zenon DEF v
    <3> QED
      BY <3>7
  <2> QED
    BY <2>5, <2>6
<1>5. \A i \in Nat : i \in S
  <2>1. \A i \in Nat : i \in S => i + 1 \in S
    <3> HIDE DEF Inv
    <3> QED
      BY <1>4
  <2> HIDE DEF S
  <2> QED
    BY <1>3, <2>1, Induction
<1>6. Remains(walk[n].kept, list, (0..(n - 1)) \ named)
  <2> HIDE DEF Inv
  <2>1. Inv(n)
    BY <1>2, <1>5
  <2> QED
    BY <2>1, Zenon DEF Inv
<1> HIDE DEF named, n
<1>7. Remains(walk[n].kept, list, (0..(Len(list) - 1)) \ named)
  BY <1>6, Zenon DEF n
<1>8. walk[n].kept = Without(list, named)
  BY <1>7, RemainsWithout, Zenon
<1> QED
  BY <1>0, <1>1, <1>8, Zenon DEF named, n

\* A slice reads and deletes the items Python names, in its order, for any list, bounds
\* and step: op_get_slice, and op_delete_slice with its loop, ops_sequence.c.
THEOREM SliceExact ==
  ASSUME NEW T, NEW list \in Seq(T), Len(list) <= IntMax,
         NEW start \in OptInts, NEW stop \in OptInts, NEW step_val \in OptInts
  PROVE  SliceIsPython(list, start, stop, step_val)
<1> DEFINE len    == Len(list)
           py     == IF step_val = Absent THEN 1 ELSE step_val
           step   == StepOf(step_val)
           named  == Named(start, stop, py, len)
           visit  == InOrder(named, py)
           get    == GetSlice(list, start, stop, step_val)
           delete == DeleteSlice(list, start, stop, step_val)
           s      == AdjustSlice(start, stop, step, len)
           e      == [k \in 1..s.count |-> s.start + (k - 1) * step]
<1> SUFFICES IF py = 0 THEN get.error # "OK" /\ delete.error # "OK"
             ELSE /\ get = Done([k \in 1..Len(visit) |-> list[visit[k] + 1]])
                  /\ delete = Done(Without(list, named))
  BY Zenon DEF SliceIsPython
<1>1. len \in Nat /\ (step = 0 <=> py = 0) /\ (step = 1 <=> py = 1) /\ step \in Int
  <2>1. (step = 0 <=> py = 0) /\ (step = 1 <=> py = 1) /\ step \in Int
    BY StepFacts
  <2> QED
    BY <2>1
<1>2. CASE step = 0
  BY <1>1, <1>2, NoStep
<1>3. ASSUME step # 0 PROVE get = Done([k \in 1..Len(visit) |-> list[visit[k] + 1]])
  BY <1>3, GetSliceIs
<1>4. ASSUME step # 0
      PROVE  /\ s.count \in Nat /\ s.start \in -1..len
             /\ Enumerates(e, named, py) /\ Len(e) = s.count
             /\ named \subseteq 0..(len - 1)
  BY <1>1, <1>4, SliceVisits
<1>5. delete = IF step = 0 THEN Failed("VALUE")
               ELSE IF s.count = 0 THEN Done(list)
               ELSE IF step = 1 THEN Done(ReplaceRange(list, s.start, s.count, << >>))
               ELSE Done(Kept(list, s.start, s.count, step))
  BY Zenon DEF DeleteSlice
<1>6. ASSUME step # 0
      PROVE  /\ \A k \in 1..s.count : e[k] = s.start + (k - 1) * step
             /\ named = {e[k] : k \in 1..s.count}
  <2>1. Len(e) = s.count /\ named = {e[k] : k \in 1..Len(e)}
    BY <1>4, <1>6, Zenon DEF Enumerates
  <2>2. \A k \in 1..s.count : e[k] = s.start + (k - 1) * step
    OBVIOUS
  <2> HIDE DEF e, named
  <2> QED
    BY <2>1, <2>2
<1>7. ASSUME step # 0, s.count = 0 PROVE list = Without(list, named)
  <2>1. named = {}
    <3> HIDE DEF e, named
    <3> QED
      BY <1>6, <1>7
  <2>2. PICK zero \in Nat : zero = 0
    OBVIOUS
  <2>6. zero + zero <= Len(list)
    BY <1>1, <2>2
  <2>3. SubSeq(list, 1, zero) \o SubSeq(list, zero + zero + 1, Len(list)) = Without(list, zero..(zero + zero - 1))
    BY <2>6, CutOut
  <2>4. zero..(zero + zero - 1) = {}
    BY <2>2
  <2>5. SubSeq(list, 1, zero) \o SubSeq(list, zero + zero + 1, Len(list)) = list
    BY <2>2
  <2> QED
    BY <2>1, <2>3, <2>4, <2>5, Zenon
<1>8. ASSUME step = 1, s.count # 0
      PROVE  ReplaceRange(list, s.start, s.count, << >>) = Without(list, named)
  <2>1. PICK a, n : a = s.start /\ n = s.count
    OBVIOUS
  <2>2. a \in Nat /\ n \in Nat /\ a + n <= len
    <3> DEFINE t == AdjustSlice(start, stop, 1, len)
    <3>1. s = t
      BY <1>8
    <3>2. t.start \in 0..len /\ t.count \in Nat /\ t.start + t.count <= len
      <4> HIDE DEF len
      <4>1. len \in Nat
        BY <1>1
      <4> QED
        BY <4>1, BeginIs
    <3> HIDE DEF s, t
    <3> QED
      BY <1>1, <2>1, <3>1, <3>2
  <2>3. named = a..(a + n - 1)
    <3>1. \A k \in 1..n : e[k] = a + (k - 1)
      <4> HIDE DEF e, s, named
      <4>1. \A k \in 1..n : e[k] = a + (k - 1) * step
        BY <1>6, <1>8, <2>1
      <4> QED
        BY <1>8, <2>2, <4>1
    <3>2. named = {e[k] : k \in 1..n}
      <4> HIDE DEF e, s, named
      <4> QED
        BY <1>6, <1>8, <2>1
    <3> HIDE DEF e, s, named
    <3>3. ASSUME NEW x \in a..(a + n - 1) PROVE x \in named
      <4>1. PICK k \in 1..n : x = a + (k - 1)
        <5>1. x - a + 1 \in 1..n /\ x = a + ((x - a + 1) - 1)
          BY <2>2
        <5> QED
          BY <5>1
      <4> QED
        BY <3>1, <3>2, <4>1
    <3>4. ASSUME NEW x \in named PROVE x \in a..(a + n - 1)
      <4>1. PICK k \in 1..n : x = a + (k - 1)
        BY <3>1, <3>2
      <4> QED
        BY <2>2, <4>1
    <3> QED
      BY <3>3, <3>4
  <2>4. SubSeq(list, 1, a) \o SubSeq(list, a + n + 1, Len(list)) = Without(list, a..(a + n - 1))
    BY <2>2, CutOut
  <2>5. ReplaceRange(list, a, n, << >>) = SubSeq(list, 1, a) \o SubSeq(list, a + n + 1, Len(list))
    <3>1. SubSeq(list, 1, a) \in Seq(T) /\ SubSeq(list, a + n + 1, Len(list)) \in Seq(T)
      BY <2>2
    <3>2. SubSeq(list, 1, a) \o << >> = SubSeq(list, 1, a)
      BY <3>1
    <3> QED
      BY <3>2 DEF ReplaceRange
  <2> HIDE DEF s, named
  <2> QED
    BY <2>1, <2>3, <2>4, <2>5
<1>9. ASSUME step # 0, s.count # 0
      PROVE  Kept(list, s.start, s.count, step) = Without(list, named)
  <2>1. PICK a, n : a = s.start /\ n = s.count
    OBVIOUS
  <2> DEFINE index == [q \in 0..(n - 1) |-> a + q * step]
  <2>2. a \in Int /\ n \in Nat
    BY <1>4, <1>9, <2>1
  <2>3. \A k \in 1..n : e[k] = a + (k - 1) * step
    BY <1>6, <1>9, <2>1
  <2>4. named = {e[k] : k \in 1..n} /\ named \subseteq 0..(len - 1)
    BY <1>4, <1>6, <1>9, <2>1, Zenon
  <2>5. \A q \in 0..(n - 1) : index[q] = a + q * step
    OBVIOUS
  <2>6. \A j, k \in 1..n : j < k => IF py > 0 THEN e[j] < e[k] ELSE e[j] > e[k]
    BY <1>4, <1>9, <2>1, Zenon DEF Enumerates
  <2>7. step > 0 <=> py > 0
    BY StepFacts
  <2> HIDE DEF e, s, named, step, py
  <2>8. \A q \in 0..(n - 1) : q + 1 \in 1..n /\ index[q] = e[q + 1]
    <3> TAKE q \in 0..(n - 1)
    <3>1. PICK k \in 1..n : k = q + 1 /\ k - 1 = q
      BY <2>2
    <3>2. e[k] = a + q * step
      BY <2>3, <3>1
    <3> HIDE DEF index
    <3> QED
      BY <2>5, <3>1, <3>2
  <2>9. {index[q] : q \in 0..(n - 1)} = named
    <3> HIDE DEF index
    <3>1. ASSUME NEW k \in 1..n PROVE \E q \in 0..(n - 1) : index[q] = e[k]
      <4>1. PICK q \in 0..(n - 1) : q = k - 1 /\ q + 1 = k
        BY <2>2
      <4> QED
        BY <2>8, <4>1
    <3>2. ASSUME NEW q \in 0..(n - 1) PROVE index[q] \in named
      <4>1. PICK k \in 1..n : index[q] = e[k]
        BY <2>8
      <4> QED
        BY <2>4, <4>1
    <3>3. ASSUME NEW x \in named PROVE \E q \in 0..(n - 1) : index[q] = x
      <4>1. PICK k \in 1..n : x = e[k]
        BY <2>4
      <4> QED
        BY <3>1, <4>1
    <3> QED
      BY <3>2, <3>3
  <2>10. \A q \in 0..(n - 1) : index[q] \in 0..(len - 1)
    <3> HIDE DEF index
    <3> QED
      BY <2>4, <2>9
  <2>11. Runs(index, n, step)
    <3>1. index \in [0..(n - 1) -> Int]
      <4>1. \A q \in 0..(n - 1) : a + q * step \in Int
        BY <1>1, <2>2 DEF step
      <4> QED
        BY <4>1
    <3> HIDE DEF index
    <3>2. \A j, k \in 0..(n - 1) : j < k => IF step > 0 THEN index[j] < index[k] ELSE index[j] > index[k]
      <4> TAKE j, k \in 0..(n - 1)
      <4> HAVE j < k
      <4>1. PICK x \in 1..n, y \in 1..n : x = j + 1 /\ y = k + 1 /\ x < y
        BY <2>8
      <4> QED
        BY <2>6, <2>7, <2>8, <4>1
    <3> QED
      BY <3>1, <3>2 DEF Runs
  <2> HIDE DEF index
  <2>12. step \in Int
    BY <1>1
  <2>13. Kept(list, a, n, step) = Without(list, named)
    <3>1. \A q \in 0..(n - 1) : index[q] = a + q * step /\ index[q] \in 0..(Len(list) - 1)
      BY <2>5, <2>10
    <3> QED
      <4>1. Picks(named, index, list, a, n, step)
        BY <2>9, <2>11, <3>1 DEF Picks
      <4> QED
        BY <2>2, <2>12, <4>1, KeptIs
  <2> QED
    BY <2>1, <2>9, <2>13
<1> HIDE DEF get, delete, named, visit, s, e
<1>10. CASE step # 0
  BY <1>1, <1>3, <1>5, <1>7, <1>8, <1>9, <1>10
<1> QED
  BY <1>2, <1>10

\* Subscripts and slices of a case are Python's: the property of the runs, for every
\* list, bound and step of the word (ops_sequence.c).
THEOREM SlicesTheorem == CaseType => SlicesAsInPython
<1> SUFFICES ASSUME CaseType, case.kind = "slice" PROVE SlicesAsInPython
  BY DEF SlicesAsInPython
<1> DEFINE list == Firsts(case.a)
<1>1. case.a \in 0..IntMax /\ case.b \in OptInts
  BY DEF CaseType, OptInts
<1>2. list \in Seq(Int) /\ Len(list) = case.a
  BY <1>1, Word DEF Firsts, Ints
<1>3. ASSUME case.b # Absent, NEW value PROVE IndexIsPython(list, case.b, value)
  <2>1. case.b \in Int
    BY <1>1, <1>3, Word DEF OptInts, Ints
  <2> HIDE DEF list
  <2> QED
    BY <1>2, <2>1, IndexExact
<1>4. ASSUME NEW stop \in Bounds, NEW step_val \in Bounds
      PROVE  /\ SliceIsPython(list, case.b, stop, step_val)
             /\ \A k \in 0..(MaxItems + 1) :
                  StoreIsPython(list, case.b, stop, step_val, [i \in 1..k |-> 100 + i])
  <2>1. stop \in OptInts /\ step_val \in OptInts
    BY BoundsAssumption DEF OptInts
  <2>2. Len(list) <= IntMax
    BY <1>1, <1>2
  <2> HIDE DEF list
  <2>3. SliceIsPython(list, case.b, stop, step_val)
    BY <1>1, <1>2, <2>1, <2>2, SliceExact
  <2>4. ASSUME NEW k \in 0..(MaxItems + 1)
        PROVE  StoreIsPython(list, case.b, stop, step_val, [i \in 1..k |-> 100 + i])
    <3> DEFINE items == [i \in 1..k |-> 100 + i]
    <3>1. items \in Seq(Int)
      OBVIOUS
    <3> HIDE DEF items
    <3>2. StoreIsPython(list, case.b, stop, step_val, items)
      BY <1>1, <1>2, <2>1, <2>2, <3>1, StoreSliceExact
    <3> QED
      BY <3>2 DEF items
  <2> QED
    BY <2>3, <2>4
<1>5. case.b # Absent => IndexIsPython(list, case.b, 100)
  BY <1>3
<1> HIDE DEF list
<1> QED
  BY <1>4, <1>5, Zenon DEF SlicesAsInPython, list
=============================================================================
