------------------------------ MODULE PyValues ------------------------------
(***************************************************************************)
(* What Python says of values, beside what Comparing computes: when two    *)
(* are equal, which comes first, what is in a container, what the          *)
(* operations on sets yield.                                               *)
(*                                                                         *)
(* A state is one case, of two cells of the heap.  Where the code is known *)
(* to differ from Python, the property says so and excepts exactly that.   *)
(***************************************************************************)
EXTENDS Comparing, PyNumbers

\* A value is made after what it holds, so the cells can be numbered that way: a
\* list that holds itself is left out, and so are items views and the floats that
\* are not an integer.  The items of a set and the keys of a dict can be hashed and
\* no two of them match.
NoneMatch(items) ==
  /\ \A i \in 1..Len(items) : Hashable(items[i])
  /\ \A i, j \in 1..Len(items) : Matches(HashTerms, AreEqual, items[i], items[j]) => i = j

WellFormed(v) ==
  /\ Items(v) \in Seq(1..(v - 1))
  /\ Vals(v) \in Seq(1..(v - 1))
  /\ CASE Tag(v) = "INT"   -> N(v)[1] \in Ints
       [] Tag(v) = "BOOL"  -> N(v)[1] \in {0, 1}
       [] Tag(v) = "FLOAT" -> IsNan(v) \/ N(v)[1] \in Doubles \cap Ints
       [] Tag(v) \in {"STRING", "BYTES"} -> N(v) \in Seq(Nat)
       [] Tag(v) = "RANGE" -> \A k \in 1..3 : N(v)[k] \in Ints /\ N(v)[3] # 0
       [] Tag(v) \in {"SET", "FROZENSET"} -> NoneMatch(Items(v))
       [] Tag(v) = "DICT"  -> NoneMatch(Items(v)) /\ Len(Vals(v)) = Len(Items(v))
       [] Tag(v) = "DICT_VIEW" -> /\ N(v) \in {<<"KEYS">>, <<"VALUES">>}
                                  /\ Len(Items(v)) = 1 /\ Tag(Items(v)[1]) = "DICT"
       [] OTHER -> TRUE

ASSUME HeapAssumption == Len(heap) \in Nat /\ \A v \in Cells : WellFormed(v)

\* A case of two values has two cells.
ValuesType == case.kind = "values" => case.a \in Cells /\ case.b \in Cells

-----------------------------------------------------------------------------
(* Equality *)

PairsOf(denotes, s, t) == {<<denotes[s[i]], denotes[t[i]]>> : i \in 1..Len(s)}

\* What a value stands for, by Python's account of equality: two values are equal
\* when they denote the same.
DenotesBy(denotes, v) ==
  CASE Tag(v) = "NONE"   -> <<"none">>
    [] IsNan(v)          -> <<"nan", v>>
    [] IsNumber(v) /\ ~IsNan(v) -> <<"num", N(v)[1]>>
    [] Tag(v) = "STRING" -> <<"str", N(v)>>
    [] Tag(v) = "BYTES"  -> <<"bytes", N(v)>>
    [] Tag(v) = "TUPLE"  -> <<"tuple", AllOf(denotes, Items(v))>>
    [] Tag(v) = "LIST"   -> <<"list", AllOf(denotes, Items(v))>>
    [] SetLike(v)        -> <<"set", SetOf(denotes, SetElements(v))>>
    [] Tag(v) = "DICT"   -> <<"dict", PairsOf(denotes, Items(v), Vals(v))>>
    [] Tag(v) = "RANGE"  -> <<"range", InOrder(RangeSet(N(v)[1], N(v)[2], N(v)[3]), N(v)[3])>>
    [] OTHER             -> <<"at", v>>

Denotation[v \in Cells] == DenotesBy(Denotation, v)

Denotes(v) == Denotation[v]
Same(a, b) == Denotes(a) = Denotes(b)

\* A value and all that it holds.
Reachable[v \in Cells] ==
  {v} \cup UNION {Reachable[x] : x \in ToSet(Items(v)) \cup ToSet(Vals(v))}

\* Exception: an int and a float are compared as doubles, so that an int equals
\* the double next to it.
Inexact(x, y) ==
  /\ IntLike(x) /\ Tag(y) = "FLOAT" /\ ~IsNan(y)
  /\ ToDouble[N(x)[1]] = N(y)[1] /\ N(x)[1] # N(y)[1]

\* Exception: equal ranges of one number have hashes that depend on the step.
OneNumber(v)      == Tag(v) = "RANGE" /\ ValueRangeLen(v) = 1
StepsDiffer(x, y) == OneNumber(x) /\ OneNumber(y) /\ N(x)[1] = N(y)[1] /\ N(x)[3] # N(y)[3]

\* Exception: the length of a range whose bounds are further apart than INT64_MAX.
Wide(v) == Tag(v) = "RANGE" /\ Magnitude(N(v)[2] - N(v)[1]) > IntMax

\* No two values that are met in comparing a and b are an exception.
Clear(a, b) ==
  LET met == Reachable[a] \cup Reachable[b]
  IN \A x \in met : ~Wide(x) /\ \A y \in met : ~Inexact(x, y) /\ ~StepsDiffer(x, y)

\* Two ranges are compared by their numbers, without their hashes.
TwoRanges(a, b) == Tag(a) = "RANGE" /\ Tag(b) = "RANGE" /\ ~Wide(a) /\ ~Wide(b)

\* Exception: a nan is equal to itself.
SameNan(a, b) == a = b /\ IsNan(a)

\* Values are equal when Python says so, through every mixture of int, bool and
\* float, set and frozenset and keys view, and nesting; equal values that can be
\* keys have equal hashes, without which a dict or a set loses them: value_equal,
\* value_hash.
EqualityAsPython ==
  case.kind = "values" =>
    LET a == case.a
        b == case.b
    IN /\ (Clear(a, b) \/ TwoRanges(a, b)) /\ ~SameNan(a, b) =>
            \A op \in {"EQ", "NE"} : Compare(op, a, b) = Done(Same(a, b) = (op = "EQ"))
       /\ Clear(a, b) /\ Hashable(a) /\ Hashable(b) /\ Same(a, b) => HashOf(a) = HashOf(b)

-----------------------------------------------------------------------------
(* Membership *)

Held(v) == IF Tag(v) = "DICT_VIEW" /\ ~IsKeys(v) THEN ValsOf(v) ELSE SetElements(v)

Members(v) ==
  IF Tag(v) = "RANGE" THEN {<<"num", x>> : x \in RangeSet(N(v)[1], N(v)[2], N(v)[3])}
  ELSE {Denotes(x) : x \in ToSet(Held(v))}

\* item in container finds what the container holds, whether it compares the items
\* in turn or looks the item up by its hash; an item that cannot be a key is an
\* error where it is looked up: op_contains.
MembershipAsPython ==
  case.kind = "values" /\ Tag(case.b) \notin {"STRING", "BYTES"} /\ Clear(case.a, case.b) =>
    LET item      == case.a
        container == case.b
        keyed     == Tag(container) \in {"DICT", "SET", "FROZENSET"} \/ IsKeys(container)
        holds     == keyed \/ Tag(container) \in {"LIST", "TUPLE", "RANGE", "DICT_VIEW"}
        as_set    == Tag(item) = "SET" /\ Tag(container) \in {"SET", "FROZENSET"}
    IN In(item, container) =
         IF ~holds \/ (keyed /\ ~Hashable(item) /\ ~as_set) THEN Failed("TYPE")
         ELSE Done(Denotes(item) \in Members(container))

-----------------------------------------------------------------------------
(* Order *)

Orderings == {"LT", "LE", "GT", "GE"}

\* One text comes before another: it is its beginning, or less where they part.
Precedes(s, t) ==
  \/ Len(s) < Len(t) /\ \A i \in 1..Len(s) : s[i] = t[i]
  \/ \E i \in 1..Min({Len(s), Len(t)}) : s[i] < t[i] /\ \A j \in 1..(i - 1) : s[j] = t[j]

TextRank(s, t) == IF s = t THEN 0 ELSE IF Precedes(s, t) THEN -1 ELSE 1

PartOf(strict, A, B) == A \subseteq B /\ (strict => A # B)

Includes(op, a, b) == PartOf(op \in {"LT", "GT"}, Members(b), Members(a))

\* Two lists are in the order of the first items that differ, or of their lengths.
RankAt(rank, op, s, t, differs) ==
  IF differs = {} THEN Done(Ordered(op, Len(s) - Len(t)))
  ELSE rank[<<s[Min(differs)], t[Min(differs)]>>][op]

RankItems(rank, op, s, t) ==
  RankAt(rank, op, s, t, {i \in 1..Min({Len(s), Len(t)}) : ~Same(s[i], t[i])})

\* Python's order: of numbers, of texts, item by item, by inclusion of sets.
RankBy(rank, op, a, b) ==
  IF IsNumber(a) /\ IsNumber(b)
  THEN Done(~IsNan(a) /\ ~IsNan(b) /\ Ordered(op, N(a)[1] - N(b)[1]))
  ELSE IF SetLike(a) /\ SetLike(b)
  THEN Done(IF op \in {"LT", "LE"} THEN Includes(op, b, a) ELSE Includes(op, a, b))
  ELSE IF Tag(a) # Tag(b) THEN Failed("TYPE")
  ELSE IF Tag(a) \in {"STRING", "BYTES"} THEN Done(Ordered(op, TextRank(N(a), N(b))))
  ELSE IF Tag(a) \in {"LIST", "TUPLE"} THEN RankItems(rank, op, Items(a), Items(b))
  ELSE Failed("TYPE")

Ranking[p \in Cells \X Cells] == [op \in Orderings |-> RankBy(Ranking, op, p[1], p[2])]

Ranks(op, a, b) == Ranking[<<a, b>>][op]

\* Exceptions: a keys view is read as a set; inside a list or tuple sets have no
\* order and a nan is equal to every number.
Plain(v) == \A x \in Reachable[v] : ~IsNan(x) /\ ~SetLike(x)

Unranked(a, b) ==
  \/ SetLike(a) /\ SetLike(b) /\ (IsKeys(a) \/ IsKeys(b))
  \/ Tag(a) = Tag(b) /\ Tag(a) \in {"LIST", "TUPLE"} /\ ~(Plain(a) /\ Plain(b))

\* <, <=, > and >= order values as Python does, or are a TypeError where it has no
\* order: op_compare, order_compare.
OrderAsPython ==
  case.kind = "values" /\ Clear(case.a, case.b) /\ ~Unranked(case.a, case.b) =>
    \A op \in Orderings : Compare(op, case.a, case.b) = Ranks(op, case.a, case.b)

-----------------------------------------------------------------------------
(* The algebra of sets *)

\* A sequence of items is the set denoted by want, without repetition.
IsSet(result, want) ==
  /\ result.error = "OK"
  /\ {Denotes(x) : x \in ToSet(result.value)} = want
  /\ Len(result.value) = Cardinality(want)

\* Where the operands allow an operation it yields a set, or answers a question, and
\* it is a TypeError where they do not.
YieldsSet(result, allowed, want) ==
  IF allowed THEN IsSet(result, want) ELSE result = Failed("TYPE")
Answers(result, allowed, want) == result = IF allowed THEN Done(want) ELSE Failed("TYPE")

\* A and B are the members of a and b, H those of b that can be hashed.
AlgebraOf(a, b, A, B, H, usable) ==
  /\ YieldsSet(Difference2(a, b), Iterable(b), A \ H)
  /\ YieldsSet(Union2(a, b), usable, A \cup B)
  /\ YieldsSet(Intersection2(a, b), usable, A \cap B)
  /\ YieldsSet(SymmetricDifference2(a, b), usable, (A \ B) \cup (B \ A))
  /\ Answers(IsSubset(a, b), usable, A \subseteq B)
  /\ Answers(IsSuperset(a, b), usable, B \subseteq A)
  /\ Answers(IsDisjoint(a, b), usable, A \cap B = {})
  /\ YieldsSet(SetOperator(Difference2(a, b), a, b), Tag(b) \in {"SET", "FROZENSET"}, A \ B)

\* The methods of sets compute the set operations, of any iterable, and the
\* operators those of two sets; an argument that holds what cannot be hashed is an
\* error, except to difference, which passes over it: ops_set.c, methods_set.c.
SetAlgebra ==
  LET a == case.a
      b == case.b
  IN case.kind = "values" /\ Tag(a) \in {"SET", "FROZENSET"}
       /\ Tag(b) \notin {"STRING", "BYTES", "RANGE"} /\ (Tag(b) = "DICT_VIEW" => IsKeys(b))
       /\ Clear(a, b) =>
       AlgebraOf(a, b, Members(a), Members(b),
                 {Denotes(x) : x \in {y \in ToSet(Yields(b)) : Hashable(y)}},
                 Iterable(b) /\ AllHashable(b))
=============================================================================
