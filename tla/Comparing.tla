----------------------------- MODULE Comparing -----------------------------
(***************************************************************************)
(* Equality, hashing, order, membership and the algebra of sets:           *)
(* vm_c/ops_compare.c, vm_c/hash.c, vm_c/ops_set.c, vm_c/methods_set.c.    *)
(*                                                                         *)
(* A value is the number of a cell of heap, as a Value * is an address, so *)
(* that identity is equality of numbers.  A cell is a record               *)
(*   tag   the ValueTag                                                    *)
(*   n     the data of an atom: <<i>> for an int, a bool or a float, << >> *)
(*         for a nan, the characters of a string, the kind of a dict view, *)
(*         start, stop and step of a range                                 *)
(*   items the items, the keys of a dict, the dict of a view               *)
(*   vals  the values of a dict                                            *)
(* A hash is a term that equal data yield: what the hash functions compute *)
(* is left out, and unequal terms may collide.                             *)
(***************************************************************************)
EXTENDS Arithmetic, FiniteSets, SequencesExt

CONSTANTS
  heap,        \* the values that are alive; comparing them changes none
  Doubles,     \* the integers that are a double: all of them up to 2^53
  ToDouble     \* (double)i, of every int64_t

\* A conversion rounds to a neighbour: it is exact where it can be.
ASSUME DoubleAssumption ==
  /\ Doubles \subseteq Int
  /\ ToDouble \in [Ints -> Doubles]
  /\ \A i \in Ints, d \in Doubles :
       /\ i <= d => ToDouble[i] <= d
       /\ i >= d => ToDouble[i] >= d

Cells == 1..Len(heap)

Tag(v)   == heap[v].tag
N(v)     == heap[v].n
Items(v) == heap[v].items
Vals(v)  == heap[v].vals

IntLike(v)  == Tag(v) \in {"INT", "BOOL"}
IsNumber(v) == IntLike(v) \/ Tag(v) = "FLOAT"
IsNan(v)    == Tag(v) = "FLOAT" /\ N(v) = << >>

AsDouble(v) == IF IntLike(v) THEN ToDouble[N(v)[1]] ELSE N(v)[1]

ValueRangeLen(v) == RangeLen(N(v)[1], N(v)[2], N(v)[3])

\* What iterating yields, for the containers of values; a pair of an items view
\* stands for the tuple that is made of it.
KeysOf(view)  == Items(Items(view)[1])
ValsOf(view)  == Vals(Items(view)[1])
IsKeys(v)     == Tag(v) = "DICT_VIEW" /\ N(v) = <<"KEYS">>

-----------------------------------------------------------------------------
\* value_is_hashable.
CanHash[v \in Cells] ==
  /\ Tag(v) \notin {"LIST", "DICT", "SET", "DICT_VIEW"}
  /\ Tag(v) = "TUPLE" => \A i \in 1..Len(Items(v)) : CanHash[Items(v)[i]]

Hashable(v) == CanHash[v]

\* What f is of each item of a sequence.
AllOf(f, s) == [i \in 1..Len(s) |-> f[s[i]]]
SetOf(f, s) == {f[s[i]] : i \in 1..Len(s)}

\* value_hash of a hashable value, from the hashes of what is in it.
RangeTerm(len, start, step) ==
  IF len = 0 THEN <<"range">>
  ELSE <<"tuple", << <<"num", len>>, <<"num", start>>, <<"num", step>> >> >>

RangeHash(v) == RangeTerm(ValueRangeLen(v), N(v)[1], N(v)[3])

FaultyHashBy(hash, v) ==
  CASE Tag(v) = "NONE"                -> <<"none">>
    [] Tag(v) \in {"INT", "BOOL"}     -> <<"int", N(v)[1]>>
    [] Tag(v) = "FLOAT" /\ ~IsNan(v)  -> <<"float", N(v)[1]>>
    [] Tag(v) \in {"STRING", "BYTES"} -> <<"text", N(v)>>
    [] Tag(v) = "TUPLE"               -> <<"tuple", AllOf(hash, Items(v))>>
    [] Tag(v) = "FROZENSET"           -> <<"set", SetOf(hash, Items(v))>>
    [] Tag(v) = "RANGE"               -> RangeHash(v)
    [] OTHER                          -> <<"at", v>>

HashBy(hash, v) ==
  CASE Tag(v) = "NONE"                -> <<"none">>
    [] IsNumber(v) /\ ~IsNan(v)       -> <<"num", N(v)[1]>>
    [] Tag(v) \in {"STRING", "BYTES"} -> <<"text", N(v)>>
    [] Tag(v) = "TUPLE"               -> <<"tuple", AllOf(hash, Items(v))>>
    [] Tag(v) = "FROZENSET"           -> <<"set", SetOf(hash, Items(v))>>
    [] Tag(v) = "RANGE"               -> RangeHash(v)
    [] OTHER                          -> <<"at", v>>

HashTerms[v \in Cells] == HashBy(HashTerms, v)

HashOf(v) == HashTerms[v]

-----------------------------------------------------------------------------
(* Equality.  hash[x] is what value_hash yields for x, equal[<<x, y>>] what    *)
(* value_equal says of x and y.  A probe of a hash index compares the hashes   *)
(* first.                                                                      *)

Matches(hash, equal, x, y) == hash[x] = hash[y] /\ equal[<<x, y>>]

DictGet(hash, equal, dict, key) ==
  {i \in 1..Len(Items(dict)) : Hashable(key) /\ Matches(hash, equal, Items(dict)[i], key)}

\* value_set_contains: what has no hash is compared with every item.
SetContains(hash, equal, set, item) ==
  /\ Tag(set) \in {"SET", "FROZENSET"}
  /\ \E x \in ToSet(Items(set)) :
       IF Hashable(item) THEN Matches(hash, equal, x, item) ELSE equal[<<x, item>>]

\* is_setlike of ops_compare.c; that of ops_set.c leaves the views out.
SetLike(v)     == Tag(v) \in {"SET", "FROZENSET"} \/ IsKeys(v)
SetElements(v) == IF IsKeys(v) THEN KeysOf(v) ELSE Items(v)

SetLikeContains(hash, equal, c, item) ==
  /\ Hashable(item)
  /\ IF IsKeys(c) THEN DictGet(hash, equal, Items(c)[1], item) # {}
     ELSE SetContains(hash, equal, c, item)

FaultySetLikeEqual(hash, equal, a, b) ==
  \A x \in ToSet(SetElements(a)) : SetLikeContains(hash, equal, b, x)

SetLikeEqual(hash, equal, a, b) ==
  /\ Len(SetElements(a)) = Len(SetElements(b))
  /\ \A x \in ToSet(SetElements(a)) : SetLikeContains(hash, equal, b, x)

ItemsEqual(equal, s, t) == Len(s) = Len(t) /\ \A i \in 1..Len(s) : equal[<<s[i], t[i]>>]

DictsEqual(hash, equal, a, b) ==
  /\ Len(Items(a)) = Len(Items(b))
  /\ \A i \in 1..Len(Items(a)) :
        \E j \in DictGet(hash, equal, b, Items(a)[i]) : equal[<<Vals(a)[i], Vals(b)[j]>>]

RangesOf(m, n, a, b) ==
  /\ m = n
  /\ m # 0 => N(a)[1] = N(b)[1]
  /\ m \notin {0, 1} => N(a)[3] = N(b)[3]

RangesEqual(a, b) == RangesOf(ValueRangeLen(a), ValueRangeLen(b), a, b)

NumbersEqual(a, b) ==
  IF IntLike(a) /\ IntLike(b) THEN N(a)[1] = N(b)[1]
  ELSE ~IsNan(a) /\ ~IsNan(b) /\ AsDouble(a) = AsDouble(b)

\* value_equal.
EqualBy(hash, equal, a, b) ==
  \/ a = b
  \/ IsNumber(a) /\ IsNumber(b) /\ NumbersEqual(a, b)
  \/ SetLike(a) /\ SetLike(b) /\ SetLikeEqual(hash, equal, a, b)
  \/ /\ Tag(a) = Tag(b)
     /\ \/ Tag(a) = "NONE"
        \/ Tag(a) \in {"STRING", "BYTES"} /\ N(a) = N(b)
        \/ Tag(a) \in {"LIST", "TUPLE"} /\ ItemsEqual(equal, Items(a), Items(b))
        \/ Tag(a) = "DICT" /\ DictsEqual(hash, equal, a, b)
        \/ Tag(a) = "RANGE" /\ RangesEqual(a, b)

AreEqual[p \in Cells \X Cells] == EqualBy(HashTerms, AreEqual, p[1], p[2])

Equal(a, b) == AreEqual[<<a, b>>]

\* dict_view_contains, of a keys or a values view.
ViewContains(view, item) ==
  IF IsKeys(view) THEN DictGet(HashTerms, AreEqual, Items(view)[1], item) # {}
  ELSE \E x \in ToSet(ValsOf(view)) : Equal(x, item)

-----------------------------------------------------------------------------
Sign(x, y) == IF x < y THEN -1 ELSE IF x > y THEN 1 ELSE 0

\* value_compare of two strings: the bytes in common, then the lengths.
TextOrder(s, t) ==
  LET common  == Min({Len(s), Len(t)})
      differs == {i \in 1..common : s[i] # t[i]}
  IN IF differs = {} THEN Sign(Len(s), Len(t)) ELSE Sign(s[Min(differs)], t[Min(differs)])

\* Where two sequences differ, as far as both go.
Differing(s, t) == {i \in 1..Min({Len(s), Len(t)}) : ~Equal(s[i], t[i])}

\* order_compare and order_items: -1, 0 or 1, or an error.
AtFirst(order, s, t, differs) ==
  IF differs = {} THEN Done(Sign(Len(s), Len(t)))
  ELSE order[<<s[Min(differs)], t[Min(differs)]>>]

FaultyOrderItems(order, s, t) ==
  IF Len(s) # Len(t) THEN Done(Sign(Len(s), Len(t))) ELSE AtFirst(order, s, t, Differing(s, t))

OrderItems(order, s, t) == AtFirst(order, s, t, Differing(s, t))

NumberOrder(a, b) ==
  IF IntLike(a) /\ IntLike(b) THEN Sign(N(a)[1], N(b)[1])
  ELSE IF IsNan(a) \/ IsNan(b) THEN 0 ELSE Sign(AsDouble(a), AsDouble(b))

OrderBy(order, a, b) ==
  IF IsNumber(a) /\ IsNumber(b) THEN Done(NumberOrder(a, b))
  ELSE IF Tag(a) # Tag(b) THEN Failed("TYPE")
  ELSE IF Tag(a) \in {"STRING", "BYTES"} THEN Done(TextOrder(N(a), N(b)))
  ELSE IF Tag(a) \in {"LIST", "TUPLE"} THEN OrderItems(order, Items(a), Items(b))
  ELSE Failed("TYPE")

Orders[p \in Cells \X Cells] == OrderBy(Orders, p[1], p[2])

Order(a, b) == Orders[<<a, b>>]

Ordered(op, cmp) ==
  CASE op = "LT" -> cmp < 0
    [] op = "LE" -> cmp <= 0
    [] op = "GT" -> cmp > 0
    [] op = "GE" -> cmp >= 0

\* compare_ordering, unless there is no order.
Judged(op, order) == IF order.error = "OK" THEN Done(Ordered(op, order.value)) ELSE order

\* setlike_subset and the lengths of op_compare take a view for a set: a keys view has
\* nothing where a set has its length, and value_alloc left a zero there.
SetLen(v)        == IF IsKeys(v) THEN 0 ELSE Len(Items(v))
SetLikeSubset(a, b) ==
  IsKeys(a) \/ \A x \in ToSet(Items(a)) : SetContains(HashTerms, AreEqual, b, x)

Included(op, a, b) == SetLikeSubset(a, b) /\ (op \in {"LT", "GT"} => SetLen(a) < SetLen(b))

\* op_compare.
Compare(op, a, b) ==
  CASE op = "EQ" -> Done(Equal(a, b))
    [] op = "NE" -> Done(~Equal(a, b))
    [] op \notin {"EQ", "NE"} /\ SetLike(a) /\ SetLike(b) ->
         Done(IF op \in {"LT", "LE"} THEN Included(op, a, b) ELSE Included(op, b, a))
    [] op \notin {"EQ", "NE"} /\ IsNumber(a) /\ IsNumber(b) ->
         Done(~IsNan(a) /\ ~IsNan(b) /\ Ordered(op, NumberOrder(a, b)))
    [] OTHER -> Judged(op, Order(a, b))

\* op_contains, but for substrings and bytes.
In(item, container) ==
  CASE Tag(container) \in {"LIST", "TUPLE"} ->
         Done(\E x \in ToSet(Items(container)) : Equal(x, item))
    [] Tag(container) = "DICT" ->
         IF Hashable(item) THEN Done(DictGet(HashTerms, AreEqual, container, item) # {})
         ELSE Failed("TYPE")
    [] Tag(container) \in {"SET", "FROZENSET"} ->
         IF ~Hashable(item) /\ Tag(item) # "SET" THEN Failed("TYPE")
         ELSE Done(SetContains(HashTerms, AreEqual, container, item))
    [] Tag(container) = "DICT_VIEW" ->
         IF IsKeys(container) /\ ~Hashable(item) THEN Failed("TYPE")
         ELSE Done(ViewContains(container, item))
    [] Tag(container) = "RANGE" ->
         Done(IsNumber(item) /\ ~IsNan(item)
              /\ RangeContains(N(item)[1], N(container)[1], N(container)[2], N(container)[3]))
    [] OTHER -> Failed("TYPE")

-----------------------------------------------------------------------------
\* value_set_add and value_set_discard, on the sequence of a set's items.
Has(hash, equal, items, x)  == \E y \in ToSet(items) : Matches(hash, equal, y, x)
With(hash, equal, items, x) == IF Has(hash, equal, items, x) THEN items ELSE Append(items, x)

\* The items among those to keep, one after the other.
Those(items, keep) ==
  LET after[i \in 0..Len(items)] ==
        IF i = 0 THEN << >>
        ELSE IF items[i] \in keep THEN Append(after[i - 1], items[i]) ELSE after[i - 1]
  IN after[Len(items)]

Drop(hash, equal, items, x) ==
  IF Hashable(x) THEN Those(items, {y \in Cells : ~Matches(hash, equal, y, x)}) ELSE items

AddAll(hash, equal, items, new) ==
  LET after[i \in 0..Len(new)] == IF i = 0 THEN items ELSE With(hash, equal, after[i - 1], new[i])
  IN after[Len(new)]

DropAll(hash, equal, items, old) ==
  LET after[i \in 0..Len(old)] == IF i = 0 THEN items ELSE Drop(hash, equal, after[i - 1], old[i])
  IN after[Len(old)]

\* The cells that match an item.
Matching(hash, equal, items) == {x \in Cells : Has(hash, equal, items, x)}

\* What iterating a value yields, and whether it can be iterated.
Iterable(v) == Tag(v) \in {"LIST", "TUPLE", "SET", "FROZENSET", "DICT"} \/ IsKeys(v)
Yields(v)   == SetElements(v)

AllHashable(v) == \A x \in ToSet(Yields(v)) : Hashable(x)

\* setlike_union: copy_setlike, then value_set_update.
Union2(self, other) ==
  IF Iterable(other) /\ AllHashable(other)
  THEN Done(AddAll(HashTerms, AreEqual, Items(self), Yields(other))) ELSE Failed("TYPE")

\* materialize: a set is taken as it is, anything else made one.
Materialized(other) ==
  IF Tag(other) \in {"SET", "FROZENSET"} THEN Items(other)
  ELSE AddAll(HashTerms, AreEqual, << >>, Yields(other))

Usable(other) == Tag(other) \in {"SET", "FROZENSET"} \/ (Iterable(other) /\ AllHashable(other))

Intersection2(self, other) ==
  IF Usable(other)
  THEN Done(Those(Items(self), Matching(HashTerms, AreEqual, Materialized(other))))
  ELSE Failed("TYPE")

\* setlike_difference discards what other yields: nothing for an unhashable item.
Difference2(self, other) ==
  IF Iterable(other) THEN Done(DropAll(HashTerms, AreEqual, Items(self), Yields(other)))
  ELSE Failed("TYPE")

\* The items of two sequences that match none of the other.
Unmatched(hash, equal, s, t) ==
  Those(s, Cells \ Matching(hash, equal, t)) \o Those(t, Cells \ Matching(hash, equal, s))

FaultySymmetricDifference2(self, other) ==
  IF Usable(other) THEN Done(Unmatched(HashTerms, AreEqual, Items(self), Yields(other)))
  ELSE Failed("TYPE")

SymmetricDifference2(self, other) ==
  IF Usable(other) THEN Done(Unmatched(HashTerms, AreEqual, Items(self), Materialized(other)))
  ELSE Failed("TYPE")

\* set_issubset, set_issuperset, set_isdisjoint.
IsSubset(self, other) ==
  IF Usable(other)
  THEN Done(\A x \in ToSet(Items(self)) : Has(HashTerms, AreEqual, Materialized(other), x))
  ELSE Failed("TYPE")
IsSuperset(self, other) ==
  IF Usable(other)
  THEN Done(\A x \in ToSet(Materialized(other)) : Has(HashTerms, AreEqual, Items(self), x))
  ELSE Failed("TYPE")
IsDisjoint(self, other) ==
  IF Usable(other)
  THEN Done(\A x \in ToSet(Items(self)) : ~Has(HashTerms, AreEqual, Materialized(other), x))
  ELSE Failed("TYPE")

\* set_binary_op takes sets only, with the methods' operations.
SetOperator(result, a, b) ==
  IF {Tag(a), Tag(b)} \subseteq {"SET", "FROZENSET"} THEN result ELSE Failed("TYPE")
=============================================================================
